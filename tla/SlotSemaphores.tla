--------------------------- MODULE SlotSemaphores ---------------------------
(***************************************************************************)
(* What the pool promises its callers about capacity, whatever cooldowns,  *)
(* claims, latches and orderings decide underneath: each slot is a         *)
(* counting semaphore.  A caller takes several distinct slots at once or   *)
(* none, never one that is full, and hands them back one by one.           *)
(***************************************************************************)
EXTENDS Naturals, FiniteSets

CONSTANTS Slots, Callers

VARIABLES
  limit,    \* how many callers a slot admits at a time
  holding   \* the slots each caller has taken

Takers(m) == {c \in Callers : m \in holding[c]}

Take(c, S) ==
  /\ S # {}
  /\ S \cap holding[c] = {}
  /\ \A m \in S : Cardinality(Takers(m)) < limit[m]
  /\ holding' = [holding EXCEPT ![c] = @ \cup S]
  /\ UNCHANGED limit

Give(c, m) ==
  /\ m \in holding[c]
  /\ holding' = [holding EXCEPT ![c] = @ \ {m}]
  /\ UNCHANGED limit

Init ==
  /\ limit \in [Slots -> Nat \ {0}]
  /\ holding = [c \in Callers |-> {}]

Next ==
  \E c \in Callers :
    \/ \E S \in SUBSET Slots : Take(c, S)
    \/ \E m \in Slots : Give(c, m)

vars == <<limit, holding>>

Spec == Init /\ [][Next]_vars
=============================================================================
