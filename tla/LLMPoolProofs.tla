---------------------------- MODULE LLMPoolProofs ----------------------------
(***************************************************************************)
(* The safety of the pool for any models, callers, capacities and widths.  *)
(***************************************************************************)
EXTENDS LLMPool, FiniteSetTheorems, TLAPS

-----------------------------------------------------------------------------
(* What is selected comes out of what is free. *)

LEMMA CoverWithin ==
  ASSUME NEW F, NEW n, NEW c, NEW S \in Cover(F, n, c)
  PROVE  S \subseteq F
<1>1. CASE n <= 0
  BY <1>1 DEF Cover
<1>2. CASE ~(n <= 0)
  BY <1>2 DEF Cover, BestOf
<1> QED
  BY <1>1, <1>2

LEMMA SelectionWithin ==
  ASSUME NEW F, NEW width, NEW recoveryWidth, NEW c,
         NEW S \in Selections(F, width, recoveryWidth, c)
  PROVE  S \subseteq F
<1>1. PICK best \in BestOf(F, width, c) :
        \/ S = best
        \/ \E extra \in Cover(F \ best, recoveryWidth - width, c) : S = best \cup extra
  BY DEF Selections
<1>2. best \subseteq F
  BY <1>1 DEF BestOf
<1> QED
  BY <1>1, <1>2, CoverWithin

(* What the settlement of one attempt leaves of the slot's count is a count. *)
LEMMA CountAfterIsNat ==
  ASSUME TypeOK, NEW m \in Models
  PROVE  CountAfter(m) \in Nat
BY DEF TypeOK, CountAfter

-----------------------------------------------------------------------------
(* Type correctness. *)

LEMMA TypeInit == Init => TypeOK
<1> SUFFICES ASSUME Init
             PROVE  TypeOK
  OBVIOUS
<1>1. cap \in [Models -> Nat \ {0}]
  BY PoolAssumption DEF Init
<1>2. patience \in [Callers -> {Forever, NoQueue} \cup (0 .. MaxBudget)]
  BY DEF Init
<1>3. bound \in [Models -> 0 .. MaxBudget] /\ inFlight \in [Models -> Nat]
  BY PoolAssumption DEF Init
<1> QED
  BY <1>1, <1>2, <1>3 DEF Init, TypeOK

(* A reservation of free slots keeps the types of the slots and of `held`. *)
LEMMA ReserveType ==
  ASSUME TypeOK, NEW c \in Callers, NEW S, S \subseteq members, Reserve(c, S)
  PROVE  /\ members' \subseteq Models
         /\ cap' \in [Models -> Nat \ {0}]
         /\ inFlight' \in [Models -> Nat]
         /\ cooling' \subseteq members'
         /\ disabled' \subseteq members'
         /\ due' \subseteq members'
         /\ claimed' \subseteq members'
         /\ bound' \in [Models -> 0 .. MaxBudget]
         /\ held' \in [Callers -> SUBSET Models]
         /\ recovering' \in [Callers -> SUBSET Models]
         /\ stale' \in [Callers -> SUBSET Models]
BY DEF TypeOK, Reserve

LEMMA FreeAmongMembers ==
  ASSUME NEW W
  PROVE  FreeAmong(W) \subseteq members \cap W
BY DEF FreeAmong, Candidates

LEMMA TypeStep == TypeOK /\ [Next]_vars => TypeOK'
<1> SUFFICES ASSUME TypeOK, [Next]_vars
             PROVE  TypeOK'
  OBVIOUS
<1> USE PoolAssumption
<1>1. ASSUME NEW m \in Models, NEW k \in Caps, Add(m, k)
      PROVE  TypeOK'
  BY <1>1 DEF TypeOK, Add, NotifyAll, Wake, heldVars
<1>2. ASSUME NEW m \in Models, Drop(m)
      PROVE  TypeOK'
  BY <1>2 DEF TypeOK, Drop, NotifyAll, Wake
<1>3. ASSUME NEW m \in Models, SetDisabled(m)
      PROVE  TypeOK'
  BY <1>3 DEF TypeOK, SetDisabled, callVars, heldVars
<1>4. ASSUME NEW m \in Models, ClearDisabled(m)
      PROVE  TypeOK'
  BY <1>4 DEF TypeOK, ClearDisabled, NotifyAll, Wake, heldVars
<1>5. ASSUME NEW b \in [Models -> 0 .. MaxBudget], ApplyBudgetBounds(b)
      PROVE  TypeOK'
  BY <1>5 DEF TypeOK, ApplyBudgetBounds, callVars, heldVars
<1>6. ASSUME NEW m \in Models, CoolingElapses(m)
      PROVE  TypeOK'
  BY <1>6 DEF TypeOK, CoolingElapses, Wake, heldVars
<1>7. ASSUME NEW m \in Models, BoundLapses(m)
      PROVE  TypeOK'
  BY <1>7 DEF TypeOK, BoundLapses, callVars, heldVars
<1>8. ASSUME NEW c \in Callers, Tick(c)
      PROVE  TypeOK'
  BY <1>8 DEF TypeOK, Tick, Wake, slotVars, heldVars, Forever, NoQueue
<1>9. ASSUME NEW c \in Callers, NEW W \in SUBSET Models, NEW p \in Waits, Enter(c, W, p)
      PROVE  TypeOK'
  BY <1>9 DEF TypeOK, Enter, Queue, Waits, slotVars, heldVars
<1>10. ASSUME NEW c \in Callers, NEW W \in SUBSET Models, Reenter(c, W)
       PROVE  TypeOK'
  BY <1>10 DEF TypeOK, Reenter, Queue, slotVars, heldVars
<1>11. ASSUME NEW c \in Callers, NEW width, NEW recoveryWidth, Acquire(c, width, recoveryWidth)
       PROVE  TypeOK'
  <2>1. PICK S \in Selections(FreeAmong(want[c]), width, recoveryWidth, c) : Reserve(c, S)
    BY <1>11 DEF Acquire
  <2>2. S \subseteq members
    BY SelectionWithin, FreeAmongMembers
  <2>3. /\ phase' \in [Callers -> {"idle", "queued", "blocked", "running"}]
        /\ want' \in [Callers -> SUBSET Models]
        /\ patience' \in [Callers -> {Forever, NoQueue} \cup (0 .. MaxBudget)]
        /\ timer' \in [Callers -> SUBSET Models]
    BY <1>11 DEF Acquire, TypeOK
  <2> QED
    BY <2>1, <2>2, <2>3, ReserveType DEF TypeOK
<1>12. ASSUME NEW c \in Callers, EndCall(c), UNCHANGED slotVars
       PROVE  TypeOK'
  BY <1>12 DEF TypeOK, EndCall, slotVars, heldVars
<1>13. ASSUME NEW c \in Callers, Block(c)
       PROVE  TypeOK'
  BY <1>13 DEF TypeOK, Block, Timed, Candidates, slotVars, heldVars
<1>14. ASSUME NEW c \in Callers, NEW W \in SUBSET Models, NEW needed, TakeFree(c, W, needed)
       PROVE  TypeOK'
  <2>1. PICK S \in Selections(FreeAmong(W), needed, 1, c) : Reserve(c, S)
    BY <1>14 DEF TakeFree
  <2>2. S \subseteq members
    BY SelectionWithin, FreeAmongMembers
  <2> QED
    BY <1>14, <2>1, <2>2, ReserveType DEF TypeOK, TakeFree
<1>15. ASSUME NEW c \in Callers, NEW m \in Models, HandBack(c, m),
              cooling' \subseteq members, due' \subseteq members,
              bound' \in [Models -> 0 .. MaxBudget]
       PROVE  TypeOK'
  BY <1>15, CountAfterIsNat DEF TypeOK, HandBack, ClaimsAfter, NotifyAll, Wake
<1>16. ASSUME NEW c \in Callers, NEW m \in Models, Settle(c, m)
       PROVE  TypeOK'
  <2>1. CASE Release(c, m)
    BY <1>15, <2>1 DEF Release, TypeOK
  <2>2. CASE FinishOk(c, m)
    BY <1>15, <2>2 DEF FinishOk, TypeOK
  <2>3. ASSUME NEW missed \in 0 .. MaxBudget, CoolDown(c, m, missed)
        PROVE  TypeOK'
    BY <1>15, <2>3 DEF CoolDown, TypeOK
  <2> QED
    BY <1>16, <2>1, <2>2, <2>3 DEF Settle
<1>17. CASE UNCHANGED vars
  BY <1>17 DEF TypeOK, vars, slotVars, callVars, heldVars
<1>18. ASSUME NEW c \in Callers, Call(c)
       PROVE  TypeOK'
  BY <1>9, <1>10, <1>11, <1>12, <1>13, <1>14, <1>16, <1>18
     DEF Call, Evaluate, Exhausted, TimedOut, CancelQueue, Leave
<1> QED
  BY <1>1, <1>2, <1>3, <1>4, <1>5, <1>6, <1>7, <1>8, <1>17, <1>18 DEF Next, Admin, Clock

(* Every reachable state of the pool is well formed: the latch, the         *)
(* cooldowns, the recoveries and the claims speak of slots that exist, and  *)
(* no count ever drops below zero.                                          *)
THEOREM TypeCorrect == Spec => []TypeOK
BY TypeInit, TypeStep, PTL DEF Spec

-----------------------------------------------------------------------------
(* The inductive invariant.  SlotsConserved says nothing of which calls may *)
(* hold a slot at all; a hand-back is only right because the slot a call    *)
(* holds is either the standing one or one it knows only as departed.       *)

HeldOK ==
  /\ \A c \in Callers : recovering[c] \subseteq held[c]
  /\ \A c \in Callers : stale[c] \subseteq held[c] \cap Volatile
  /\ \A c \in Callers : held[c] \ stale[c] \subseteq members
  /\ \A c \in Callers : phase[c] # "running" => held[c] = {}

WithinCap == \A m \in Models \ Volatile : inFlight[m] <= cap[m]

IInv == TypeOK /\ HeldOK /\ SlotsConserved /\ WithinCap /\ ClaimHasOwner

(* The steps of the pool, as far as this invariant can tell them apart. *)

Quiet ==
  /\ UNCHANGED <<members, cap, inFlight, claimed, held, recovering, stale>>
  /\ \A c \in Callers : phase'[c] # "running" => phase[c] # "running" \/ held[c] = {}

TakesSlots(c, S) ==
  /\ Reserve(c, S)
  /\ S \subseteq {m \in members : IsFree(m)}
  /\ S \cap held[c] = {}
  /\ phase'[c] = "running"
  /\ \A d \in Callers \ {c} : phase'[d] = phase[d]

HandsBack(c, m) == m \in held[c] /\ HandBack(c, m)

LEMMA StepKinds ==
  ASSUME TypeOK, HeldOK, [Next]_vars
  PROVE  \/ Quiet
         \/ \E m \in Models, k \in Caps : Add(m, k)
         \/ \E m \in Models : Drop(m)
         \/ \E c \in Callers : \E S \in SUBSET Models : TakesSlots(c, S)
         \/ \E c \in Callers, m \in Models : HandsBack(c, m)
<1> DEFINE Goal == \/ Quiet
                   \/ \E m \in Models, k \in Caps : Add(m, k)
                   \/ \E m \in Models : Drop(m)
                   \/ \E c \in Callers : \E S \in SUBSET Models : TakesSlots(c, S)
                   \/ \E c \in Callers, m \in Models : HandsBack(c, m)
<1>1. ASSUME NEW m \in Models, SetDisabled(m)
      PROVE  Quiet
  BY <1>1 DEF SetDisabled, Quiet, callVars, heldVars
<1>2. ASSUME NEW m \in Models, ClearDisabled(m)
      PROVE  Quiet
  BY <1>2 DEF ClearDisabled, NotifyAll, Wake, Quiet, heldVars, TypeOK
<1>3. ASSUME NEW b, ApplyBudgetBounds(b)
      PROVE  Quiet
  BY <1>3 DEF ApplyBudgetBounds, Quiet, callVars, heldVars
<1>4. ASSUME NEW m \in Models, CoolingElapses(m)
      PROVE  Quiet
  BY <1>4 DEF CoolingElapses, Wake, Quiet, heldVars, TypeOK
<1>5. ASSUME NEW m \in Models, BoundLapses(m)
      PROVE  Quiet
  BY <1>5 DEF BoundLapses, Quiet, callVars, heldVars
<1>6. ASSUME NEW c \in Callers, Tick(c)
      PROVE  Quiet
  BY <1>6 DEF Tick, Wake, Quiet, slotVars, heldVars, TypeOK
<1>7. ASSUME NEW c \in Callers, NEW W, NEW p, Enter(c, W, p)
      PROVE  Quiet
  BY <1>7 DEF Enter, Queue, Quiet, slotVars, heldVars, TypeOK
<1>8. ASSUME NEW c \in Callers, NEW W, Reenter(c, W)
      PROVE  Quiet
  BY <1>8 DEF Reenter, Queue, Quiet, slotVars, heldVars, TypeOK
<1>9. ASSUME NEW c \in Callers, NEW width, NEW recoveryWidth, Acquire(c, width, recoveryWidth)
      PROVE  \E S \in SUBSET Models : TakesSlots(c, S)
  <2>1. PICK S \in Selections(FreeAmong(want[c]), width, recoveryWidth, c) : Reserve(c, S)
    BY <1>9 DEF Acquire
  <2>2. S \subseteq {m \in members : IsFree(m)}
    BY SelectionWithin DEF FreeAmong, Candidates
  <2>3. held[c] = {}
    BY <1>9 DEF Acquire, HeldOK
  <2> QED
    BY <1>9, <2>1, <2>2, <2>3 DEF TakesSlots, Acquire, TypeOK
<1>10. ASSUME NEW c \in Callers, EndCall(c), UNCHANGED slotVars,
              phase[c] # "running" \/ held[c] = {}
       PROVE  Quiet
  BY <1>10 DEF EndCall, Quiet, slotVars, heldVars, TypeOK
<1>11. ASSUME NEW c \in Callers, Block(c)
       PROVE  Quiet
  BY <1>11 DEF Block, Quiet, slotVars, heldVars, TypeOK
<1>12. ASSUME NEW c \in Callers, NEW W \in SUBSET Models, NEW needed, TakeFree(c, W, needed)
       PROVE  \E S \in SUBSET Models : TakesSlots(c, S)
  <2>1. PICK S \in Selections(FreeAmong(W), needed, 1, c) : Reserve(c, S)
    BY <1>12 DEF TakeFree
  <2>2. S \subseteq {m \in members : IsFree(m)} /\ S \subseteq W
    BY SelectionWithin DEF FreeAmong, Candidates
  <2> QED
    BY <1>12, <2>1, <2>2 DEF TakesSlots, TakeFree, TypeOK
<1>13. ASSUME NEW c \in Callers, NEW m \in Models, Settle(c, m)
       PROVE  HandsBack(c, m)
  BY <1>13 DEF Settle, Release, FinishOk, CoolDown, HandsBack
<1>14. CASE UNCHANGED vars
  BY <1>14 DEF Quiet, vars, slotVars, callVars, heldVars
<1>15. ASSUME NEW c \in Callers, Call(c)
       PROVE  Goal
  <2>1. CASE \E W \in SUBSET Models, p \in Waits : Enter(c, W, p)
    BY <2>1, <1>7
  <2>2. CASE \E W \in SUBSET Models : Reenter(c, W)
    BY <2>2, <1>8
  <2>3. CASE Evaluate(c)
    BY <2>3, <1>9, <1>10, <1>11 DEF Evaluate, Exhausted, TimedOut
  <2>4. CASE CancelQueue(c)
    BY <2>4, <1>10 DEF CancelQueue
  <2>5. CASE \E W \in SUBSET Models, needed \in 1 .. Cardinality(Models) : TakeFree(c, W, needed)
    BY <2>5, <1>12
  <2>6. CASE \E m \in Models : Settle(c, m)
    BY <2>6, <1>13
  <2>7. CASE Leave(c)
    BY <2>7, <1>10 DEF Leave
  <2> QED
    BY <1>15, <2>1, <2>2, <2>3, <2>4, <2>5, <2>6, <2>7 DEF Call
<1> QED
  BY <1>1, <1>2, <1>3, <1>4, <1>5, <1>6, <1>14, <1>15 DEF Next, Admin, Clock

-----------------------------------------------------------------------------
(* Counting holders. *)

LEMMA HoldersFinite ==
  ASSUME NEW m \in Models
  PROVE  /\ IsFiniteSet(Holders(m))
         /\ IsFiniteSet(FreshHolders(m))
         /\ Cardinality(Holders(m)) \in Nat
         /\ Cardinality(FreshHolders(m)) \in Nat
<1>1. Holders(m) \subseteq Callers /\ FreshHolders(m) \subseteq Callers
  BY DEF Holders, FreshHolders
<1> QED
  BY <1>1, PoolAssumption, FS_Subset, FS_CardinalityType

(* A slot no rebuild drops is held by nobody as a departed one. *)
LEMMA LastingIsFresh ==
  ASSUME HeldOK, NEW m \in Models \ Volatile
  PROVE  FreshHolders(m) = Holders(m)
BY DEF HeldOK, FreshHolders, Holders

LEMMA TakingCounts ==
  ASSUME TypeOK, HeldOK, NEW c \in Callers, NEW S \in SUBSET Models, TakesSlots(c, S),
         NEW m \in S
  PROVE  /\ Cardinality(Holders(m)') = Cardinality(Holders(m)) + 1
         /\ Cardinality(FreshHolders(m)') = Cardinality(FreshHolders(m)) + 1
<1>1. c \notin Holders(m) /\ c \notin FreshHolders(m)
  BY DEF TakesSlots, Holders, FreshHolders
<1>2. Holders(m)' = Holders(m) \cup {c}
  BY DEF TakesSlots, Reserve, Holders, TypeOK
<1>3. FreshHolders(m)' = FreshHolders(m) \cup {c}
  BY DEF TakesSlots, Reserve, Holders, FreshHolders, TypeOK, HeldOK
<1> QED
  BY <1>1, <1>2, <1>3, HoldersFinite, FS_AddElement

LEMMA ReturningCounts ==
  ASSUME TypeOK, HeldOK, NEW c \in Callers, NEW m \in Models, HandsBack(c, m)
  PROVE  /\ Cardinality(Holders(m)') = Cardinality(Holders(m)) - 1
         /\ m \notin stale[c] =>
              Cardinality(FreshHolders(m)') = Cardinality(FreshHolders(m)) - 1
         /\ m \in stale[c] => FreshHolders(m)' = FreshHolders(m)
<1>1. Holders(m)' = Holders(m) \ {c} /\ c \in Holders(m)
  BY DEF HandsBack, HandBack, Holders, TypeOK
<1>2. FreshHolders(m)' = FreshHolders(m) \ {c}
  BY DEF HandsBack, HandBack, Holders, FreshHolders, TypeOK
<1>3. m \notin stale[c] <=> c \in FreshHolders(m)
  BY DEF HandsBack, Holders, FreshHolders
<1>4. Cardinality(Holders(m)') = Cardinality(Holders(m)) - 1
  BY <1>1, HoldersFinite, FS_RemoveElement
<1>5. c \in FreshHolders(m) =>
        Cardinality(FreshHolders(m)') = Cardinality(FreshHolders(m)) - 1
  BY <1>2, HoldersFinite, FS_RemoveElement
<1>6. c \notin FreshHolders(m) => FreshHolders(m)' = FreshHolders(m)
  BY <1>2
<1> QED
  BY <1>3, <1>4, <1>5, <1>6

-----------------------------------------------------------------------------
(* The inductive step, one kind of step after the other. *)

LEMMA InvInit == Init => IInv
<1> SUFFICES ASSUME Init
             PROVE  IInv
  OBVIOUS
<1>1. TypeOK
  BY TypeInit
<1>2. HeldOK
  BY DEF Init, HeldOK
<1>3. \A m \in Models : Holders(m) = {} /\ FreshHolders(m) = {}
  BY DEF Init, Holders, FreshHolders
<1>4. SlotsConserved
  <2>1. \A m \in Models : Cardinality(Holders(m)) = 0 /\ Cardinality(FreshHolders(m)) = 0
    BY <1>3, FS_EmptySet
  <2>2. \A m \in Models : inFlight[m] = 0
    BY DEF Init
  <2> QED
    BY <2>1, <2>2 DEF SlotsConserved
<1>5. WithinCap
  BY <1>1 DEF Init, WithinCap, TypeOK
<1>6. ClaimHasOwner
  BY DEF Init, ClaimHasOwner
<1> QED
  BY <1>1, <1>2, <1>4, <1>5, <1>6 DEF IInv

LEMMA QuietStep ==
  ASSUME IInv, TypeOK', Quiet
  PROVE  IInv'
<1>1. HeldOK'
  BY DEF IInv, HeldOK, Quiet
<1>2. \A m \in Models : Holders(m)' = Holders(m) /\ FreshHolders(m)' = FreshHolders(m)
  BY DEF Quiet, Holders, FreshHolders
<1>3. SlotsConserved'
  BY <1>2 DEF IInv, SlotsConserved, Quiet
<1>4. WithinCap' /\ ClaimHasOwner'
  BY DEF IInv, WithinCap, ClaimHasOwner, Quiet
<1> QED
  BY <1>1, <1>3, <1>4 DEF IInv

LEMMA AddStep ==
  ASSUME IInv, TypeOK', NEW n \in Models, NEW k \in Caps, Add(n, k)
  PROVE  IInv'
<1>1. HeldOK'
  BY DEF IInv, TypeOK, HeldOK, Add, NotifyAll, Wake, heldVars
<1>2. \A m \in Models : Holders(m)' = Holders(m) /\ FreshHolders(m)' = FreshHolders(m)
  BY DEF Add, heldVars, Holders, FreshHolders
<1>3. SlotsConserved'
  BY <1>2 DEF IInv, SlotsConserved, Add
<1>4. WithinCap'
  BY DEF IInv, TypeOK, WithinCap, Add
<1>5. ClaimHasOwner'
  BY DEF IInv, ClaimHasOwner, Add, heldVars
<1> QED
  BY <1>1, <1>3, <1>4, <1>5 DEF IInv

LEMMA DropStep ==
  ASSUME IInv, TypeOK', NEW n \in Models, Drop(n)
  PROVE  IInv'
<1>1. HeldOK'
  BY DEF IInv, TypeOK, HeldOK, Drop, NotifyAll, Wake
<1>2. \A m \in Models : Holders(m)' = Holders(m)
  BY DEF Drop, Holders
<1>3. \A m \in Models \ {n} : FreshHolders(m)' = FreshHolders(m)
  BY <1>2 DEF Drop, FreshHolders, Holders
<1>4. FreshHolders(n)' = {}
  BY DEF Drop, FreshHolders, Holders
<1>5. SlotsConserved'
  <2>1. \A m \in Models : inFlight'[m] = IF m = n THEN 0 ELSE inFlight[m]
    BY DEF Drop, IInv, TypeOK
  <2>2. n \in Volatile
    BY DEF Drop
  <2>3. Cardinality(FreshHolders(n)') = 0
    BY <1>4, FS_EmptySet
  <2>4. \A m \in Models : inFlight'[m] <= Cardinality(FreshHolders(m)')
    BY <1>3, <2>1, <2>3 DEF IInv, SlotsConserved
  <2>5. \A m \in Models \ Volatile : inFlight'[m] = Cardinality(Holders(m)')
    BY <1>2, <2>1, <2>2 DEF IInv, SlotsConserved
  <2> QED
    BY <2>4, <2>5 DEF SlotsConserved
<1>6. WithinCap'
  BY DEF IInv, TypeOK, WithinCap, Drop
<1>7. ClaimHasOwner'
  BY DEF IInv, ClaimHasOwner, Drop
<1> QED
  BY <1>1, <1>5, <1>6, <1>7 DEF IInv

LEMMA TakeStep ==
  ASSUME IInv, TypeOK', NEW c \in Callers, NEW S \in SUBSET Models, TakesSlots(c, S)
  PROVE  IInv'
<1> USE DEF IInv
<1>1. HeldOK'
  BY DEF TypeOK, HeldOK, TakesSlots, Reserve
<1>2. \A m \in Models : inFlight'[m] = IF m \in S THEN inFlight[m] + 1 ELSE inFlight[m]
  BY DEF TakesSlots, Reserve
<1>3. \A m \in Models \ S : Holders(m)' = Holders(m) /\ FreshHolders(m)' = FreshHolders(m)
  BY DEF TakesSlots, Reserve, Holders, FreshHolders, TypeOK
<1>4. SlotsConserved'
  <2>1. ASSUME NEW m \in Models
        PROVE  inFlight'[m] <= Cardinality(FreshHolders(m)')
    <3>1. inFlight[m] <= Cardinality(FreshHolders(m)) /\ inFlight[m] \in Nat
      BY DEF SlotsConserved, TypeOK
    <3>2. CASE m \in S
      BY <1>2, <3>1, <3>2, TakingCounts, HoldersFinite
    <3>3. CASE m \notin S
      BY <1>2, <1>3, <3>1, <3>3
    <3> QED
      BY <3>2, <3>3
  <2>2. ASSUME NEW m \in Models \ Volatile
        PROVE  inFlight'[m] = Cardinality(Holders(m)')
    BY <1>2, <1>3, TakingCounts DEF SlotsConserved
  <2> QED
    BY <2>1, <2>2 DEF SlotsConserved
<1>5. WithinCap'
  BY <1>2 DEF WithinCap, TakesSlots, Reserve, IsFree, TypeOK
<1>6. ClaimHasOwner'
  BY DEF ClaimHasOwner, TakesSlots, Reserve, TypeOK
<1> QED
  BY <1>1, <1>4, <1>5, <1>6

LEMMA ReturnStep ==
  ASSUME IInv, TypeOK', NEW c \in Callers, NEW n \in Models, HandsBack(c, n)
  PROVE  IInv'
<1> USE DEF IInv
<1>1. HeldOK'
  BY DEF TypeOK, HeldOK, HandsBack, HandBack, NotifyAll, Wake
<1>2. \A m \in Models : inFlight'[m] = IF m = n THEN CountAfter(n) ELSE inFlight[m]
  BY DEF HandsBack, HandBack, TypeOK
<1>3. \A m \in Models \ {n} : Holders(m)' = Holders(m) /\ FreshHolders(m)' = FreshHolders(m)
  BY DEF HandsBack, HandBack, Holders, FreshHolders, TypeOK
<1>4. n \in stale[c] \/ n \in members
  BY DEF HandsBack, HeldOK
<1>5. CountAfter(n) <= Cardinality(FreshHolders(n)')
  <2>1. CASE n \in stale[c]
    BY <2>1, ReturningCounts, HoldersFinite DEF SlotsConserved, CountAfter, TypeOK
  <2>2. CASE n \notin stale[c]
    <3>1. c \in FreshHolders(n)
      BY <2>2 DEF HandsBack, FreshHolders, Holders
    <3>2. Cardinality(FreshHolders(n)) > 0
      BY <3>1, HoldersFinite, FS_EmptySet
    <3> QED
      BY <1>4, <2>2, <3>2, ReturningCounts, HoldersFinite
         DEF SlotsConserved, CountAfter, TypeOK
  <2> QED
    BY <2>1, <2>2
<1>6. n \notin Volatile => CountAfter(n) = Cardinality(Holders(n)')
  <2> SUFFICES ASSUME n \notin Volatile
               PROVE  CountAfter(n) = Cardinality(Holders(n)')
    OBVIOUS
  <2>1. n \in members
    BY <1>4 DEF HeldOK
  <2>2. Cardinality(Holders(n)) > 0
    <3>1. c \in Holders(n)
      BY DEF HandsBack, Holders
    <3> QED
      BY <3>1, HoldersFinite, FS_EmptySet
  <2> QED
    BY <2>1, <2>2, ReturningCounts DEF SlotsConserved, CountAfter
<1>7. SlotsConserved'
  BY <1>2, <1>3, <1>5, <1>6 DEF SlotsConserved
<1>8. WithinCap'
  <2>1. CountAfter(n) <= inFlight[n]
    BY DEF CountAfter, TypeOK
  <2>2. cap' = cap
    BY DEF HandsBack, HandBack
  <2> SUFFICES ASSUME NEW m \in Models \ Volatile
               PROVE  inFlight'[m] <= cap[m]
    BY <2>2 DEF WithinCap
  <2>3. inFlight[m] <= cap[m] /\ inFlight[m] \in Nat /\ cap[m] \in Nat
    BY DEF WithinCap, TypeOK
  <2> QED
    BY <1>2, <2>1, <2>3, CountAfterIsNat
<1>9. ClaimHasOwner'
  BY DEF ClaimHasOwner, HandsBack, HandBack, ClaimsAfter, TypeOK
<1> QED
  BY <1>1, <1>7, <1>8, <1>9

LEMMA InvStep == IInv /\ [Next]_vars => IInv'
<1> SUFFICES ASSUME IInv, [Next]_vars
             PROVE  IInv'
  OBVIOUS
<1>1. TypeOK'
  BY TypeStep DEF IInv
<1> QED
  BY <1>1, StepKinds, QuietStep, AddStep, DropStep, TakeStep, ReturnStep DEF IInv

(* The inductive invariant: the types, what a call may hold, the count of   *)
(* every slot and the owner of every claim, all together.                   *)
THEOREM Invariant == Spec => []IInv
BY InvInit, InvStep, PTL DEF Spec

(* However the pool is driven, no slot is lost and none is counted twice:   *)
(* a lasting entry's in_flight is exactly the number of calls holding it,   *)
(* and no departed attempt shrinks the capacity of an entry added again.    *)
THEOREM SlotsAreConserved == Spec => []SlotsConserved
BY Invariant, PTL DEF IInv

(* No lasting entry ever runs more attempts than its `parallel`. *)
THEOREM CapacityRespected == Spec => []CapRespected
<1>1. IInv => CapRespected
  BY DEF IInv, SlotsConserved, WithinCap, CapRespected
<1> QED
  BY <1>1, Invariant, PTL

(* No recovery claim outlives the attempts that may give it up. *)
THEOREM ClaimsAreOwned == Spec => []ClaimHasOwner
BY Invariant, PTL DEF IInv

-----------------------------------------------------------------------------
(* Every blocked call has something that will wake it. *)

(* A step that starts no wait and takes no waker away keeps the property. *)
LEMMA WaitsKept ==
  ASSUME EveryWaitHasAWaker, members' = members, disabled \subseteq disabled',
         \A c \in Callers : held[c] \subseteq held'[c],
         \A c \in Callers : phase'[c] = "blocked" =>
           /\ phase[c] = "blocked"
           /\ want'[c] = want[c]
           /\ timer'[c] = timer[c]
           /\ cooling \cap timer[c] \subseteq cooling'
  PROVE  EveryWaitHasAWaker'
<1> SUFFICES ASSUME NEW c \in Callers, phase'[c] = "blocked",
                    NEW m \in Candidates(want[c])'
             PROVE  m \in cooling' \cap timer'[c] \/ Holders(m)' # {}
  BY DEF EveryWaitHasAWaker
<1>1. phase[c] = "blocked" /\ m \in Candidates(want[c])
  BY DEF Candidates
<1>2. m \in cooling \cap timer[c] \/ Holders(m) # {}
  BY <1>1 DEF EveryWaitHasAWaker
<1>3. Holders(m) \subseteq Holders(m)'
  BY DEF Holders
<1> QED
  BY <1>2, <1>3

LEMMA NotifiedStep ==
  ASSUME NotifyAll, TypeOK
  PROVE  EveryWaitHasAWaker'
BY DEF NotifyAll, Wake, EveryWaitHasAWaker, TypeOK

(* A candidate that is not free is cooling below its cap, or it is held. *)
LEMMA BusyHasAHolder ==
  ASSUME IInv, NEW m \in members, ~IsFree(m), ~(m \in cooling /\ inFlight[m] < cap[m])
  PROVE  Holders(m) # {}
<1> USE DEF IInv
<1>1. m \in Models
  BY DEF TypeOK
<1>2. CASE m \in claimed
  BY <1>2 DEF ClaimHasOwner, HeldOK, Holders
<1>3. CASE ~(inFlight[m] < cap[m])
  <2>1. inFlight[m] <= Cardinality(FreshHolders(m)) /\ inFlight[m] \in Nat /\ cap[m] \in Nat \ {0}
    BY <1>1 DEF SlotsConserved, TypeOK
  <2>2. Cardinality(FreshHolders(m)) # 0
    BY <1>1, <1>3, <2>1, HoldersFinite
  <2>3. FreshHolders(m) # {}
    BY <2>2, FS_EmptySet
  <2> QED
    BY <2>3 DEF FreshHolders
<1> QED
  BY <1>2, <1>3 DEF IsFree

LEMMA BlockStep ==
  ASSUME IInv, EveryWaitHasAWaker, NEW c \in Callers, Block(c)
  PROVE  EveryWaitHasAWaker'
<1> SUFFICES ASSUME NEW d \in Callers, phase'[d] = "blocked",
                    NEW m \in Candidates(want[d])'
             PROVE  m \in cooling' \cap timer'[d] \/ Holders(m)' # {}
  BY DEF EveryWaitHasAWaker
<1>1. /\ m \in Candidates(want[d])
      /\ Holders(m)' = Holders(m)
      /\ cooling' = cooling
  BY DEF Block, Candidates, slotVars, heldVars, Holders
<1>2. CASE d = c
  <2>1. m \in members /\ ~IsFree(m)
    BY <1>1, <1>2 DEF Block, FreeAmong, Candidates
  <2>2. timer'[c] = Timed(c)
    BY DEF Block, IInv, TypeOK
  <2>3. CASE m \in cooling /\ inFlight[m] < cap[m]
    BY <1>1, <1>2, <2>2, <2>3 DEF Timed
  <2>4. CASE ~(m \in cooling /\ inFlight[m] < cap[m])
    BY <1>1, <2>1, <2>4, BusyHasAHolder
  <2> QED
    BY <2>3, <2>4
<1>3. CASE d # c
  <2>1. phase[d] = "blocked" /\ timer'[d] = timer[d]
    BY <1>3 DEF Block, IInv, TypeOK
  <2> QED
    BY <1>1, <2>1 DEF EveryWaitHasAWaker
<1> QED
  BY <1>2, <1>3

LEMMA WakerStep ==
  ASSUME IInv, EveryWaitHasAWaker, [Next]_vars
  PROVE  EveryWaitHasAWaker'
<1> USE DEF IInv
<1>1. ASSUME NEW m \in Models, NEW k \in Caps, Add(m, k)
      PROVE  EveryWaitHasAWaker'
  BY <1>1, NotifiedStep DEF Add
<1>2. ASSUME NEW m \in Models, Drop(m)
      PROVE  EveryWaitHasAWaker'
  BY <1>2, NotifiedStep DEF Drop
<1>3. ASSUME NEW m \in Models, ClearDisabled(m)
      PROVE  EveryWaitHasAWaker'
  BY <1>3, NotifiedStep DEF ClearDisabled
<1>4. ASSUME NEW m \in Models, SetDisabled(m)
      PROVE  EveryWaitHasAWaker'
  BY <1>4, WaitsKept DEF SetDisabled, callVars, heldVars
<1>5. ASSUME NEW b, ApplyBudgetBounds(b)
      PROVE  EveryWaitHasAWaker'
  BY <1>5, WaitsKept DEF ApplyBudgetBounds, callVars, heldVars
<1>6. ASSUME NEW m \in Models, CoolingElapses(m)
      PROVE  EveryWaitHasAWaker'
  <2>1. ASSUME NEW c \in Callers, phase'[c] = "blocked"
        PROVE  /\ phase[c] = "blocked"
               /\ timer'[c] = timer[c]
               /\ m \notin timer[c]
    BY <1>6, <2>1 DEF CoolingElapses, Wake, TypeOK
  <2> QED
    BY <1>6, <2>1, WaitsKept DEF CoolingElapses, heldVars
<1>7. ASSUME NEW m \in Models, BoundLapses(m)
      PROVE  EveryWaitHasAWaker'
  BY <1>7, WaitsKept DEF BoundLapses, callVars, heldVars
<1>8. ASSUME NEW c \in Callers, Tick(c)
      PROVE  EveryWaitHasAWaker'
  <2>1. ASSUME NEW d \in Callers, phase'[d] = "blocked"
        PROVE  phase[d] = "blocked" /\ timer'[d] = timer[d]
    BY <1>8, <2>1 DEF Tick, Wake, TypeOK
  <2> QED
    BY <1>8, <2>1, WaitsKept DEF Tick, slotVars, heldVars
<1>9. ASSUME NEW c \in Callers, NEW W, Queue(c, W)
      PROVE  EveryWaitHasAWaker'
  <2>1. ASSUME NEW d \in Callers, phase'[d] = "blocked"
        PROVE  phase[d] = "blocked" /\ want'[d] = want[d]
    BY <1>9, <2>1 DEF Queue, TypeOK
  <2> QED
    BY <1>9, <2>1, WaitsKept DEF Queue, slotVars, heldVars
<1>10. ASSUME NEW c \in Callers, NEW width, NEW recoveryWidth, Acquire(c, width, recoveryWidth)
       PROVE  EveryWaitHasAWaker'
  <2>1. PICK S : Reserve(c, S)
    BY <1>10 DEF Acquire
  <2>2. ASSUME NEW d \in Callers, phase'[d] = "blocked"
        PROVE  phase[d] = "blocked" /\ want'[d] = want[d]
    BY <1>10, <2>2 DEF Acquire, TypeOK
  <2> QED
    BY <1>10, <2>1, <2>2, WaitsKept DEF Acquire, Reserve, TypeOK
<1>11. ASSUME NEW c \in Callers, EndCall(c), UNCHANGED slotVars
       PROVE  EveryWaitHasAWaker'
  <2>1. ASSUME NEW d \in Callers, phase'[d] = "blocked"
        PROVE  phase[d] = "blocked" /\ want'[d] = want[d] /\ timer'[d] = timer[d]
    BY <1>11, <2>1 DEF EndCall, TypeOK
  <2> QED
    BY <1>11, <2>1, WaitsKept DEF EndCall, slotVars, heldVars
<1>12. ASSUME NEW c \in Callers, NEW W, NEW needed, TakeFree(c, W, needed)
       PROVE  EveryWaitHasAWaker'
  <2>1. PICK S : Reserve(c, S)
    BY <1>12 DEF TakeFree
  <2> QED
    BY <1>12, <2>1, WaitsKept DEF TakeFree, Reserve, TypeOK
<1>13. ASSUME NEW c \in Callers, NEW m \in Models, Settle(c, m)
       PROVE  EveryWaitHasAWaker'
  BY <1>13, NotifiedStep DEF Settle, Release, FinishOk, CoolDown, HandBack
<1>14. CASE UNCHANGED vars
  BY <1>14, WaitsKept DEF vars, slotVars, callVars, heldVars
<1>15. ASSUME NEW c \in Callers, Call(c)
       PROVE  EveryWaitHasAWaker'
  BY <1>9, <1>10, <1>11, <1>12, <1>13, <1>15, BlockStep
     DEF Call, Enter, Reenter, Evaluate, Exhausted, TimedOut, CancelQueue, Leave
<1> QED
  BY <1>1, <1>2, <1>3, <1>4, <1>5, <1>6, <1>7, <1>8, <1>14, <1>15 DEF Next, Admin, Clock

(* A blocked call is never stranded: each model it could use has a cooldown *)
(* timer armed for that call or a holder whose hand-back notifies it.       *)
THEOREM EveryWaiterHasAWaker == Spec => []EveryWaitHasAWaker
<1>1. Init => EveryWaitHasAWaker
  BY DEF Init, EveryWaitHasAWaker
<1> QED
  BY <1>1, Invariant, WakerStep, PTL DEF Spec

-----------------------------------------------------------------------------
(* Seen from outside, the lasting entries are counting semaphores. *)

LEMMA SemaphoresInit == Init => Semaphores!Init
<1> SUFFICES ASSUME Init
             PROVE  Semaphores!Init
  OBVIOUS
<1>1. \A m \in Lasting : cap[m] \in Nat \ {0}
  BY TypeInit DEF TypeOK, Lasting
<1>2. \A c \in Callers : held[c] \ Volatile = {}
  BY DEF Init
<1> QED
  BY <1>1, <1>2 DEF Semaphores!Init

(* The instance counts with FiniteSets as this module does. *)
LEMMA SameCardinality == \A S : Semaphores!Cardinality(S) = Cardinality(S)
BY DEF Semaphores!Cardinality, Cardinality

LEMMA SemaphoresStep ==
  ASSUME IInv, [Next]_vars
  PROVE  [Semaphores!Next]_(Semaphores!vars)
<1> DEFINE Limit == [m \in Lasting |-> cap[m]]
           Holding == [c \in Callers |-> held[c] \ Volatile]
<1> USE DEF IInv
<1>1. ASSUME Limit' = Limit, Holding' = Holding
      PROVE  UNCHANGED Semaphores!vars
  BY <1>1 DEF Semaphores!vars
<1>2. CASE Quiet
  BY <1>1, <1>2 DEF Quiet
<1>3. ASSUME NEW m \in Models, NEW k \in Caps, Add(m, k)
      PROVE  UNCHANGED Semaphores!vars
  <2>1. Limit' = Limit
    BY <1>3 DEF Add, Lasting, TypeOK
  <2> QED
    BY <1>1, <1>3, <2>1 DEF Add, heldVars
<1>4. ASSUME NEW m \in Models, Drop(m)
      PROVE  UNCHANGED Semaphores!vars
  BY <1>1, <1>4 DEF Drop
<1>5. ASSUME NEW c \in Callers, NEW S \in SUBSET Models, TakesSlots(c, S)
      PROVE  [Semaphores!Next]_(Semaphores!vars)
  <2> DEFINE T == S \ Volatile
  <2>1. Limit' = Limit
    BY <1>5 DEF TakesSlots, Reserve
  <2>2. Holding' = [Holding EXCEPT ![c] = @ \cup T]
    BY <1>5 DEF TakesSlots, Reserve, TypeOK
  <2>3. CASE T = {}
    BY <1>1, <2>1, <2>2, <2>3
  <2>4. CASE T # {}
    <3>1. T \in SUBSET Lasting /\ T \cap Holding[c] = {}
      BY <1>5 DEF TakesSlots, Lasting
    <3>2. ASSUME NEW m \in T
          PROVE  Cardinality(Semaphores!Takers(m)) < Limit[m]
      <4>1. m \in Lasting /\ m \in Models \ Volatile
        BY <3>1 DEF Lasting
      <4>2. Semaphores!Takers(m) = Holders(m)
        BY <4>1 DEF Semaphores!Takers, Holders
      <4>3. inFlight[m] < cap[m]
        BY <1>5 DEF TakesSlots, IsFree
      <4> QED
        BY <4>1, <4>2, <4>3 DEF SlotsConserved
    <3>3. Semaphores!Take(c, T)
      BY <2>1, <2>2, <2>4, <3>1, <3>2, SameCardinality DEF Semaphores!Take
    <3> QED
      BY <3>1, <3>3 DEF Semaphores!Next
  <2> QED
    BY <2>3, <2>4
<1>6. ASSUME NEW c \in Callers, NEW m \in Models, HandsBack(c, m)
      PROVE  [Semaphores!Next]_(Semaphores!vars)
  <2>1. Limit' = Limit
    BY <1>6 DEF HandsBack, HandBack
  <2>2. Holding' = [Holding EXCEPT ![c] = @ \ {m}]
    BY <1>6 DEF HandsBack, HandBack, TypeOK
  <2>3. CASE m \in Volatile
    <3>1. Holding' = Holding
      BY <2>2, <2>3
    <3> QED
      BY <1>1, <2>1, <3>1
  <2>4. CASE m \notin Volatile
    <3>1. m \in Lasting /\ m \in Holding[c]
      BY <1>6, <2>4 DEF HandsBack, Lasting
    <3>2. Semaphores!Give(c, m)
      BY <2>1, <2>2, <3>1 DEF Semaphores!Give
    <3> QED
      BY <3>1, <3>2 DEF Semaphores!Next
  <2> QED
    BY <2>3, <2>4
<1> QED
  BY <1>2, <1>3, <1>4, <1>5, <1>6, StepKinds

(* The pool implements the abstract specification: whatever it decides from *)
(* cooldowns, claims, latches and budgets, the calls see one counting       *)
(* semaphore per lasting entry.                                             *)
THEOREM PoolImplementsSemaphores == Spec => ImplementsSemaphores
BY SemaphoresInit, SemaphoresStep, Invariant, PTL
   DEF Spec, ImplementsSemaphores, Semaphores!Spec
==============================================================================
