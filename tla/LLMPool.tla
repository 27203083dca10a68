------------------------------- MODULE LLMPool -------------------------------
(***************************************************************************)
(* The pool of LLM slots (src/llmbroker/broker/pool.py) under the most     *)
(* general use its one client, the router, makes of it.                    *)
(*                                                                         *)
(* Every operation of the pool runs under one asyncio condition and never  *)
(* yields inside it, so each is one step here.  The only suspension point  *)
(* is the wait of acquire_many: a call is "queued" when it is about to     *)
(* evaluate the pool and "blocked" while it sits in that wait.             *)
(*                                                                         *)
(* Time is abstract.  A cooldown is either running or over (CoolingElapses *)
(* ends it), a caller's wait is a small number of units that Tick spends,  *)
(* and one unit is the slack pool.py grants a budget bound.                *)
(***************************************************************************)
EXTENDS Integers, FiniteSets

CONSTANTS
  Models,     \* the LLM names the pool may hold
  Callers,    \* the routed calls
  Volatile,   \* the models a rebuild may drop or give another capacity
  Caps,       \* the values of `parallel` the configs carry
  Widths,     \* the lane counts the calls ask for (fastest_of)
  MaxBudget   \* the longest wait a caller gives, in units

ASSUME PoolAssumption ==
  /\ IsFiniteSet(Callers)
  /\ IsFiniteSet(Models)
  /\ Volatile \subseteq Models
  /\ Caps \subseteq Nat \ {0}
  /\ Widths \subseteq Nat \ {0}
  /\ 1 \in Widths
  /\ MaxBudget \in Nat

VARIABLES
  members,    \* the names with a slot
  cap,        \* config.parallel
  inFlight,   \* the slot's count of running attempts
  cooling,    \* the slots whose cooldown_until lies ahead
  disabled,   \* the slots under the manual latch
  due,        \* recovery_due
  claimed,    \* recovery_claimed
  bound,      \* the budget a model recently missed, 0 where none is held
  phase,      \* where each call stands
  want,       \* what the call filters on: payable, eligible, not excluded
  patience,   \* the units left of its wait
  timer,      \* the cooldowns whose expiry wakes the blocked call
  held,       \* the slots the call holds; what the code's lanes carry
  recovering, \* history: the held slots that were taken as a recovery
  stale       \* history: the held slots that were dropped since

slotVars == <<members, cap, inFlight, cooling, disabled, due, claimed, bound>>
heldVars == <<held, recovering, stale>>
callVars == <<phase, want, patience, timer, heldVars>>
vars == <<slotVars, callVars>>

Forever == -1   \* wait=None: no deadline at all
NoQueue == -2   \* wait=0: no queueing, and no answer deadline either

(* The calls running on the slot as it stands now, and on any of its past. *)
Holders(m) == {c \in Callers : m \in held[c]}
FreshHolders(m) == {c \in Holders(m) : m \notin stale[c]}

-----------------------------------------------------------------------------
(* Selection. *)

(* A manual verdict, an unpayable key or an exclusion removes a slot. *)
Candidates(W) == (members \cap W) \ disabled

(* Fault: the capacity may be exceeded by one. *)
IsFreeAtCap(m) == m \notin claimed /\ inFlight[m] <= cap[m] /\ m \notin cooling

IsFree(m) ==
  /\ m \notin claimed
  /\ inFlight[m] < cap[m]
  /\ m \notin cooling

FreeAmong(W) == {m \in Candidates(W) : IsFree(m)}

(* bound + slack exceeds what is left of the answer budget, where there is  *)
(* one: neither wait=None nor wait=0 sets an answer deadline.               *)
OverBudget(c, m) == /\ bound[m] # 0
                    /\ patience[c] >= 0
                    /\ patience[c] <= bound[m]

DeadlinePassed(c) == patience[c] \in {NoQueue, 0}

(* The n best of F.  Only the leading key of _rank is kept: below it the    *)
(* weight, the ratings and the order may put any two models either way.     *)
BestOf(F, n, c) ==
  {S \in SUBSET F :
     /\ Cardinality(S) = IF n < Cardinality(F) THEN n ELSE Cardinality(F)
     /\ \A x \in S, y \in F \ S : OverBudget(c, x) => OverBudget(c, y)}

(* What runs beside a recovery: ordinary entries before other recoveries. *)
Cover(F, n, c) ==
  LET ordinary == F \ due
      lacking  == n - Cardinality(ordinary)
  IN  IF n <= 0 THEN {{}}
      ELSE IF lacking <= 0 THEN BestOf(ordinary, n, c)
      ELSE {ordinary \cup S : S \in BestOf(F \cap due, lacking, c)}

(* The sets _reserve may take out of F: the best `width`, and where the     *)
(* very best is a recovery, the cover that widens it to `recoveryWidth`.    *)
Selections(F, width, recoveryWidth, c) ==
  UNION {LET firsts == {x \in best : \A y \in F : OverBudget(c, x) => OverBudget(c, y)}
             plain  == IF firsts \ due # {} THEN {best} ELSE {}
             wider  == IF firsts \cap due = {} THEN {}
                       ELSE {best \cup extra :
                               extra \in Cover(F \ best, recoveryWidth - width, c)}
         IN  plain \cup wider : best \in BestOf(F, width, c)}

(* Marks the slots before the condition is released. *)
Reserve(c, S) ==
  /\ inFlight' = [m \in Models |-> IF m \in S THEN inFlight[m] + 1 ELSE inFlight[m]]
  /\ claimed' = (claimed \ S) \cup (S \cap due)
  /\ held' = [held EXCEPT ![c] = @ \cup S]
  /\ recovering' = [recovering EXCEPT ![c] = @ \cup (S \cap due)]
  /\ UNCHANGED <<members, cap, cooling, disabled, due, bound, stale>>

(* The blocked calls of C leave their wait and re-evaluate the pool. *)
Wake(C) ==
  /\ phase' = [c \in Callers |-> IF c \in C /\ phase[c] = "blocked" THEN "queued" ELSE phase[c]]
  /\ timer' = [c \in Callers |-> IF c \in C THEN {} ELSE timer[c]]

NotifyAll == Wake(Callers)

(* The call is over, with a result or an error: its own state is gone. *)
EndCall(c) ==
  /\ phase' = [phase EXCEPT ![c] = "idle"]
  /\ want' = [want EXCEPT ![c] = {}]
  /\ patience' = [patience EXCEPT ![c] = Forever]
  /\ timer' = [timer EXCEPT ![c] = {}]
  /\ UNCHANGED heldVars

-----------------------------------------------------------------------------
(* Membership and the manual latch, driven by the catalog and the admin. *)

Add(m, k) ==
  /\ k \in Caps
  /\ k = cap[m] \/ m \in Volatile
  /\ members' = members \cup {m}
  /\ cap' = [cap EXCEPT ![m] = k]
  /\ NotifyAll
  /\ UNCHANGED <<inFlight, cooling, disabled, due, claimed, bound>>
  /\ UNCHANGED <<want, patience, heldVars>>

(* Fault: a slot added again inherits the count of the one dropped. *)
DropKeepingCount(m) ==
  /\ m \in Volatile
  /\ members' = members \ {m}
  /\ cooling' = cooling \ {m}
  /\ disabled' = disabled \ {m}
  /\ due' = due \ {m}
  /\ claimed' = claimed \ {m}
  /\ bound' = [bound EXCEPT ![m] = 0]
  /\ stale' = [c \in Callers |-> stale[c] \cup ({m} \cap held[c])]
  /\ NotifyAll
  /\ UNCHANGED <<cap, inFlight, want, patience, held, recovering>>

(* The slot goes with all its live state: a later Add starts clean. *)
Drop(m) ==
  /\ m \in Volatile
  /\ members' = members \ {m}
  /\ inFlight' = [inFlight EXCEPT ![m] = 0]
  /\ cooling' = cooling \ {m}
  /\ disabled' = disabled \ {m}
  /\ due' = due \ {m}
  /\ claimed' = claimed \ {m}
  /\ bound' = [bound EXCEPT ![m] = 0]
  /\ stale' = [c \in Callers |-> stale[c] \cup ({m} \cap held[c])]
  /\ NotifyAll
  /\ UNCHANGED <<cap, want, patience, held, recovering>>

(* Synchronous, and the one withdrawal that notifies nobody. *)
SetDisabled(m) ==
  /\ m \in members
  /\ disabled' = disabled \cup {m}
  /\ UNCHANGED <<members, cap, inFlight, cooling, due, claimed, bound>>
  /\ UNCHANGED callVars

(* Fault: lifting the latch tells nobody, as setting it does. *)
ClearDisabledQuietly(m) ==
  /\ disabled' = disabled \ {m}
  /\ UNCHANGED <<members, cap, inFlight, cooling, due, claimed, bound>>
  /\ UNCHANGED callVars

ClearDisabled(m) ==
  /\ disabled' = disabled \ {m}
  /\ NotifyAll
  /\ UNCHANGED <<members, cap, inFlight, cooling, due, claimed, bound>>
  /\ UNCHANGED <<want, patience, heldVars>>

(* A rebuild replaces every bound by what the journal shows. *)
ApplyBudgetBounds(b) ==
  /\ bound' = b
  /\ UNCHANGED <<members, cap, inFlight, cooling, disabled, due, claimed>>
  /\ UNCHANGED callVars

-----------------------------------------------------------------------------
(* The clock. *)

(* The cooldown runs out; a wait that scheduled this expiry ends with it. *)
CoolingElapses(m) ==
  /\ m \in cooling
  /\ cooling' = cooling \ {m}
  /\ Wake({c \in Callers : m \in timer[c]})
  /\ UNCHANGED <<members, cap, inFlight, disabled, due, claimed, bound>>
  /\ UNCHANGED <<want, patience, heldVars>>

BoundLapses(m) ==
  /\ bound[m] # 0
  /\ bound' = [bound EXCEPT ![m] = 0]
  /\ UNCHANGED <<members, cap, inFlight, cooling, disabled, due, claimed>>
  /\ UNCHANGED callVars

(* A unit of the call's wait passes; the deadline is in every wake timeout. *)
Tick(c) ==
  /\ patience[c] > 0
  /\ phase[c] \in {"queued", "blocked", "running"}
  /\ patience' = [patience EXCEPT ![c] = @ - 1]
  /\ Wake(IF patience[c] = 1 THEN {c} ELSE {})
  /\ UNCHANGED slotVars
  /\ UNCHANGED <<want, heldVars>>

-----------------------------------------------------------------------------
(* The queue of acquire_many. *)

Queue(c, W) ==
  /\ phase' = [phase EXCEPT ![c] = "queued"]
  /\ want' = [want EXCEPT ![c] = W]
  /\ UNCHANGED slotVars
  /\ UNCHANGED <<timer, heldVars>>

(* A call reaches acquire_many with its filter and its wait. *)
Enter(c, W, p) ==
  /\ phase[c] = "idle"
  /\ patience' = [patience EXCEPT ![c] = p]
  /\ Queue(c, W)

(* The next failover round of a call, every slot of the last handed back. *)
Reenter(c, W) ==
  /\ phase[c] = "running"
  /\ held[c] = {}
  /\ Queue(c, W)
  /\ UNCHANGED patience

Acquire(c, width, recoveryWidth) ==
  /\ phase[c] = "queued"
  /\ FreeAmong(want[c]) # {}
  /\ \E S \in Selections(FreeAmong(want[c]), width, recoveryWidth, c) : Reserve(c, S)
  /\ phase' = [phase EXCEPT ![c] = "running"]
  /\ want' = [want EXCEPT ![c] = {}]
  /\ UNCHANGED <<patience, timer>>

(* NoLLMAvailableError: nothing there to wait for. *)
Exhausted(c) ==
  /\ phase[c] = "queued"
  /\ Candidates(want[c]) = {}
  /\ EndCall(c)
  /\ UNCHANGED slotVars

(* NoLLMAvailableError: "timeout", judged only after a reservation failed. *)
TimedOut(c) ==
  /\ phase[c] = "queued"
  /\ Candidates(want[c]) # {}
  /\ FreeAmong(want[c]) = {}
  /\ DeadlinePassed(c)
  /\ EndCall(c)
  /\ UNCHANGED slotVars

(* Fault: no timer for a slot whose next attempt is a recovery. *)
TimedButRecovering(c) == {m \in Candidates(want[c]) \ due : m \in cooling}

(* _wake_timeout skips a slot at its cap: only a release can free it. *)
Timed(c) == {m \in Candidates(want[c]) : m \in cooling /\ inFlight[m] < cap[m]}

Block(c) ==
  /\ phase[c] = "queued"
  /\ Candidates(want[c]) # {}
  /\ FreeAmong(want[c]) = {}
  /\ ~DeadlinePassed(c)
  /\ phase' = [phase EXCEPT ![c] = "blocked"]
  /\ timer' = [timer EXCEPT ![c] = Timed(c)]
  /\ UNCHANGED slotVars
  /\ UNCHANGED <<want, patience, heldVars>>

(* The caller is cancelled while it queues: it holds nothing. *)
CancelQueue(c) ==
  /\ phase[c] \in {"queued", "blocked"}
  /\ EndCall(c)
  /\ UNCHANGED slotVars

(* take_free: whatever is free this instant, for a race that lost a lane.   *)
(* Its recovery width is 1, so nothing ever covers what it takes.           *)
TakeFree(c, W, needed) ==
  /\ phase[c] = "running"
  /\ W \cap held[c] = {}
  /\ FreeAmong(W) # {}
  /\ \E S \in Selections(FreeAmong(W), needed, 1, c) : Reserve(c, S)
  /\ UNCHANGED <<phase, want, patience, timer>>

-----------------------------------------------------------------------------
(* Settlement of one attempt.  The slot is found by name; where it is gone  *)
(* the operation only notifies.                                             *)

CountAfter(m) == IF m \in members /\ inFlight[m] > 0 THEN inFlight[m] - 1 ELSE inFlight[m]

(* Fault: the claim stands for as long as the recovery is due. *)
ClaimsKept(m) == claimed \ ({m} \ due)

ClaimsAfter(m) == claimed \ {m}

HandBack(c, m) ==
  /\ inFlight' = [inFlight EXCEPT ![m] = CountAfter(m)]
  /\ claimed' = ClaimsAfter(m)
  /\ held' = [held EXCEPT ![c] = @ \ {m}]
  /\ recovering' = [recovering EXCEPT ![c] = @ \ {m}]
  /\ stale' = [stale EXCEPT ![c] = @ \ {m}]
  /\ NotifyAll
  /\ UNCHANGED <<members, cap, disabled, want, patience>>

Release(c, m) ==
  /\ m \in held[c]
  /\ HandBack(c, m)
  /\ UNCHANGED <<cooling, due, bound>>

(* Release, clear_cooling and clear_budget_bound, with no yield between. *)
FinishOk(c, m) ==
  /\ m \in held[c]
  /\ HandBack(c, m)
  /\ cooling' = cooling \ {m}
  /\ due' = due \ {m}
  /\ bound' = [bound EXCEPT ![m] = 0]

(* Fault: the slack of the comparison is stored in the bound as well. *)
CoolDownWithSlack(c, m, missed) ==
  /\ m \in held[c]
  /\ HandBack(c, m)
  /\ cooling' = cooling \cup ({m} \cap members)
  /\ due' = due \cup ({m} \cap members)
  /\ bound' = [bound EXCEPT ![m] = IF missed > @ THEN missed + 1 ELSE @]

(* A failed attempt; `missed` is the answer budget it overran, 0 for none.  *)
CoolDown(c, m, missed) ==
  /\ m \in held[c]
  /\ HandBack(c, m)
  /\ cooling' = cooling \cup ({m} \cap members)
  /\ due' = due \cup ({m} \cap members)
  /\ bound' = [bound EXCEPT ![m] = IF missed > @ THEN missed ELSE @]

(* The call returns, with every slot it took handed back. *)
Leave(c) ==
  /\ phase[c] = "running"
  /\ held[c] = {}
  /\ EndCall(c)
  /\ UNCHANGED slotVars

-----------------------------------------------------------------------------

(* A first provisioning may have added any of the models. *)
Init ==
  /\ members \in SUBSET Models
  /\ cap \in [Models -> Caps]
  /\ inFlight = [m \in Models |-> 0]
  /\ cooling = {}
  /\ disabled = {}
  /\ due = {}
  /\ claimed = {}
  /\ bound = [m \in Models |-> 0]
  /\ phase = [c \in Callers |-> "idle"]
  /\ want = [c \in Callers |-> {}]
  /\ patience = [c \in Callers |-> Forever]
  /\ timer = [c \in Callers |-> {}]
  /\ held = [c \in Callers |-> {}]
  /\ recovering = [c \in Callers |-> {}]
  /\ stale = [c \in Callers |-> {}]

(* A negative wait is spent from the start, as 0 units are here. *)
Waits == {Forever, NoQueue} \cup (0 .. MaxBudget)

Settle(c, m) ==
  \/ Release(c, m)
  \/ FinishOk(c, m)
  \/ \E missed \in 0 .. MaxBudget : CoolDown(c, m, missed)

Evaluate(c) ==
  \/ \E width \in Widths, recoveryWidth \in {1, 2} : Acquire(c, width, recoveryWidth)
  \/ Exhausted(c)
  \/ TimedOut(c)
  \/ Block(c)

Admin ==
  \/ \E m \in Models, k \in Caps : Add(m, k)
  \/ \E m \in Models : Drop(m) \/ SetDisabled(m) \/ ClearDisabled(m)
  \/ \E b \in [Models -> 0 .. MaxBudget] : ApplyBudgetBounds(b)

Clock ==
  \/ \E m \in Models : CoolingElapses(m) \/ BoundLapses(m)
  \/ \E c \in Callers : Tick(c)

Call(c) ==
  \/ \E W \in SUBSET Models, p \in Waits : Enter(c, W, p)
  \/ \E W \in SUBSET Models : Reenter(c, W)
  \/ Evaluate(c)
  \/ CancelQueue(c)
  \/ \E W \in SUBSET Models, needed \in 1 .. Cardinality(Models) : TakeFree(c, W, needed)
  \/ \E m \in Models : Settle(c, m)
  \/ Leave(c)

Next == Admin \/ Clock \/ \E c \in Callers : Call(c)

(* Time passes and attempts end: a provider call is bounded by the HTTP     *)
(* timeout.  No attempt and no cooldown is promised to end before another   *)
(* one, and the callers, the admin and the rebuilds owe nothing.            *)
Passing ==
  \/ \E m \in Models : CoolingElapses(m)
  \/ \E c \in Callers, m \in Models : Settle(c, m)

Fairness == WF_vars(Passing)

Spec == Init /\ [][Next]_vars

FairSpec == Spec /\ Fairness

-----------------------------------------------------------------------------
(* Properties. *)

TypeOK ==
  /\ members \subseteq Models
  /\ cap \in [Models -> Nat \ {0}]
  /\ inFlight \in [Models -> Nat]
  /\ cooling \subseteq members
  /\ disabled \subseteq members
  /\ due \subseteq members
  /\ claimed \subseteq members
  /\ bound \in [Models -> 0 .. MaxBudget]
  /\ phase \in [Callers -> {"idle", "queued", "blocked", "running"}]
  /\ want \in [Callers -> SUBSET Models]
  /\ patience \in [Callers -> {Forever, NoQueue} \cup (0 .. MaxBudget)]
  /\ timer \in [Callers -> SUBSET Models]
  /\ held \in [Callers -> SUBSET Models]
  /\ recovering \in [Callers -> SUBSET Models]
  /\ stale \in [Callers -> SUBSET Models]

(* No slot is lost or counted twice: a slot never dropped counts exactly    *)
(* the calls that hold it, and one dropped and added again never counts a   *)
(* call it did not hand out, so no departed attempt can shrink its capacity *)
(* (_reserve, release, cool_down, drop).                                    *)
SlotsConserved ==
  /\ \A m \in Models : inFlight[m] <= Cardinality(FreshHolders(m))
  /\ \A m \in Models \ Volatile : inFlight[m] = Cardinality(Holders(m))

(* `parallel` is never exceeded on an entry that no rebuild drops or        *)
(* re-caps, whatever the calls, refills and failures do around it.          *)
CapRespected == \A m \in Models \ Volatile : Cardinality(Holders(m)) <= cap[m]

(* The same as a promise about steps: seen from outside, every such entry   *)
(* is a counting semaphore of its capacity, for the whole of every          *)
(* behaviour, with no slot handed over that was not free and none returned  *)
(* twice.                                                                   *)
Lasting == Models \ Volatile

Semaphores ==
  INSTANCE SlotSemaphores WITH
    Slots <- Lasting,
    limit <- [m \in Lasting |-> cap[m]],
    holding <- [c \in Callers |-> held[c] \ Volatile]

ImplementsSemaphores == Semaphores!Spec

(* A recovery claim always has a running recovery behind it: a claim left   *)
(* standing by a departed attempt would withdraw the model for good, since  *)
(* a claimed slot is never free and no timer waits for it.                  *)
ClaimHasOwner == \A m \in claimed : \E c \in Callers : m \in recovering[c]

(* Whatever keeps a blocked call from a candidate will wake it: either its  *)
(* own timer is set on the running cooldown, or somebody holds the slot and *)
(* notifies on handing it back.                                             *)
EveryWaitHasAWaker ==
  \A c \in Callers : phase[c] = "blocked" =>
    \A m \in Candidates(want[c]) :
      \/ m \in cooling \cap timer[c]
      \/ Holders(m) # {}

(* A blocked call is woken, whatever else the pool is put through. *)
WaiterIsWoken(c) == phase[c] = "blocked" ~> phase[c] # "blocked"

EveryWaiterIsWoken == \A c \in Callers : WaiterIsWoken(c)

(* The claim of a recovery is exclusive: while it is in flight the entry is *)
(* not handed to a second caller, whatever its capacity allows              *)
(* (specs/reference/rules/selection.md, and the docstring of _is_free).     *)
RecoveryIsExclusive ==
  [][\A c, d \in Callers, m \in Models :
       m \in recovering[c] /\ c # d /\ m \in held'[d] => m \in held[d]]_vars

(* in_flight is the count of concurrently running calls, capped by          *)
(* config.parallel: no slot runs more of the calls it handed out itself     *)
(* than its capacity, re-added or not (pool.py, the fields of _Slot).       *)
RunningWithinCap == \A m \in members : Cardinality(FreshHolders(m)) <= cap[m]

(* wait=None waits only while some model can still come back by itself and  *)
(* raises immediately when none ever will, every model being disabled.      *)
WaitsOnlyOnTheReturning ==
  \A c \in Callers : phase[c] = "blocked" => Candidates(want[c]) # {}
==============================================================================
