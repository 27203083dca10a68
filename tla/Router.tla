------------------------------- MODULE Router -------------------------------
(***************************************************************************)
(* One atomic routed call (src/llmbroker/broker/router.py: chat, _route,   *)
(* _alone, _race and the attempt they drive) over the pool of LLMPool.     *)
(*                                                                         *)
(* A call runs in rounds.  Each round takes slots from the pool and opens  *)
(* a lane on each: a single lane runs inside the caller's own task, two or *)
(* more each in a task of their own that the call's driver waits on.  A    *)
(* lane that failed is absorbed, a lane another one answered past is       *)
(* superseded.  Every await of the code is a point where other actions may *)
(* come between; what the code does between two awaits is one action.      *)
(***************************************************************************)
EXTENDS LLMPool

CONSTANTS
  Routed,          \* the calls modelled here; each of the rest only takes,
                   \* holds and settles one slot after the other
  Refs,            \* the api_key_refs
  RefOf,           \* the ref each model is paid with
  Disturbed,       \* the models the admin and the rebuilds touch meanwhile
  RecoveryWidths,  \* 2 where the call has parallel_recovery, 1 where not
  LateCancels      \* whether callers are also cancelled where _stop or nobody
                   \* at all owes the slot of a lane that has not started

ASSUME RouterAssumption ==
  /\ RefOf \in [Models -> Refs]
  /\ Routed \subseteq Callers
  /\ Disturbed \subseteq Models
  /\ RecoveryWidths \subseteq {1, 2}
  /\ LateCancels \in BOOLEAN

VARIABLES
  keyed,         \* the refs the caller's ring resolves to a key
  stage,         \* what the call's driver is doing
  knobs,         \* the call's fastest_of and recovery width
  live,          \* the lanes the driver still waits for
  tried,         \* the models opened in this round
  raceWidth,     \* the lanes the round started with
  clientFailed,  \* the models excluded for the rest of the call
  clientError,   \* whether a provider rejected the request itself
  expired,       \* whether an attempt found the wait budget spent
  result,        \* what the caller got
  step,          \* where each lane's attempt stands
  verdict,       \* how it ended, once settling has begun
  cutting,       \* the lanes whose task has a cancellation pending
  superseded,    \* the lanes another one has answered past
  journaled      \* the lanes whose attempt has its row

driverVars == <<stage, knobs, live, tried, raceWidth, clientFailed, clientError, expired, result>>
laneVars == <<step, verdict, cutting, superseded, journaled>>
routerVars == <<vars, keyed, driverVars, laneVars>>

Payable == {m \in Models : \E n \in members : RefOf[n] = RefOf[m] /\ RefOf[m] \in keyed}

Settling(c, m) == step[c][m] \in {"journal", "done"}

Unopened(c) == {m \in Models : m \in cutting[c] /\ step[c][m] = "opening"}

-----------------------------------------------------------------------------
(* Rounds. *)

Finish(c, r) ==
  /\ stage' = [stage EXCEPT ![c] = "over"]
  /\ result' = [result EXCEPT ![c] = r]

(* _expired, and _acquire where every candidate is excluded: an error the   *)
(* caller can act on goes before the generic one.                           *)
Surface(c, generic) == IF clientError[c] THEN "client_error" ELSE generic

Start(c, p) ==
  /\ stage[c] = "fresh"
  /\ Enter(c, Payable, p)
  /\ stage' = [stage EXCEPT ![c] = "queue"]
  /\ UNCHANGED <<keyed, knobs, live, tried, raceWidth, clientFailed, clientError, expired, result>>
  /\ UNCHANGED laneVars

(* The lanes of S are created; nothing in them has run yet. *)
OpenLanes(c, S) ==
  /\ step' = [step EXCEPT ![c] = [m \in Models |-> IF m \in S THEN "opening" ELSE @[m]]]
  /\ verdict' = [verdict EXCEPT ![c] = [m \in Models |-> IF m \in S THEN "none" ELSE @[m]]]
  /\ journaled' = [journaled EXCEPT ![c] = @ \ S]
  /\ UNCHANGED <<cutting, superseded>>

AcquireLanes(c) ==
  /\ Acquire(c, knobs[c].width, knobs[c].recovery)
  /\ LET taken == held'[c]
     IN  /\ stage' = [stage EXCEPT ![c] = IF Cardinality(taken) = 1 THEN "alone" ELSE "race"]
         /\ live' = [live EXCEPT ![c] = taken]
         /\ tried' = [tried EXCEPT ![c] = taken]
         /\ raceWidth' = [raceWidth EXCEPT ![c] = Cardinality(taken)]
         /\ OpenLanes(c, taken)
  /\ UNCHANGED <<keyed, knobs, clientFailed, clientError, expired, result>>

(* "excluded" is judged on the slots as they are now. *)
AcquireExhausted(c) ==
  /\ Exhausted(c)
  /\ Finish(c, IF clientFailed[c] \cap members # {} THEN Surface(c, "no_llm") ELSE "no_llm")
  /\ UNCHANGED <<keyed, knobs, live, tried, raceWidth, clientFailed, clientError, expired>>
  /\ UNCHANGED laneVars

AcquireTimedOut(c) ==
  /\ TimedOut(c)
  /\ Finish(c, "timeout")
  /\ UNCHANGED <<keyed, knobs, live, tried, raceWidth, clientFailed, clientError, expired>>
  /\ UNCHANGED laneVars

AcquireBlocks(c) ==
  /\ Block(c)
  /\ UNCHANGED <<keyed, driverVars, laneVars>>

(* Every lane of the round failed: raise if the budget is gone, else loop.  *)
NextRound(c, failed, error, gone) ==
  /\ IF gone
     THEN /\ EndCall(c)
          /\ UNCHANGED slotVars
          /\ Finish(c, IF error THEN "client_error" ELSE "timeout")
     ELSE /\ Queue(c, Payable \ failed)
          /\ UNCHANGED patience
          /\ stage' = [stage EXCEPT ![c] = "queue"]
          /\ UNCHANGED result
  /\ live' = [live EXCEPT ![c] = {}]
  /\ tried' = [tried EXCEPT ![c] = {}]

-----------------------------------------------------------------------------
(* One lane's attempt.  `settling` holds from the moment its verdict has    *)
(* been applied to the pool; its row is then still to be written.           *)

LaneStep(c, m, to, v) ==
  /\ step' = [step EXCEPT ![c][m] = to]
  /\ verdict' = [verdict EXCEPT ![c][m] = v]
  /\ UNCHANGED <<driverVars, superseded, journaled>>

Opening(c, m) == step[c][m] = "opening" /\ m \notin cutting[c] /\ stage[c] # "over"

(* The key went since the slot was taken: the slot goes straight back. *)
KeyGone(c, m) ==
  /\ Opening(c, m)
  /\ RefOf[m] \notin keyed
  /\ Release(c, m)
  /\ LaneStep(c, m, "done", "unpayable")
  /\ UNCHANGED <<keyed, cutting>>

Ask(c, m) ==
  /\ Opening(c, m)
  /\ RefOf[m] \in keyed
  /\ patience[c] # 0
  /\ LaneStep(c, m, "asking", "none")
  /\ UNCHANGED <<vars, keyed, cutting>>

(* The wait was gone before a request could be opened. *)
SpentBudget(c, m) ==
  /\ Opening(c, m)
  /\ RefOf[m] \in keyed
  /\ patience[c] = 0
  /\ Release(c, m)
  /\ LaneStep(c, m, "journal", "expired")
  /\ UNCHANGED <<keyed, cutting>>

Asking(c, m) == step[c][m] = "asking" /\ m \notin cutting[c]

Answered(c, m) ==
  /\ Asking(c, m)
  /\ FinishOk(c, m)
  /\ LaneStep(c, m, "journal", "answered")
  /\ UNCHANGED <<keyed, cutting>>

(* 429, 503, 5xx, a broken answer, a transport error or the global ceiling. *)
Failed(c, m) ==
  /\ Asking(c, m)
  /\ CoolDown(c, m, 0)
  /\ LaneStep(c, m, "journal", "failed")
  /\ UNCHANGED <<keyed, cutting>>

(* The caller's own budget ran out during the attempt, and bounded it. *)
BudgetExpired(c, m, missed) ==
  /\ Asking(c, m)
  /\ patience[c] = 0
  /\ CoolDown(c, m, missed)
  /\ LaneStep(c, m, "journal", "expired")
  /\ UNCHANGED <<keyed, cutting>>

(* Any 4xx but 429, 401 and 403. *)
Rejected(c, m) ==
  /\ Asking(c, m)
  /\ Release(c, m)
  /\ LaneStep(c, m, "journal", "rejected")
  /\ UNCHANGED <<keyed, cutting>>

(* 401 and 403: the ring forgets the key the provider rejected. *)
Unauthorised(c, m) ==
  /\ Asking(c, m)
  /\ Release(c, m)
  /\ keyed' = keyed \ {RefOf[m]}
  /\ LaneStep(c, m, "journal", "unauthorised")
  /\ UNCHANGED cutting

(* An unexpected exception. *)
Crashed(c, m) ==
  /\ Asking(c, m)
  /\ Release(c, m)
  /\ LaneStep(c, m, "journal", "crashed")
  /\ UNCHANGED <<keyed, cutting>>

(* The pending cancellation reaches a lane at its provider: superseded, it  *)
(* owes a neutral row; cut because the whole call is going, it owes none.   *)
Cut(c, m) ==
  /\ step[c][m] = "asking"
  /\ m \in cutting[c]
  /\ Release(c, m)
  /\ IF m \in superseded[c] THEN LaneStep(c, m, "journal", "superseded")
                            ELSE LaneStep(c, m, "done", "cut")
  /\ cutting' = [cutting EXCEPT ![c] = @ \ {m}]
  /\ UNCHANGED keyed

(* Fault: a lane cut before its attempt began is taken for one that settled *)
(* itself.                                                                  *)
StopWithoutRelease(c, m) ==
  /\ stage[c] \in {"abandon", "settle"}
  /\ m \in Unopened(c)
  /\ LaneStep(c, m, "done", "unopened")
  /\ cutting' = [cutting EXCEPT ![c] = @ \ {m}]
  /\ UNCHANGED <<vars, keyed>>

(* _stop: a lane cut before its attempt began ran no code of its own. *)
StopUnopened(c, m) ==
  /\ stage[c] \in {"abandon", "settle"}
  /\ m \in Unopened(c)
  /\ Release(c, m)
  /\ LaneStep(c, m, "done", "unopened")
  /\ cutting' = [cutting EXCEPT ![c] = @ \ {m}]
  /\ UNCHANGED keyed

(* A cancellation that reached the lane here would lose the row, or not. *)
Journal(c, m) ==
  /\ step[c][m] = "journal"
  /\ step' = [step EXCEPT ![c][m] = "done"]
  /\ \E lost \in SUBSET ({m} \cap cutting[c]) :
       journaled' = [journaled EXCEPT ![c] = @ \cup ({m} \ lost)]
  /\ UNCHANGED <<vars, keyed, driverVars, verdict, cutting, superseded>>

-----------------------------------------------------------------------------
(* The driver. *)

Refusals == {"rejected", "unauthorised", "unpayable"}

DoneWith(c, V) == {m \in live[c] : step[c][m] = "done" /\ verdict[c][m] \in V}

(* What RouteCall.absorb makes of the lanes that ended without an answer. *)
FailedAfter(c) == clientFailed[c] \cup DoneWith(c, Refusals)
ErrorAfter(c) == clientError[c] \/ DoneWith(c, {"rejected"}) # {}

(* Fault: what a lane found out about the budget is not kept for the call. *)
ExpiredNow(c) == expired[c]

ExpiredAfter(c) == expired[c] \/ DoneWith(c, {"expired"}) # {}

(* Fault: an answer that came in together with a spent budget is too late. *)
UnansweredInTime(c) == DoneWith(c, {"answered"}) = {} \/ ExpiredAfter(c)

Unanswered(c) == DoneWith(c, {"answered"}) = {}

(* Fault: an answer in hand makes up for the exception beside it. *)
FatalUnlessAnswered(c) == IF Unanswered(c) THEN DoneWith(c, {"crashed"}) ELSE {}

Fatal(c) == DoneWith(c, {"crashed"})

Absorb(c) ==
  /\ clientFailed' = [clientFailed EXCEPT ![c] = FailedAfter(c)]
  /\ clientError' = [clientError EXCEPT ![c] = ErrorAfter(c)]
  /\ expired' = [expired EXCEPT ![c] = ExpiredAfter(c)]

(* Fault: a lane that is already settling is cut with the others. *)
CancelAll(c, S) == cutting' = [cutting EXCEPT ![c] = @ \cup {m \in S : step[c][m] # "done"}]

(* A lane already settling is left to finish: it has applied its verdict to *)
(* the pool and owes the row for it.                                        *)
Cancel(c, S) == cutting' = [cutting EXCEPT ![c] = @ \cup {m \in S : ~Settling(c, m)}]

Supersede(c, S) ==
  /\ superseded' = [superseded EXCEPT ![c] = @ \cup S]
  /\ Cancel(c, S)

AloneEnds(c) ==
  /\ stage[c] = "alone"
  /\ \A m \in live[c] : step[c][m] = "done"
  /\ IF DoneWith(c, {"answered", "crashed"}) # {}
     THEN /\ Finish(c, IF DoneWith(c, {"answered"}) # {} THEN "answer" ELSE "crash")
          /\ EndCall(c)
          /\ UNCHANGED slotVars
          /\ UNCHANGED <<live, tried, clientFailed, clientError, expired>>
     ELSE /\ Absorb(c)
          /\ NextRound(c, FailedAfter(c), ErrorAfter(c), ExpiredAfter(c))
  /\ UNCHANGED <<keyed, knobs, raceWidth, laneVars>>

Ended(c) == {m \in live[c] : step[c][m] = "done"}

(* The first answer of the batch in lane order wins; the others, ended or   *)
(* not, are superseded, and the answer does not wait for them.              *)
RaceWon(c) ==
  /\ stage[c] = "race"
  /\ Fatal(c) = {}
  /\ \E winner \in DoneWith(c, {"answered"}) :
       LET losers == (live[c] \ Ended(c)) \cup (DoneWith(c, {"answered"}) \ {winner})
       IN  /\ Supersede(c, losers)
           /\ live' = [live EXCEPT ![c] = losers]
  /\ Absorb(c)
  /\ stage' = [stage EXCEPT ![c] = "settle"]
  /\ result' = [result EXCEPT ![c] = "answer"]
  /\ UNCHANGED <<vars, keyed, knobs, tried, raceWidth, step, verdict, journaled>>

(* Fault: a spent budget ends the call under the lanes still running. *)
GivesUpEarly(c, left) == ExpiredAfter(c)

GivesUp(c, left) == ExpiredAfter(c) /\ left = {}

(* No answer in the batch: refill, or wait on, or give the round up. *)
RaceLost(c) ==
  /\ stage[c] = "race"
  /\ Ended(c) # {}
  /\ Fatal(c) = {}
  /\ Unanswered(c)
  /\ Absorb(c)
  /\ LET left == live[c] \ Ended(c)
     IN  IF GivesUp(c, left)
         THEN NextRound(c, FailedAfter(c), ErrorAfter(c), TRUE)
         ELSE /\ live' = [live EXCEPT ![c] = left]
              /\ stage' = [stage EXCEPT ![c] = IF ExpiredAfter(c) THEN "race" ELSE "refill"]
              /\ UNCHANGED <<vars, tried, result>>
  /\ UNCHANGED <<keyed, knobs, raceWidth, laneVars>>

(* A bug in one lane ends the call: the others are taken off first. *)
RaceCrashed(c) ==
  /\ stage[c] = "race"
  /\ \E m \in Fatal(c) :
       /\ live' = [live EXCEPT ![c] = @ \ {m}]
       /\ Cancel(c, live[c] \ {m})
  /\ stage' = [stage EXCEPT ![c] = "abandon"]
  /\ result' = [result EXCEPT ![c] = "crash"]
  /\ UNCHANGED <<vars, keyed, knobs, tried, raceWidth, clientFailed, clientError, expired>>
  /\ UNCHANGED <<step, verdict, superseded, journaled>>

(* Fault: a refill forgets the refusals of the rounds before. *)
UntriedThisRound(c) == Payable \ tried[c]

Untried(c) == Payable \ (tried[c] \cup clientFailed[c])

Needed(c) == raceWidth[c] - Cardinality(live[c])

CanRefill(c) == Needed(c) > 0 /\ FreeAmong(Untried(c)) # {}

(* Whatever is free of what the call has not tried; other lanes may have    *)
(* ended since, for asking who can be paid may suspend.                     *)
Refill(c) ==
  /\ stage[c] = "refill"
  /\ CanRefill(c)
  /\ TakeFree(c, Untried(c), Needed(c))
  /\ LET fresh == held'[c] \ held[c]
     IN  /\ live' = [live EXCEPT ![c] = @ \cup fresh]
         /\ tried' = [tried EXCEPT ![c] = @ \cup fresh]
         /\ OpenLanes(c, fresh)
  /\ stage' = [stage EXCEPT ![c] = "race"]
  /\ UNCHANGED <<keyed, knobs, raceWidth, clientFailed, clientError, expired, result>>

NothingToRefill(c) ==
  /\ stage[c] = "refill"
  /\ ~CanRefill(c)
  /\ IF live[c] = {}
     THEN NextRound(c, clientFailed[c], clientError[c], FALSE)
     ELSE /\ stage' = [stage EXCEPT ![c] = "race"]
          /\ UNCHANGED <<vars, live, tried, result>>
  /\ UNCHANGED <<keyed, knobs, raceWidth, clientFailed, clientError, expired, laneVars>>

(* _abandon and _settled return once every lane has settled whole. *)
Settled(c) ==
  /\ stage[c] \in {"abandon", "settle"}
  /\ \A m \in Models : step[c][m] \in {"none", "done"}
  /\ stage' = [stage EXCEPT ![c] = "over"]
  /\ EndCall(c)
  /\ UNCHANGED slotVars
  /\ UNCHANGED <<keyed, knobs, live, tried, raceWidth, clientFailed, clientError, expired, result>>
  /\ UNCHANGED laneVars

-----------------------------------------------------------------------------
(* The caller's task is cancelled. *)

CancelQueued(c) ==
  /\ CancelQueue(c)
  /\ Finish(c, "cancelled")
  /\ UNCHANGED <<keyed, knobs, live, tried, raceWidth, clientFailed, clientError, expired>>
  /\ UNCHANGED laneVars

(* A lone lane runs in the caller's task and takes the cancellation itself. *)
CancelAlone(c) ==
  /\ stage[c] = "alone"
  /\ \E m \in live[c] :
       \/ /\ step[c][m] = "asking"
          /\ Release(c, m)
          /\ step' = [step EXCEPT ![c][m] = "done"]
          /\ verdict' = [verdict EXCEPT ![c][m] = "cut"]
          /\ UNCHANGED journaled
       \/ /\ step[c][m] = "journal"
          /\ step' = [step EXCEPT ![c][m] = "done"]
          /\ \E written \in SUBSET {m} : journaled' = [journaled EXCEPT ![c] = @ \cup written]
          /\ UNCHANGED <<vars, verdict>>
       \/ /\ LateCancels
          /\ step[c][m] = "opening"
          /\ UNCHANGED <<vars, step, verdict, journaled>>
  /\ Finish(c, "cancelled")
  /\ UNCHANGED <<keyed, knobs, live, tried, raceWidth, clientFailed, clientError, expired>>
  /\ UNCHANGED <<cutting, superseded>>

CancelRace(c) ==
  /\ stage[c] \in {"race", "refill"}
  /\ Cancel(c, live[c])
  /\ stage' = [stage EXCEPT ![c] = "abandon"]
  /\ result' = [result EXCEPT ![c] = "cancelled"]
  /\ UNCHANGED <<vars, keyed, knobs, live, tried, raceWidth, clientFailed, clientError, expired>>
  /\ UNCHANGED <<step, verdict, superseded, journaled>>

(* Cancelled while lanes settle beside it, the driver takes the _stop tasks *)
(* with it; the lanes themselves finish on their own.                       *)
CancelSettling(c) ==
  /\ stage[c] \in {"abandon", "settle"}
  /\ LateCancels \/ Unopened(c) = {}
  /\ Finish(c, "cancelled")
  /\ UNCHANGED <<vars, keyed, knobs, live, tried, raceWidth, clientFailed, clientError, expired>>
  /\ UNCHANGED laneVars

-----------------------------------------------------------------------------
(* The surroundings: the pool's clock and its administration, and the ring. *)

RingRefreshed(K) ==
  /\ keyed' = K
  /\ UNCHANGED <<vars, driverVars, laneVars>>

Around == UNCHANGED <<keyed, driverVars, laneVars>>

AroundAdmin ==
  /\ \E m \in Disturbed :
       (\E k \in Caps : Add(m, k)) \/ Drop(m) \/ SetDisabled(m) \/ ClearDisabled(m)
  /\ Around
AroundBounds(b) == ApplyBudgetBounds(b) /\ Disturbed # {} /\ Around
AroundCooling(m) == CoolingElapses(m) /\ Around
AroundBound(m) == BoundLapses(m) /\ Around
AroundTick(c) == Tick(c) /\ Around

(* Another call, waiting for a slot for as long as it takes. *)
AroundCall(c) ==
  /\ \/ Enter(c, Models, Forever)
     \/ Acquire(c, 1, 1)
     \/ Block(c)
     \/ Exhausted(c)
     \/ \E m \in Models : Settle(c, m)
     \/ Leave(c)
  /\ Around

-----------------------------------------------------------------------------

Knobs == [width : Widths, recovery : RecoveryWidths]

RouterInit ==
  /\ Init
  /\ Models \ Disturbed \subseteq members
  /\ keyed = Refs
  /\ stage = [c \in Callers |-> "fresh"]
  /\ knobs \in [Callers -> Knobs]
  /\ live = [c \in Callers |-> {}]
  /\ tried = [c \in Callers |-> {}]
  /\ raceWidth = [c \in Callers |-> 0]
  /\ clientFailed = [c \in Callers |-> {}]
  /\ clientError = [c \in Callers |-> FALSE]
  /\ expired = [c \in Callers |-> FALSE]
  /\ result = [c \in Callers |-> "none"]
  /\ step = [c \in Callers |-> [m \in Models |-> "none"]]
  /\ verdict = [c \in Callers |-> [m \in Models |-> "none"]]
  /\ cutting = [c \in Callers |-> {}]
  /\ superseded = [c \in Callers |-> {}]
  /\ journaled = [c \in Callers |-> {}]

AcquireStep(c) ==
  AcquireLanes(c) \/ AcquireExhausted(c) \/ AcquireTimedOut(c) \/ AcquireBlocks(c)

AttemptBegins(c, m) == KeyGone(c, m) \/ Ask(c, m) \/ SpentBudget(c, m)

AttemptEnds(c, m) ==
  \/ Answered(c, m)
  \/ Failed(c, m)
  \/ \E missed \in 1 .. MaxBudget : BudgetExpired(c, m, missed)
  \/ Rejected(c, m)
  \/ Unauthorised(c, m)
  \/ Crashed(c, m)

LaneRuns(c, m) == Cut(c, m) \/ StopUnopened(c, m) \/ Journal(c, m)

Drive(c) ==
  \/ AloneEnds(c)
  \/ RaceWon(c)
  \/ RaceLost(c)
  \/ RaceCrashed(c)
  \/ Refill(c)
  \/ NothingToRefill(c)
  \/ Settled(c)

CallerCancels(c) ==
  CancelQueued(c) \/ CancelAlone(c) \/ CancelRace(c) \/ CancelSettling(c)

RouterNext ==
  \/ AroundAdmin
  \/ \E b \in [Models -> 0 .. MaxBudget] : AroundBounds(b)
  \/ \E m \in Models : AroundCooling(m) \/ AroundBound(m)
  \/ \E K \in SUBSET Refs : RingRefreshed(K)
  \/ \E c \in Callers \ Routed : AroundCall(c)
  \/ \E c \in Callers : AroundTick(c)
  \/ \E c \in Routed :
       \/ \E p \in Waits : Start(c, p)
       \/ AcquireStep(c)
       \/ \E m \in Models : AttemptBegins(c, m) \/ AttemptEnds(c, m) \/ LaneRuns(c, m)
       \/ Drive(c)
       \/ CallerCancels(c)

(* The event loop runs what is ready, and an attempt ends: at the deadline  *)
(* that bounds it or at the HTTP timeout.                                   *)
RouterFairness ==
  /\ \A m \in Models : WF_routerVars(AroundCooling(m))
  /\ \A c \in Routed :
       /\ WF_routerVars(AroundTick(c))
       /\ WF_routerVars(AcquireStep(c))
       /\ WF_routerVars(Drive(c))
       /\ \A m \in Models :
            /\ WF_routerVars(AttemptBegins(c, m))
            /\ WF_routerVars(AttemptEnds(c, m))
            /\ WF_routerVars(LaneRuns(c, m))

RouterSpec == RouterInit /\ [][RouterNext]_routerVars

FairRouterSpec == RouterSpec /\ RouterFairness

-----------------------------------------------------------------------------
(* Properties. *)

Steps == {"none", "opening", "asking", "journal", "done"}
Verdicts == {"none", "answered", "failed", "expired", "rejected", "unauthorised",
             "unpayable", "crashed", "superseded", "unopened", "cut"}
Results == {"none", "answer", "client_error", "timeout", "no_llm", "crash", "cancelled"}

RouterTypeOK ==
  /\ TypeOK
  /\ keyed \subseteq Refs
  /\ stage \in [Callers -> {"fresh", "queue", "alone", "race", "refill", "abandon",
                            "settle", "over"}]
  /\ knobs \in [Callers -> Knobs]
  /\ live \in [Callers -> SUBSET Models]
  /\ tried \in [Callers -> SUBSET Models]
  /\ raceWidth \in [Callers -> 0 .. Cardinality(Models)]
  /\ clientFailed \in [Callers -> SUBSET Models]
  /\ clientError \in [Callers -> BOOLEAN]
  /\ expired \in [Callers -> BOOLEAN]
  /\ result \in [Callers -> Results]
  /\ step \in [Callers -> [Models -> Steps]]
  /\ verdict \in [Callers -> [Models -> Verdicts]]
  /\ cutting \in [Callers -> SUBSET Models]
  /\ superseded \in [Callers -> SUBSET Models]
  /\ journaled \in [Callers -> SUBSET Models]

(* A slot is held exactly while a lane that will hand it back is running:   *)
(* the attempt itself once it is at its provider, the driver or _stop       *)
(* before that.  Nothing may permanently shrink a model's capacity          *)
(* (specs/reference/invariants.md, 19).                                     *)
NoSlotLeaked ==
  \A c \in Routed, m \in Models :
    m \in held[c] <=> \/ step[c][m] = "asking"
                      \/ step[c][m] = "opening" /\ stage[c] # "over"

(* The router keeps to the pool's protocol: whatever it does is one of the  *)
(* pool's operations or none, so all that holds of LLMPool holds here.      *)
KeepsToThePool == Spec

(* An attempt is settled whole before the next round, and a settled attempt *)
(* that reached its provider has its row: superseding never cuts a lane     *)
(* that is already settling, and one it does cut leaves a neutral row.      *)
(* Only an attempt cut because the whole call is going owes none, and only  *)
(* the caller's own cancellation can lose one.                              *)
EveryAttemptIsJournaled ==
  \A c \in Callers, m \in Models :
    /\ stage[c] = "queue" => step[c][m] \in {"none", "done"}
    /\ step[c][m] = "done" /\ result[c] # "cancelled" =>
         (m \in journaled[c] <=>
            /\ verdict[c][m] \notin {"unpayable", "unopened"}
            /\ verdict[c][m] = "cut" => result[c] # "crash")

(* No model that refused the request is asked again in that call, and no    *)
(* model runs twice in one race.                                            *)
NeverAskedAgain ==
  [][\A c \in Callers, m \in Models :
       m \in clientFailed[c] \/ (stage[c] \in {"race", "refill"} /\ m \in tried[c])
         => (m \in held'[c] => m \in held[c])]_routerVars

(* A call that ends without an answer, or goes on to another round, has not *)
(* dropped one a lane of its last round produced.                           *)
AnswerIsDelivered ==
  \A c \in Callers :
    stage[c] = "queue" \/ result[c] \in {"client_error", "timeout", "no_llm"} =>
      \A m \in Models : verdict[c][m] # "answered"

(* An unexpected exception is a bug and reaches the caller, unless the lane *)
(* was beaten to the answer or the caller has gone.                         *)
CrashReachesTheCaller ==
  \A c \in Callers, m \in Models :
    /\ stage[c] = "over"
    /\ result[c] \notin {"crash", "cancelled"}
    /\ verdict[c][m] = "crashed"
    => m \in superseded[c]

(* A call with a wait to spend comes to an end. *)
BoundedCallEnds ==
  \A c \in Routed : patience[c] >= 0 ~> stage[c] = "over"

(* An error the caller can act on outranks a wait budget that expires later *)
(* in the same call (specs/reference/rules/call-path.md).                   *)
ClientErrorOutranksTheClock ==
  \A c \in Callers : ~(clientError[c] /\ result[c] = "timeout")
=============================================================================
