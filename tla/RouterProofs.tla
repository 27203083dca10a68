---------------------------- MODULE RouterProofs -----------------------------
(***************************************************************************)
(* The routed call over the pool, for any models, callers and knobs: it    *)
(* keeps to the pool's protocol, and it leaks no slot.                     *)
(***************************************************************************)
EXTENDS Router, LLMPoolProofs

-----------------------------------------------------------------------------
(* Type correctness of what the router adds to the pool. *)

RouterVarsOK ==
  /\ keyed \subseteq Refs
  /\ stage \in [Callers -> {"fresh", "queue", "alone", "race", "refill", "abandon",
                            "settle", "over"}]
  /\ knobs \in [Callers -> Knobs]
  /\ live \in [Callers -> SUBSET Models]
  /\ tried \in [Callers -> SUBSET Models]
  /\ raceWidth \in [Callers -> 0 .. Cardinality(Models)]
  /\ clientFailed \in [Callers -> SUBSET Models]
  /\ clientError \in [Callers -> BOOLEAN]
  /\ expired \in [Callers -> BOOLEAN]
  /\ result \in [Callers -> Results]
  /\ step \in [Callers -> [Models -> Steps]]
  /\ verdict \in [Callers -> [Models -> Verdicts]]
  /\ cutting \in [Callers -> SUBSET Models]
  /\ superseded \in [Callers -> SUBSET Models]
  /\ journaled \in [Callers -> SUBSET Models]

(* The type invariant is the pool's and the router's, side by side. *)
LEMMA RouterTypeParts == RouterTypeOK <=> TypeOK /\ RouterVarsOK
BY DEF RouterTypeOK, RouterVarsOK

(* A set of models is finite, and no larger than all of them. *)
LEMMA SubsetCardinality ==
  ASSUME NEW S \in SUBSET Models
  PROVE  IsFiniteSet(S) /\ Cardinality(S) \in 0 .. Cardinality(Models)
BY PoolAssumption, FS_Subset, FS_CardinalityType

(* Opening, moving and cutting short a lane each keep the lanes' types. *)
LEMMA OpenLanesType ==
  ASSUME RouterVarsOK, NEW c \in Callers, NEW S \in SUBSET Models, OpenLanes(c, S)
  PROVE  /\ step' \in [Callers -> [Models -> Steps]]
         /\ verdict' \in [Callers -> [Models -> Verdicts]]
         /\ cutting' \in [Callers -> SUBSET Models]
         /\ superseded' \in [Callers -> SUBSET Models]
         /\ journaled' \in [Callers -> SUBSET Models]
BY DEF RouterVarsOK, OpenLanes, Steps, Verdicts

LEMMA LaneStepType ==
  ASSUME RouterVarsOK, NEW c \in Callers, NEW m \in Models, NEW to \in Steps,
         NEW v \in Verdicts, LaneStep(c, m, to, v),
         keyed' \subseteq keyed, cutting' \in [Callers -> SUBSET Models]
  PROVE  RouterVarsOK'
BY DEF RouterVarsOK, LaneStep, driverVars, Knobs

(* The router starts well typed. *)
LEMMA RouterVarsInit == RouterInit => RouterVarsOK
<1> SUFFICES ASSUME RouterInit
             PROVE  RouterVarsOK
  OBVIOUS
<1>1. 0 \in 0 .. Cardinality(Models)
  BY SubsetCardinality
<1>2. "none" \in Steps /\ "none" \in Verdicts /\ "none" \in Results
  BY DEF Steps, Verdicts, Results
<1> QED
  BY <1>1, <1>2 DEF RouterInit, RouterVarsOK

(* The parts of the type that the driver's own bookkeeping can disturb. *)
LEMMA AbsorbType ==
  ASSUME RouterVarsOK, NEW c \in Callers, Absorb(c)
  PROVE  /\ clientFailed' \in [Callers -> SUBSET Models]
         /\ clientError' \in [Callers -> BOOLEAN]
         /\ expired' \in [Callers -> BOOLEAN]
BY DEF RouterVarsOK, Absorb, FailedAfter, ErrorAfter, ExpiredAfter, DoneWith

LEMMA FinishType ==
  ASSUME RouterVarsOK, NEW c \in Callers, NEW r \in Results, Finish(c, r)
  PROVE  /\ stage' \in [Callers -> {"fresh", "queue", "alone", "race", "refill", "abandon",
                                    "settle", "over"}]
         /\ result' \in [Callers -> Results]
BY DEF RouterVarsOK, Finish

LEMMA NextRoundType ==
  ASSUME RouterVarsOK, NEW c \in Callers, NEW failed, NEW error \in BOOLEAN, NEW gone,
         NextRound(c, failed, error, gone)
  PROVE  /\ stage' \in [Callers -> {"fresh", "queue", "alone", "race", "refill", "abandon",
                                    "settle", "over"}]
         /\ result' \in [Callers -> Results]
         /\ live' \in [Callers -> SUBSET Models]
         /\ tried' \in [Callers -> SUBSET Models]
<1>1. live' \in [Callers -> SUBSET Models] /\ tried' \in [Callers -> SUBSET Models]
  BY DEF NextRound, RouterVarsOK
<1>2. CASE gone
  <2>1. Finish(c, IF error THEN "client_error" ELSE "timeout")
    BY <1>2 DEF NextRound
  <2> QED
    BY <1>1, <2>1, FinishType DEF Results
<1>3. CASE ~gone
  BY <1>1, <1>3 DEF NextRound, RouterVarsOK
<1> QED
  BY <1>2, <1>3

LEMMA CancelType ==
  ASSUME RouterVarsOK, NEW c \in Callers, NEW S \in SUBSET Models, Cancel(c, S)
  PROVE  cutting' \in [Callers -> SUBSET Models]
BY DEF RouterVarsOK, Cancel

(* What a cancelled lone lane may change stays well typed. *)
LEMMA CutShortType ==
  ASSUME RouterVarsOK, NEW c \in Callers, NEW m \in Models,
         step' = [step EXCEPT ![c][m] = "done"] \/ step' = step,
         verdict' = [verdict EXCEPT ![c][m] = "cut"] \/ verdict' = verdict,
         journaled' = [journaled EXCEPT ![c] = @ \cup {m}] \/ journaled' = journaled
  PROVE  /\ step' \in [Callers -> [Models -> Steps]]
         /\ verdict' \in [Callers -> [Models -> Verdicts]]
         /\ journaled' \in [Callers -> SUBSET Models]
<1>1. step' \in [Callers -> [Models -> Steps]]
  <2>1. CASE step' = step
    BY <2>1 DEF RouterVarsOK
  <2>2. CASE step' = [step EXCEPT ![c][m] = "done"]
    BY <2>2 DEF RouterVarsOK, Steps
  <2> QED
    BY <2>1, <2>2
<1>2. verdict' \in [Callers -> [Models -> Verdicts]]
  <2>1. CASE verdict' = verdict
    BY <2>1 DEF RouterVarsOK
  <2>2. CASE verdict' = [verdict EXCEPT ![c][m] = "cut"]
    BY <2>2 DEF RouterVarsOK, Verdicts
  <2> QED
    BY <2>1, <2>2
<1>3. journaled' \in [Callers -> SUBSET Models]
  <2>1. CASE journaled' = journaled
    BY <2>1 DEF RouterVarsOK
  <2>2. CASE journaled' = [journaled EXCEPT ![c] = @ \cup {m}]
    BY <2>2 DEF RouterVarsOK
  <2> QED
    BY <2>1, <2>2
<1> QED
  BY <1>1, <1>2, <1>3

(* Every step of the router keeps its own variables well typed. *)
LEMMA RouterVarsStep ==
  ASSUME TypeOK, RouterVarsOK, held' \in [Callers -> SUBSET Models], [RouterNext]_routerVars
  PROVE  RouterVarsOK'
<1> USE DEF RouterVarsOK
<1>1. ASSUME UNCHANGED <<driverVars, laneVars>>, keyed' \subseteq Refs
      PROVE  RouterVarsOK'
  BY <1>1 DEF driverVars, laneVars
<1>2. ASSUME NEW c \in Callers, NEW p, Start(c, p)
      PROVE  RouterVarsOK'
  BY <1>2 DEF Start, laneVars
<1>3. ASSUME NEW c \in Callers, AcquireLanes(c)
      PROVE  RouterVarsOK'
  <2>1. held'[c] \in SUBSET Models
    OBVIOUS
  <2>2. OpenLanes(c, held'[c])
    BY <1>3 DEF AcquireLanes
  <2>3. Cardinality(held'[c]) \in 0 .. Cardinality(Models)
    BY <2>1, SubsetCardinality
  <2>4. /\ step' \in [Callers -> [Models -> Steps]]
        /\ verdict' \in [Callers -> [Models -> Verdicts]]
        /\ cutting' \in [Callers -> SUBSET Models]
        /\ superseded' \in [Callers -> SUBSET Models]
        /\ journaled' \in [Callers -> SUBSET Models]
    BY <2>1, <2>2, OpenLanesType
  <2> QED
    BY <1>3, <2>1, <2>3, <2>4 DEF AcquireLanes
<1>4. ASSUME NEW c \in Callers, AcquireExhausted(c)
      PROVE  RouterVarsOK'
  <2>1. PICK r \in Results : Finish(c, r)
    BY <1>4 DEF AcquireExhausted, Surface, Results
  <2> QED
    BY <1>4, <2>1, FinishType DEF AcquireExhausted, laneVars
<1>5. ASSUME NEW c \in Callers, AcquireTimedOut(c)
      PROVE  RouterVarsOK'
  <2>1. PICK r \in Results : Finish(c, r)
    BY <1>5 DEF AcquireTimedOut, Results
  <2> QED
    BY <1>5, <2>1, FinishType DEF AcquireTimedOut, laneVars
<1>6. ASSUME NEW c \in Callers, NEW m \in Models, AttemptBegins(c, m)
      PROVE  RouterVarsOK'
  <2>1. /\ UNCHANGED <<keyed, cutting>>
        /\ \E to \in Steps, v \in Verdicts : LaneStep(c, m, to, v)
    <3>1. CASE KeyGone(c, m)
      BY <3>1 DEF KeyGone, Steps, Verdicts
    <3>2. CASE Ask(c, m)
      BY <3>2 DEF Ask, Steps, Verdicts
    <3>3. CASE SpentBudget(c, m)
      BY <3>3 DEF SpentBudget, Steps, Verdicts
    <3> QED
      BY <1>6, <3>1, <3>2, <3>3 DEF AttemptBegins
  <2> QED
    BY <2>1, LaneStepType
<1>7. ASSUME NEW c \in Callers, NEW m \in Models, AttemptEnds(c, m)
      PROVE  RouterVarsOK'
  <2>1. /\ keyed' \subseteq keyed /\ UNCHANGED cutting
        /\ \E v \in Verdicts : LaneStep(c, m, "journal", v)
    <3>1. CASE Answered(c, m) \/ Failed(c, m)
      BY <3>1 DEF Answered, Failed, Verdicts
    <3>2. ASSUME NEW missed, BudgetExpired(c, m, missed)
          PROVE  <2>1!1 /\ <2>1!2
      BY <3>2 DEF BudgetExpired, Verdicts
    <3>3. CASE Rejected(c, m) \/ Crashed(c, m)
      BY <3>3 DEF Rejected, Crashed, Verdicts
    <3>4. CASE Unauthorised(c, m)
      BY <3>4 DEF Unauthorised, Verdicts
    <3> QED
      BY <1>7, <3>1, <3>2, <3>3, <3>4 DEF AttemptEnds
  <2> QED
    BY <2>1, LaneStepType DEF Steps
<1>8. ASSUME NEW c \in Callers, NEW m \in Models, LaneRuns(c, m)
      PROVE  RouterVarsOK'
  <2>1. CASE Cut(c, m)
    <3>1. cutting' \in [Callers -> SUBSET Models]
      BY <2>1 DEF Cut
    <3>2. PICK to \in Steps, v \in Verdicts : LaneStep(c, m, to, v)
      BY <2>1 DEF Cut, Steps, Verdicts
    <3> QED
      BY <2>1, <3>1, <3>2, LaneStepType DEF Cut
  <2>2. CASE StopUnopened(c, m)
    <3>1. cutting' \in [Callers -> SUBSET Models]
      BY <2>2 DEF StopUnopened
    <3> QED
      BY <2>2, <3>1, LaneStepType DEF StopUnopened, Steps, Verdicts
  <2>3. CASE Journal(c, m)
    <3>1. step' \in [Callers -> [Models -> Steps]]
      BY <2>3 DEF Journal, Steps
    <3>2. journaled' \in [Callers -> SUBSET Models]
      BY <2>3 DEF Journal
    <3> QED
      BY <2>3, <3>1, <3>2 DEF Journal, driverVars
  <2> QED
    BY <1>8, <2>1, <2>2, <2>3 DEF LaneRuns
<1>9. ASSUME NEW c \in Callers, AloneEnds(c)
      PROVE  RouterVarsOK'
  <2>1. CASE DoneWith(c, {"answered", "crashed"}) # {}
    <3>1. PICK r \in Results : Finish(c, r)
      BY <1>9, <2>1 DEF AloneEnds, Results
    <3> QED
      BY <1>9, <2>1, <3>1, FinishType DEF AloneEnds, laneVars
  <2>2. CASE DoneWith(c, {"answered", "crashed"}) = {}
    <3>1. Absorb(c) /\ NextRound(c, FailedAfter(c), ErrorAfter(c), ExpiredAfter(c))
      BY <1>9, <2>2 DEF AloneEnds
    <3>2. ErrorAfter(c) \in BOOLEAN
      BY DEF ErrorAfter
    <3>3. /\ clientFailed' \in [Callers -> SUBSET Models]
          /\ clientError' \in [Callers -> BOOLEAN]
          /\ expired' \in [Callers -> BOOLEAN]
      BY <3>1, AbsorbType
    <3> HIDE DEF RouterVarsOK
    <3>4. /\ stage' \in [Callers -> {"fresh", "queue", "alone", "race", "refill", "abandon",
                                      "settle", "over"}]
          /\ result' \in [Callers -> Results]
          /\ live' \in [Callers -> SUBSET Models]
          /\ tried' \in [Callers -> SUBSET Models]
      BY <3>1, <3>2, NextRoundType
    <3>5. UNCHANGED <<keyed, knobs, raceWidth, laneVars>>
      BY <1>9 DEF AloneEnds
    <3> QED
      BY <3>3, <3>4, <3>5 DEF RouterVarsOK, laneVars
  <2> QED
    BY <2>1, <2>2
<1>10. ASSUME NEW c \in Callers, RaceWon(c)
       PROVE  RouterVarsOK'
  <2>1. PICK losers \in SUBSET Models : /\ Supersede(c, losers)
                                        /\ live' = [live EXCEPT ![c] = losers]
    BY <1>10 DEF RaceWon, Ended, DoneWith
  <2>2. cutting' \in [Callers -> SUBSET Models]
    BY <2>1, CancelType DEF Supersede
  <2>3. superseded' \in [Callers -> SUBSET Models]
    BY <2>1 DEF Supersede
  <2> QED
    BY <1>10, <2>1, <2>2, <2>3, AbsorbType DEF RaceWon, Results
<1>11. ASSUME NEW c \in Callers, RaceLost(c)
       PROVE  RouterVarsOK'
  <2> DEFINE left == live[c] \ Ended(c)
  <2>1. Absorb(c) /\ UNCHANGED <<keyed, knobs, raceWidth, laneVars>>
    BY <1>11 DEF RaceLost
  <2>2. CASE GivesUp(c, left)
    <3>1. NextRound(c, FailedAfter(c), ErrorAfter(c), TRUE)
      BY <1>11, <2>2 DEF RaceLost
    <3>2. ErrorAfter(c) \in BOOLEAN
      BY DEF ErrorAfter
    <3>3. /\ clientFailed' \in [Callers -> SUBSET Models]
          /\ clientError' \in [Callers -> BOOLEAN]
          /\ expired' \in [Callers -> BOOLEAN]
      BY <2>1, AbsorbType
    <3> HIDE DEF RouterVarsOK
    <3>4. /\ stage' \in [Callers -> {"fresh", "queue", "alone", "race", "refill", "abandon",
                                      "settle", "over"}]
          /\ result' \in [Callers -> Results]
          /\ live' \in [Callers -> SUBSET Models]
          /\ tried' \in [Callers -> SUBSET Models]
      BY <3>1, <3>2, NextRoundType
    <3> QED
      BY <2>1, <3>3, <3>4 DEF RouterVarsOK, laneVars
  <2>3. CASE ~GivesUp(c, left)
    <3>1. /\ live' = [live EXCEPT ![c] = left]
          /\ stage' = [stage EXCEPT ![c] = IF ExpiredAfter(c) THEN "race" ELSE "refill"]
          /\ UNCHANGED <<tried, result>>
      BY <1>11, <2>3 DEF RaceLost
    <3> QED
      BY <2>1, <3>1, AbsorbType DEF laneVars
  <2> QED
    BY <2>2, <2>3
<1>12. ASSUME NEW c \in Callers, RaceCrashed(c)
       PROVE  RouterVarsOK'
  <2>1. PICK m \in Models : /\ live' = [live EXCEPT ![c] = @ \ {m}]
                            /\ Cancel(c, live[c] \ {m})
    BY <1>12 DEF RaceCrashed, Fatal, DoneWith
  <2>2. cutting' \in [Callers -> SUBSET Models]
    BY <2>1, CancelType
  <2> QED
    BY <1>12, <2>1, <2>2 DEF RaceCrashed, Results
<1>13. ASSUME NEW c \in Callers, Refill(c)
       PROVE  RouterVarsOK'
  <2> DEFINE fresh == held'[c] \ held[c]
  <2>1. fresh \in SUBSET Models /\ OpenLanes(c, fresh)
    BY <1>13 DEF Refill
  <2>2. /\ step' \in [Callers -> [Models -> Steps]]
        /\ verdict' \in [Callers -> [Models -> Verdicts]]
        /\ cutting' \in [Callers -> SUBSET Models]
        /\ superseded' \in [Callers -> SUBSET Models]
        /\ journaled' \in [Callers -> SUBSET Models]
    BY <2>1, OpenLanesType
  <2> QED
    BY <1>13, <2>1, <2>2 DEF Refill
<1>14. ASSUME NEW c \in Callers, NothingToRefill(c)
       PROVE  RouterVarsOK'
  <2>1. CASE live[c] = {}
    <3>1. NextRound(c, clientFailed[c], clientError[c], FALSE)
      BY <1>14, <2>1 DEF NothingToRefill
    <3>2. UNCHANGED <<keyed, knobs, raceWidth, clientFailed, clientError, expired, laneVars>>
      BY <1>14 DEF NothingToRefill
    <3>3. clientError[c] \in BOOLEAN
      OBVIOUS
    <3> HIDE DEF RouterVarsOK
    <3>4. /\ stage' \in [Callers -> {"fresh", "queue", "alone", "race", "refill", "abandon",
                                      "settle", "over"}]
          /\ result' \in [Callers -> Results]
          /\ live' \in [Callers -> SUBSET Models]
          /\ tried' \in [Callers -> SUBSET Models]
      BY <3>1, <3>3, NextRoundType
    <3> QED
      BY <3>2, <3>4 DEF RouterVarsOK, laneVars
  <2>2. CASE live[c] # {}
    BY <1>14, <2>2 DEF NothingToRefill, laneVars
  <2> QED
    BY <2>1, <2>2
<1>15. ASSUME NEW c \in Callers, Settled(c)
       PROVE  RouterVarsOK'
  BY <1>15 DEF Settled, laneVars
<1>16. ASSUME NEW c \in Callers, CancelQueued(c) \/ CancelSettling(c)
       PROVE  RouterVarsOK'
  <2>1. PICK r \in Results : Finish(c, r)
    BY <1>16 DEF CancelQueued, CancelSettling, Results
  <2> QED
    BY <1>16, <2>1, FinishType DEF CancelQueued, CancelSettling, laneVars
<1>17. ASSUME NEW c \in Callers, CancelAlone(c)
       PROVE  RouterVarsOK'
  <2>1. PICK r \in Results : Finish(c, r)
    BY <1>17 DEF CancelAlone, Results
  <2>2. /\ step' \in [Callers -> [Models -> Steps]]
        /\ verdict' \in [Callers -> [Models -> Verdicts]]
        /\ journaled' \in [Callers -> SUBSET Models]
    <3>1. PICK m \in Models :
            /\ step' = [step EXCEPT ![c][m] = "done"] \/ step' = step
            /\ verdict' = [verdict EXCEPT ![c][m] = "cut"] \/ verdict' = verdict
            /\ journaled' = [journaled EXCEPT ![c] = @ \cup {m}] \/ journaled' = journaled
      <4>1. PICK m \in live[c] :
            \/ /\ step' = [step EXCEPT ![c][m] = "done"]
               /\ verdict' = [verdict EXCEPT ![c][m] = "cut"]
               /\ UNCHANGED journaled
            \/ /\ step' = [step EXCEPT ![c][m] = "done"]
               /\ \E written \in SUBSET {m} : journaled' = [journaled EXCEPT ![c] = @ \cup written]
               /\ UNCHANGED verdict
            \/ UNCHANGED <<step, verdict, journaled>>
        BY <1>17 DEF CancelAlone
      <4>2. m \in Models
        OBVIOUS
      <4>3. CASE \E written \in SUBSET {m} : journaled' = [journaled EXCEPT ![c] = @ \cup written]
        <5>1. PICK written \in SUBSET {m} : journaled' = [journaled EXCEPT ![c] = @ \cup written]
          BY <4>3
        <5>2. written = {m} \/ journaled' = journaled
          BY <5>1
        <5> QED
          BY <4>1, <4>2, <5>1, <5>2
      <4> QED
        BY <4>1, <4>2, <4>3
    <3> QED
      BY <3>1, CutShortType
  <2>3. /\ stage' \in [Callers -> {"fresh", "queue", "alone", "race", "refill", "abandon",
                                    "settle", "over"}]
        /\ result' \in [Callers -> Results]
    BY <2>1, FinishType
  <2>4. /\ UNCHANGED <<keyed, knobs, live, tried, raceWidth, clientFailed, clientError, expired>>
        /\ UNCHANGED <<cutting, superseded>>
    BY <1>17 DEF CancelAlone
  <2> QED
    BY <2>2, <2>3, <2>4
<1>18. ASSUME NEW c \in Callers, CancelRace(c)
       PROVE  RouterVarsOK'
  <2>1. cutting' \in [Callers -> SUBSET Models]
    BY <1>18, CancelType DEF CancelRace
  <2> QED
    BY <1>18, <2>1 DEF CancelRace, Results
<1>19. CASE UNCHANGED routerVars
  BY <1>1, <1>19 DEF routerVars
<1>20. ASSUME NEW c \in Callers, AcquireStep(c)
       PROVE  RouterVarsOK'
  BY <1>1, <1>3, <1>4, <1>5, <1>20 DEF AcquireStep, AcquireBlocks
<1>21. ASSUME NEW c \in Callers, Drive(c)
       PROVE  RouterVarsOK'
  BY <1>9, <1>10, <1>11, <1>12, <1>13, <1>14, <1>15, <1>21 DEF Drive
<1>22. ASSUME NEW c \in Callers, CallerCancels(c)
       PROVE  RouterVarsOK'
  BY <1>16, <1>17, <1>18, <1>22 DEF CallerCancels
<1>23. ASSUME NEW c \in Routed,
              \/ \E p \in Waits : Start(c, p)
              \/ AcquireStep(c)
              \/ \E m \in Models : AttemptBegins(c, m) \/ AttemptEnds(c, m) \/ LaneRuns(c, m)
              \/ Drive(c)
              \/ CallerCancels(c)
       PROVE  RouterVarsOK'
  <2>1. c \in Callers
    BY RouterAssumption
  <2> QED
    BY <1>2, <1>6, <1>7, <1>8, <1>20, <1>21, <1>22, <1>23, <2>1
<1>24. CASE \/ AroundAdmin
            \/ \E b \in [Models -> 0 .. MaxBudget] : AroundBounds(b)
            \/ \E m \in Models : AroundCooling(m) \/ AroundBound(m)
            \/ \E c \in Callers \ Routed : AroundCall(c)
            \/ \E c \in Callers : AroundTick(c)
  BY <1>1, <1>24
     DEF AroundAdmin, AroundBounds, AroundCooling, AroundBound, AroundCall, AroundTick, Around
<1>25. CASE \E K \in SUBSET Refs : RingRefreshed(K)
  BY <1>1, <1>25 DEF RingRefreshed
<1> QED
  BY <1>19, <1>23, <1>24, <1>25 DEF RouterNext

-----------------------------------------------------------------------------
(* The driver and its lanes.  That a round leaves no slot behind rests on   *)
(* where the lanes may be at each stage of the call: none between rounds,   *)
(* only the awaited ones in a round, and only cut ones unopened after it.   *)

Driving == {"alone", "race", "refill", "abandon", "settle"}

LaneOK(c) ==
  /\ stage[c] \in Driving => phase[c] = "running"
  /\ phase[c] \in {"queued", "blocked"} => stage[c] = "queue"
  /\ \A m \in Models : m \in held[c] => step[c][m] \in {"opening", "asking"}
  /\ \A m \in Models :
       step[c][m] = "asking" \/ (step[c][m] = "opening" /\ stage[c] # "over") => m \in held[c]
  /\ stage[c] \in {"fresh", "queue"} => \A m \in Models : step[c][m] \in {"none", "done"}
  /\ stage[c] \in {"alone", "race", "refill"} =>
       \A m \in Models : step[c][m] \notin {"none", "done"} => m \in live[c]
  /\ stage[c] = "alone" => \A m, n \in live[c] : m = n
  /\ stage[c] \in {"abandon", "settle"} =>
       \A m \in Models : step[c][m] = "opening" => m \in cutting[c]
  /\ ~LateCancels /\ stage[c] = "over" => \A m \in Models : step[c][m] # "opening"

LanesOK == \A c \in Routed : LaneOK(c)

(* What a step that is not the call's own leaves of it. *)
Stays(c) == phase'[c] = phase[c] \/ (phase[c] = "blocked" /\ phase'[c] = "queued")

PoolAside(c) == held'[c] = held[c] /\ Stays(c)

DriverAside(c) ==
  /\ stage'[c] = stage[c]
  /\ live'[c] = live[c]
  /\ step'[c] = step[c]
  /\ cutting'[c] = cutting[c]

(* A step that is not the call's own keeps its lanes in order. *)
LEMMA AsideKeepsLanes ==
  ASSUME NEW c \in Callers, LaneOK(c), PoolAside(c), DriverAside(c)
  PROVE  LaneOK(c)'
BY DEF LaneOK, PoolAside, Stays, DriverAside

(* The admin and the clock take no slot from a call and wake it at most. *)
LEMMA SurroundingsAside ==
  ASSUME TypeOK, NEW c \in Callers, Admin \/ Clock
  PROVE  PoolAside(c)
<1>1. ASSUME NEW m \in Models, NEW k \in Caps, Add(m, k)
      PROVE  PoolAside(c)
  BY <1>1 DEF Add, NotifyAll, Wake, heldVars, PoolAside, Stays
<1>2. ASSUME NEW m \in Models, Drop(m)
      PROVE  PoolAside(c)
  BY <1>2 DEF Drop, NotifyAll, Wake, PoolAside, Stays
<1>3. ASSUME NEW m \in Models, SetDisabled(m)
      PROVE  PoolAside(c)
  BY <1>3 DEF SetDisabled, callVars, heldVars, PoolAside, Stays
<1>4. ASSUME NEW m \in Models, ClearDisabled(m)
      PROVE  PoolAside(c)
  BY <1>4 DEF ClearDisabled, NotifyAll, Wake, heldVars, PoolAside, Stays
<1>5. ASSUME NEW b, ApplyBudgetBounds(b)
      PROVE  PoolAside(c)
  BY <1>5 DEF ApplyBudgetBounds, callVars, heldVars, PoolAside, Stays
<1>6. ASSUME NEW m \in Models, CoolingElapses(m)
      PROVE  PoolAside(c)
  BY <1>6 DEF CoolingElapses, Wake, heldVars, PoolAside, Stays
<1>7. ASSUME NEW m \in Models, BoundLapses(m)
      PROVE  PoolAside(c)
  BY <1>7 DEF BoundLapses, callVars, heldVars, PoolAside, Stays
<1>8. ASSUME NEW d \in Callers, Tick(d)
      PROVE  PoolAside(c)
  BY <1>8 DEF Tick, Wake, slotVars, heldVars, PoolAside, Stays
<1> QED
  BY <1>1, <1>2, <1>3, <1>4, <1>5, <1>6, <1>7, <1>8 DEF Admin, Clock

(* So does whatever another call does to the pool. *)
LEMMA OtherCallsAside ==
  ASSUME TypeOK, NEW c \in Callers, NEW d \in Callers, c # d, Call(d)
  PROVE  PoolAside(c)
<1>1. ASSUME NEW W, Queue(d, W)
      PROVE  PoolAside(c)
  BY <1>1 DEF Queue, heldVars, PoolAside, Stays, TypeOK
<1>2. ASSUME NEW width, NEW recoveryWidth, Acquire(d, width, recoveryWidth)
      PROVE  PoolAside(c)
  BY <1>2 DEF Acquire, Reserve, PoolAside, Stays, TypeOK
<1>3. ASSUME EndCall(d)
      PROVE  PoolAside(c)
  BY <1>3 DEF EndCall, heldVars, PoolAside, Stays, TypeOK
<1>4. ASSUME Block(d)
      PROVE  PoolAside(c)
  BY <1>4 DEF Block, heldVars, PoolAside, Stays, TypeOK
<1>5. ASSUME NEW W, NEW needed, TakeFree(d, W, needed)
      PROVE  PoolAside(c)
  BY <1>5 DEF TakeFree, Reserve, PoolAside, Stays, TypeOK
<1>6. ASSUME NEW m, HandBack(d, m)
      PROVE  PoolAside(c)
  BY <1>6 DEF HandBack, NotifyAll, Wake, PoolAside, Stays, TypeOK
<1>7. ASSUME NEW m, Settle(d, m)
      PROVE  PoolAside(c)
  BY <1>6, <1>7 DEF Settle, Release, FinishOk, CoolDown
<1>8. ASSUME Evaluate(d)
      PROVE  PoolAside(c)
  BY <1>2, <1>3, <1>4, <1>8 DEF Evaluate, Exhausted, TimedOut
<1> QED
  BY <1>1, <1>3, <1>5, <1>7, <1>8 DEF Call, Enter, Reenter, CancelQueue, Leave

(* A slot the call hands back leaves it its other slots and its place. *)
LEMMA SettlingOne ==
  ASSUME TypeOK, NEW c \in Callers, NEW m \in Models, Settle(c, m)
  PROVE  /\ held'[c] = held[c] \ {m}
         /\ Stays(c)
<1>1. HandBack(c, m)
  BY DEF Settle, Release, FinishOk, CoolDown
<1> QED
  BY <1>1 DEF HandBack, NotifyAll, Wake, Stays, TypeOK

-----------------------------------------------------------------------------
(* Whatever a call does to the pool is one of the pool's operations. *)

RoutedStep(c) ==
  \/ \E p \in Waits : Start(c, p)
  \/ AcquireStep(c)
  \/ \E m \in Models : AttemptBegins(c, m) \/ AttemptEnds(c, m) \/ LaneRuns(c, m)
  \/ Drive(c)
  \/ CallerCancels(c)

PoolCall(c) == Call(c) \/ UNCHANGED vars

(* Once every lane of a round is done the call holds nothing. *)
LEMMA NothingHeldBetweenRounds ==
  ASSUME TypeOK, NEW c \in Callers, LaneOK(c), stage[c] \in {"alone", "race", "refill"},
         \A m \in live[c] : step[c][m] = "done"
  PROVE  held[c] = {} /\ phase[c] = "running"
<1>1. \A m \in Models : m \notin held[c]
  BY DEF LaneOK
<1>2. held[c] \subseteq Models
  BY DEF TypeOK
<1> QED
  BY <1>1, <1>2 DEF LaneOK, Driving

(* A call that ends with nothing held leaves the pool. *)
LEMMA EndingIsLeaving ==
  ASSUME NEW c \in Callers, phase[c] = "running", held[c] = {}, EndCall(c), UNCHANGED slotVars
  PROVE  Call(c)
BY DEF Leave, Call

(* The end of a failed round is a Leave or a Reenter of the pool. *)
LEMMA NextRoundIsPoolCall ==
  ASSUME NEW c \in Callers, NEW failed, NEW error, NEW gone,
         phase[c] = "running", held[c] = {}, NextRound(c, failed, error, gone)
  PROVE  Call(c)
<1>1. CASE gone
  BY <1>1, EndingIsLeaving DEF NextRound
<1>2. CASE ~gone
  <2>1. Payable \ failed \in SUBSET Models
    BY DEF Payable
  <2>2. Reenter(c, Payable \ failed)
    BY <1>2 DEF NextRound, Reenter
  <2> QED
    BY <2>1, <2>2 DEF Call
<1> QED
  BY <1>1, <1>2

(* Whatever the driver decides is a pool operation or none. *)
LEMMA DriveIsPoolCall ==
  ASSUME TypeOK, RouterVarsOK, NEW c \in Callers, LaneOK(c), Drive(c)
  PROVE  PoolCall(c)
<1>1. CASE AloneEnds(c)
  <2>1. held[c] = {} /\ phase[c] = "running"
    BY <1>1, NothingHeldBetweenRounds DEF AloneEnds
  <2>2. \/ EndCall(c) /\ UNCHANGED slotVars
        \/ NextRound(c, FailedAfter(c), ErrorAfter(c), ExpiredAfter(c))
    BY <1>1 DEF AloneEnds
  <2> QED
    BY <2>1, <2>2, EndingIsLeaving, NextRoundIsPoolCall DEF PoolCall
<1>2. CASE RaceWon(c) \/ RaceCrashed(c)
  BY <1>2 DEF RaceWon, RaceCrashed, PoolCall
<1>3. CASE RaceLost(c)
  <2>1. CASE GivesUp(c, live[c] \ Ended(c))
    <3>1. \A m \in live[c] : step[c][m] = "done"
      BY <2>1 DEF GivesUp, Ended
    <3>2. held[c] = {} /\ phase[c] = "running"
      BY <1>3, <3>1, NothingHeldBetweenRounds DEF RaceLost
    <3>3. NextRound(c, FailedAfter(c), ErrorAfter(c), TRUE)
      BY <1>3, <2>1 DEF RaceLost
    <3> QED
      BY <3>2, <3>3, NextRoundIsPoolCall DEF PoolCall
  <2>2. CASE ~GivesUp(c, live[c] \ Ended(c))
    BY <1>3, <2>2 DEF RaceLost, PoolCall
  <2> QED
    BY <2>1, <2>2
<1>4. CASE Refill(c)
  <2>1. Cardinality(live[c]) \in Nat
    BY SubsetCardinality DEF RouterVarsOK
  <2>2. Needed(c) \in 1 .. Cardinality(Models)
    <3>1. Cardinality(Models) \in Nat
      BY PoolAssumption, FS_CardinalityType
    <3> QED
      BY <1>4, <2>1, <3>1 DEF Refill, CanRefill, Needed, RouterVarsOK
  <2>3. Untried(c) \in SUBSET Models
    BY DEF Untried, Payable
  <2> QED
    BY <1>4, <2>2, <2>3 DEF Refill, Call, PoolCall
<1>5. CASE NothingToRefill(c)
  <2>1. CASE live[c] = {}
    <3>1. held[c] = {} /\ phase[c] = "running"
      BY <1>5, <2>1, NothingHeldBetweenRounds DEF NothingToRefill
    <3>2. NextRound(c, clientFailed[c], clientError[c], FALSE)
      BY <1>5, <2>1 DEF NothingToRefill
    <3> QED
      BY <3>1, <3>2, NextRoundIsPoolCall DEF PoolCall
  <2>2. CASE live[c] # {}
    BY <1>5, <2>2 DEF NothingToRefill, PoolCall
  <2> QED
    BY <2>1, <2>2
<1>6. CASE Settled(c)
  <2>1. \A m \in Models : m \notin held[c]
    BY <1>6 DEF Settled, LaneOK
  <2>2. held[c] = {}
    BY <2>1 DEF TypeOK
  <2>3. phase[c] = "running"
    BY <1>6 DEF Settled, LaneOK, Driving
  <2> QED
    BY <1>6, <2>2, <2>3, EndingIsLeaving DEF Settled, PoolCall
<1> QED
  BY <1>1, <1>2, <1>3, <1>4, <1>5, <1>6 DEF Drive

(* Whatever a lane does settles one slot or none. *)
LEMMA LanesArePoolCalls ==
  ASSUME NEW c \in Callers, NEW m \in Models,
         AttemptBegins(c, m) \/ AttemptEnds(c, m) \/ LaneRuns(c, m)
  PROVE  Settle(c, m) \/ UNCHANGED vars
<1>1. CASE AttemptBegins(c, m)
  BY <1>1 DEF AttemptBegins, KeyGone, Ask, SpentBudget, Settle
<1>2. CASE AttemptEnds(c, m)
  <2>1. 0 \in 0 .. MaxBudget /\ 1 .. MaxBudget \subseteq 0 .. MaxBudget
    BY PoolAssumption
  <2>2. CASE \E missed \in 1 .. MaxBudget : BudgetExpired(c, m, missed)
    BY <2>1, <2>2 DEF BudgetExpired, Settle
  <2>3. CASE ~\E missed \in 1 .. MaxBudget : BudgetExpired(c, m, missed)
    BY <1>2, <2>1, <2>3
       DEF AttemptEnds, Answered, Failed, Rejected, Unauthorised, Crashed, Settle
  <2> QED
    BY <2>2, <2>3
<1>3. CASE LaneRuns(c, m)
  BY <1>3 DEF LaneRuns, Cut, StopUnopened, Journal, Settle
<1> QED
  BY <1>1, <1>2, <1>3

(* So every step of a routed call is a step of that call on the pool. *)
LEMMA RoutedIsPoolCall ==
  ASSUME TypeOK, RouterVarsOK, NEW c \in Callers, LaneOK(c), RoutedStep(c)
  PROVE  PoolCall(c)
<1>1. ASSUME NEW p \in Waits, Start(c, p)
      PROVE  PoolCall(c)
  <2>1. Payable \in SUBSET Models
    BY DEF Payable
  <2> QED
    BY <1>1, <2>1 DEF Start, Call, PoolCall
<1>2. ASSUME AcquireStep(c)
      PROVE  PoolCall(c)
  <2>1. knobs[c].width \in Widths /\ knobs[c].recovery \in {1, 2}
    BY RouterAssumption DEF RouterVarsOK, Knobs
  <2>2. Evaluate(c)
    BY <1>2, <2>1
       DEF AcquireStep, AcquireLanes, AcquireExhausted, AcquireTimedOut, AcquireBlocks, Evaluate
  <2> QED
    BY <2>2 DEF Call, PoolCall
<1>3. ASSUME NEW m \in Models, AttemptBegins(c, m) \/ AttemptEnds(c, m) \/ LaneRuns(c, m)
      PROVE  PoolCall(c)
  BY <1>3, LanesArePoolCalls DEF Call, PoolCall
<1>4. ASSUME CallerCancels(c)
      PROVE  PoolCall(c)
  <2>1. CASE CancelQueued(c)
    BY <2>1 DEF CancelQueued, Call, PoolCall
  <2>2. CASE CancelAlone(c)
    <3>1. live[c] \subseteq Models
      BY DEF RouterVarsOK
    <3>2. UNCHANGED vars \/ \E m \in live[c] : Release(c, m)
      BY <2>2 DEF CancelAlone
    <3> QED
      BY <3>1, <3>2 DEF Settle, Call, PoolCall
  <2>3. CASE CancelRace(c) \/ CancelSettling(c)
    BY <2>3 DEF CancelRace, CancelSettling, PoolCall
  <2> QED
    BY <1>4, <2>1, <2>2, <2>3 DEF CallerCancels
<1> QED
  BY <1>1, <1>2, <1>3, <1>4, DriveIsPoolCall DEF RoutedStep

(* The surroundings of the router are the pool's. *)
LEMMA AroundIsPoolStep ==
  ASSUME \/ AroundAdmin
         \/ \E b \in [Models -> 0 .. MaxBudget] : AroundBounds(b)
         \/ \E m \in Models : AroundCooling(m) \/ AroundBound(m)
         \/ \E c \in Callers : AroundTick(c)
  PROVE  (Admin \/ Clock) /\ Around
<1>1. CASE AroundAdmin
  BY <1>1, RouterAssumption DEF AroundAdmin, Admin
<1>2. CASE \E b \in [Models -> 0 .. MaxBudget] : AroundBounds(b)
  BY <1>2 DEF AroundBounds, Admin
<1>3. CASE \E m \in Models : AroundCooling(m) \/ AroundBound(m)
  BY <1>3 DEF AroundCooling, AroundBound, Clock
<1>4. CASE \E c \in Callers : AroundTick(c)
  BY <1>4 DEF AroundTick, Clock
<1> QED
  BY <1>1, <1>2, <1>3, <1>4

(* Another call does only what the pool admits of a call. *)
LEMMA AroundCallIsPoolCall ==
  ASSUME NEW c \in Callers, AroundCall(c)
  PROVE  Call(c) /\ Around
<1>1. Models \in SUBSET Models /\ Forever \in Waits
  BY DEF Waits
<1>2. ASSUME Enter(c, Models, Forever)
      PROVE  Call(c)
  BY <1>1, <1>2 DEF Call
<1>3. ASSUME Acquire(c, 1, 1)
      PROVE  Call(c)
  BY <1>3, PoolAssumption DEF Evaluate, Call
<1>4. ASSUME Block(c) \/ Exhausted(c)
      PROVE  Call(c)
  BY <1>4 DEF Evaluate, Call
<1>5. ASSUME (\E m \in Models : Settle(c, m)) \/ Leave(c)
      PROVE  Call(c)
  BY <1>5 DEF Call
<1>6. Around
  BY DEF AroundCall
<1> QED
  BY <1>2, <1>3, <1>4, <1>5, <1>6 DEF AroundCall

(* The steps of the router, told apart by whose they are. *)
LEMMA RouterStepKinds ==
  ASSUME [RouterNext]_routerVars
  PROVE  \/ \E c \in Routed : RoutedStep(c)
         \/ (Admin \/ Clock) /\ Around
         \/ \E c \in Callers \ Routed : Call(c) /\ Around
         \/ UNCHANGED <<vars, driverVars, laneVars>>
<1>1. CASE \E c \in Callers \ Routed : AroundCall(c)
  BY <1>1, AroundCallIsPoolCall
<1>2. CASE \E K \in SUBSET Refs : RingRefreshed(K)
  BY <1>2 DEF RingRefreshed
<1>3. CASE UNCHANGED routerVars
  BY <1>3 DEF routerVars
<1> QED
  BY <1>1, <1>2, <1>3, AroundIsPoolStep DEF RouterNext, RoutedStep

(* Together: every step of the router is a step of the pool or a stutter. *)
LEMMA RouterImplementsPoolStep ==
  ASSUME TypeOK, RouterVarsOK, LanesOK, [RouterNext]_routerVars
  PROVE  [Next]_vars
<1>1. ASSUME NEW c \in Routed, RoutedStep(c)
      PROVE  [Next]_vars
  <2>1. c \in Callers /\ LaneOK(c)
    BY RouterAssumption DEF LanesOK
  <2>2. PoolCall(c)
    BY <1>1, <2>1, RoutedIsPoolCall
  <2> QED
    BY <2>1, <2>2 DEF PoolCall, Next
<1> QED
  BY <1>1, RouterStepKinds DEF Next

-----------------------------------------------------------------------------
(* No action of one call touches another's stage, lanes or cancellations. *)
LEMMA OtherDriversAside ==
  ASSUME RouterVarsOK, NEW c \in Callers, NEW d \in Callers, c # d, RoutedStep(d)
  PROVE  DriverAside(c)
<1> USE DEF RouterVarsOK, DriverAside
<1>1. ASSUME NEW r, Finish(d, r)
      PROVE  stage'[c] = stage[c]
  BY <1>1 DEF Finish
<1>2. ASSUME NEW S, OpenLanes(d, S)
      PROVE  step'[c] = step[c] /\ cutting'[c] = cutting[c]
  BY <1>2 DEF OpenLanes
<1>3. ASSUME NEW S, Cancel(d, S)
      PROVE  cutting'[c] = cutting[c]
  BY <1>3 DEF Cancel
<1>4. ASSUME NEW failed, NEW error, NEW gone, NextRound(d, failed, error, gone)
      PROVE  stage'[c] = stage[c] /\ live'[c] = live[c]
  BY <1>1, <1>4 DEF NextRound
<1>5. ASSUME NEW m, NEW to, NEW v, LaneStep(d, m, to, v), cutting'[c] = cutting[c]
      PROVE  DriverAside(c)
  BY <1>5 DEF LaneStep, driverVars
<1>6. ASSUME NEW p, Start(d, p)
      PROVE  DriverAside(c)
  BY <1>6 DEF Start, laneVars
<1>7. ASSUME AcquireStep(d)
      PROVE  DriverAside(c)
  <2>1. CASE AcquireLanes(d)
    BY <1>2, <2>1 DEF AcquireLanes
  <2>2. CASE AcquireExhausted(d) \/ AcquireTimedOut(d)
    BY <1>1, <2>2 DEF AcquireExhausted, AcquireTimedOut, laneVars
  <2>3. CASE AcquireBlocks(d)
    BY <2>3 DEF AcquireBlocks, driverVars, laneVars
  <2> QED
    BY <1>7, <2>1, <2>2, <2>3 DEF AcquireStep
<1>8. ASSUME NEW m \in Models, AttemptBegins(d, m)
      PROVE  DriverAside(c)
  BY <1>5, <1>8 DEF AttemptBegins, KeyGone, Ask, SpentBudget
<1>9. ASSUME NEW m \in Models, AttemptEnds(d, m)
      PROVE  DriverAside(c)
  BY <1>5, <1>9
     DEF AttemptEnds, Answered, Failed, BudgetExpired, Rejected, Unauthorised, Crashed
<1>10. ASSUME NEW m \in Models, LaneRuns(d, m)
       PROVE  DriverAside(c)
  <2>1. CASE Cut(d, m) \/ StopUnopened(d, m)
    BY <1>5, <2>1 DEF Cut, StopUnopened
  <2>2. CASE Journal(d, m)
    BY <2>2 DEF Journal, driverVars
  <2> QED
    BY <1>10, <2>1, <2>2 DEF LaneRuns
<1>11. ASSUME Drive(d)
       PROVE  DriverAside(c)
  <2>1. CASE AloneEnds(d)
    BY <1>1, <1>4, <2>1 DEF AloneEnds, laneVars
  <2>2. CASE RaceWon(d)
    BY <1>3, <2>2 DEF RaceWon, Supersede
  <2>3. CASE RaceLost(d)
    BY <1>4, <2>3 DEF RaceLost, laneVars
  <2>4. CASE RaceCrashed(d)
    BY <1>3, <2>4 DEF RaceCrashed
  <2>5. CASE Refill(d)
    BY <1>2, <2>5 DEF Refill
  <2>6. CASE NothingToRefill(d)
    BY <1>4, <2>6 DEF NothingToRefill, laneVars
  <2>7. CASE Settled(d)
    BY <2>7 DEF Settled, laneVars
  <2> QED
    BY <1>11, <2>1, <2>2, <2>3, <2>4, <2>5, <2>6, <2>7 DEF Drive
<1>12. ASSUME CallerCancels(d)
       PROVE  DriverAside(c)
  <2>1. CASE CancelQueued(d) \/ CancelSettling(d)
    BY <1>1, <2>1 DEF CancelQueued, CancelSettling, laneVars
  <2>2. CASE CancelAlone(d)
    BY <1>1, <2>2 DEF CancelAlone
  <2>3. CASE CancelRace(d)
    BY <1>3, <2>3 DEF CancelRace
  <2> QED
    BY <1>12, <2>1, <2>2, <2>3 DEF CallerCancels
<1> QED
  BY <1>6, <1>7, <1>8, <1>9, <1>10, <1>11, <1>12 DEF RoutedStep

-----------------------------------------------------------------------------
(* A call's own steps keep its lanes in order. *)

(* The call is over; the lanes may still be at their providers. *)
LEMMA OverKeepsLanes ==
  ASSUME NEW c \in Callers, LaneOK(c),
         stage'[c] = "over", step'[c] = step[c], held'[c] = held[c],
         phase'[c] \in {"idle", "running"},
         ~LateCancels => \A m \in Models : step[c][m] # "opening"
  PROVE  LaneOK(c)'
BY DEF LaneOK, Driving

(* Between rounds there is no lane, and no slot. *)
LEMMA QueueKeepsLanes ==
  ASSUME NEW c \in Callers, LaneOK(c),
         stage'[c] = "queue", step'[c] = step[c], held'[c] = held[c],
         \A m \in Models : step[c][m] \in {"none", "done"}
  PROVE  LaneOK(c)'
BY DEF LaneOK, Driving

(* The round goes on with the lanes it has, less some that are done. *)
LEMMA RoundKeepsLanes ==
  ASSUME NEW c \in Callers, LaneOK(c), stage[c] \in {"race", "refill"},
         stage'[c] \in {"race", "refill"}, UNCHANGED vars, step'[c] = step[c],
         \A m \in live[c] : m \in live'[c] \/ step[c][m] = "done"
  PROVE  LaneOK(c)'
BY DEF LaneOK, Driving, vars, callVars, heldVars

(* The round is over but for the lanes it has cut. *)
LEMMA CuttingKeepsLanes ==
  ASSUME TypeOK, RouterVarsOK, NEW c \in Callers, LaneOK(c), stage[c] \in {"race", "refill"},
         stage'[c] \in {"abandon", "settle"}, UNCHANGED vars, step'[c] = step[c],
         NEW S \in SUBSET Models, Cancel(c, S),
         \A m \in live[c] : m \in S \/ step[c][m] = "done"
  PROVE  LaneOK(c)'
<1>1. \A m \in Models : step[c][m] = "opening" => m \in cutting'[c]
  BY DEF Cancel, Settling, LaneOK, RouterVarsOK
<1> QED
  BY <1>1 DEF LaneOK, Driving, vars, callVars, heldVars

(* A round that failed as a whole leaves no lane behind. *)
LEMMA NextRoundKeepsLanes ==
  ASSUME TypeOK, RouterVarsOK, NEW c \in Callers, LaneOK(c),
         stage[c] \in {"alone", "race", "refill"}, \A m \in live[c] : step[c][m] = "done",
         NEW failed, NEW error, NEW gone, NextRound(c, failed, error, gone), UNCHANGED laneVars
  PROVE  LaneOK(c)'
<1>1. \A m \in Models : step[c][m] \in {"none", "done"}
  BY DEF LaneOK
<1>2. step'[c] = step[c] /\ held'[c] = held[c]
  BY DEF laneVars, NextRound, EndCall, Queue, heldVars
<1>3. \/ stage'[c] = "over" /\ phase'[c] = "idle"
      \/ stage'[c] = "queue"
  BY DEF NextRound, EndCall, Finish, RouterVarsOK, TypeOK
<1> QED
  BY <1>1, <1>2, <1>3, OverKeepsLanes, QueueKeepsLanes

(* The driver's decisions keep the lanes in order. *)
LEMMA DriveKeepsLanes ==
  ASSUME TypeOK, RouterVarsOK, NEW c \in Callers, LaneOK(c), Drive(c)
  PROVE  LaneOK(c)'
<1>1. CASE AloneEnds(c)
  <2>1. stage[c] = "alone" /\ \A m \in live[c] : step[c][m] = "done"
    BY <1>1 DEF AloneEnds
  <2>2. UNCHANGED laneVars
    BY <1>1 DEF AloneEnds
  <2>3. CASE DoneWith(c, {"answered", "crashed"}) # {}
    <3>1. stage'[c] = "over"
      BY <1>1, <2>3 DEF AloneEnds, Finish, RouterVarsOK
    <3>2. held'[c] = held[c] /\ phase'[c] = "idle"
      BY <1>1, <2>3 DEF AloneEnds, EndCall, heldVars, TypeOK
    <3>3. \A m \in Models : step[c][m] # "opening"
      BY <2>1 DEF LaneOK
    <3> QED
      BY <2>2, <3>1, <3>2, <3>3, OverKeepsLanes DEF laneVars
  <2>4. CASE DoneWith(c, {"answered", "crashed"}) = {}
    <3>1. NextRound(c, FailedAfter(c), ErrorAfter(c), ExpiredAfter(c))
      BY <1>1, <2>4 DEF AloneEnds
    <3> QED
      BY <2>1, <2>2, <3>1, NextRoundKeepsLanes
  <2> QED
    BY <2>3, <2>4
<1>2. CASE RaceWon(c)
  <2>1. PICK winner \in DoneWith(c, {"answered"}) :
          Supersede(c, (live[c] \ Ended(c)) \cup (DoneWith(c, {"answered"}) \ {winner}))
    BY <1>2 DEF RaceWon
  <2> DEFINE losers == (live[c] \ Ended(c)) \cup (DoneWith(c, {"answered"}) \ {winner})
  <2>2. losers \in SUBSET Models /\ \A m \in live[c] : m \in losers \/ step[c][m] = "done"
    BY DEF Ended, DoneWith, RouterVarsOK
  <2>3. stage[c] = "race" /\ stage'[c] = "settle" /\ UNCHANGED vars /\ step'[c] = step[c]
    BY <1>2 DEF RaceWon, RouterVarsOK
  <2> QED
    BY <2>1, <2>2, <2>3, CuttingKeepsLanes DEF Supersede
<1>3. CASE RaceLost(c)
  <2>1. stage[c] = "race" /\ UNCHANGED laneVars
    BY <1>3 DEF RaceLost
  <2>2. CASE GivesUp(c, live[c] \ Ended(c))
    <3>1. \A m \in live[c] : step[c][m] = "done"
      BY <2>2 DEF GivesUp, Ended
    <3>2. NextRound(c, FailedAfter(c), ErrorAfter(c), TRUE)
      BY <1>3, <2>2 DEF RaceLost
    <3> QED
      BY <2>1, <3>1, <3>2, NextRoundKeepsLanes
  <2>3. CASE ~GivesUp(c, live[c] \ Ended(c))
    <3>1. /\ stage'[c] \in {"race", "refill"}
          /\ live'[c] = live[c] \ Ended(c)
          /\ UNCHANGED vars
      BY <1>3, <2>3 DEF RaceLost, RouterVarsOK
    <3>2. \A m \in live[c] : m \in live'[c] \/ step[c][m] = "done"
      BY <3>1 DEF Ended
    <3> QED
      BY <2>1, <3>1, <3>2, RoundKeepsLanes DEF laneVars
  <2> QED
    BY <2>2, <2>3
<1>4. CASE RaceCrashed(c)
  <2>1. PICK m \in Fatal(c) : Cancel(c, live[c] \ {m})
    BY <1>4 DEF RaceCrashed
  <2>2. live[c] \ {m} \in SUBSET Models
    BY DEF RouterVarsOK
  <2>3. \A n \in live[c] : n \in live[c] \ {m} \/ step[c][n] = "done"
    BY DEF Fatal, DoneWith
  <2>4. stage[c] = "race" /\ stage'[c] = "abandon" /\ UNCHANGED vars /\ step'[c] = step[c]
    BY <1>4 DEF RaceCrashed, RouterVarsOK
  <2> QED
    BY <2>1, <2>2, <2>3, <2>4, CuttingKeepsLanes
<1>5. CASE Refill(c)
  <2>1. phase'[c] = "running" /\ held[c] \subseteq held'[c] /\ held'[c] \subseteq Models
    <3>1. PICK S \in Selections(FreeAmong(Untried(c)), Needed(c), 1, c) : Reserve(c, S)
      BY <1>5 DEF Refill, TakeFree
    <3>2. S \subseteq Models
      BY SelectionWithin, FreeAmongMembers DEF TypeOK
    <3> QED
      BY <1>5, <3>1, <3>2 DEF Refill, TakeFree, Reserve, TypeOK
  <2> DEFINE fresh == held'[c] \ held[c]
  <2>2. stage[c] = "refill" /\ stage'[c] = "race" /\ live'[c] = live[c] \cup fresh
    BY <1>5 DEF Refill, RouterVarsOK
  <2>3. step'[c] = [m \in Models |-> IF m \in fresh THEN "opening" ELSE step[c][m]]
    BY <1>5 DEF Refill, OpenLanes, RouterVarsOK
  <2> QED
    BY <2>1, <2>2, <2>3 DEF LaneOK, Driving
<1>6. CASE NothingToRefill(c)
  <2>1. stage[c] = "refill" /\ UNCHANGED laneVars
    BY <1>6 DEF NothingToRefill
  <2>2. CASE live[c] = {}
    <3>1. NextRound(c, clientFailed[c], clientError[c], FALSE)
      BY <1>6, <2>2 DEF NothingToRefill
    <3> QED
      BY <2>1, <2>2, <3>1, NextRoundKeepsLanes
  <2>3. CASE live[c] # {}
    <3>1. stage'[c] = "race" /\ live'[c] = live[c] /\ UNCHANGED vars
      BY <1>6, <2>3 DEF NothingToRefill, RouterVarsOK
    <3> QED
      BY <2>1, <3>1, RoundKeepsLanes DEF laneVars
  <2> QED
    BY <2>2, <2>3
<1>7. CASE Settled(c)
  <2>1. /\ stage'[c] = "over" /\ phase'[c] = "idle"
        /\ step'[c] = step[c] /\ held'[c] = held[c]
    BY <1>7 DEF Settled, laneVars, EndCall, heldVars, RouterVarsOK, TypeOK
  <2>2. \A m \in Models : step[c][m] # "opening"
    BY <1>7 DEF Settled
  <2> QED
    BY <2>1, <2>2, OverKeepsLanes
<1> QED
  BY <1>1, <1>2, <1>3, <1>4, <1>5, <1>6, <1>7 DEF Drive

(* A lane at its provider, or before it, hands its slot back and settles. *)
LEMMA SettlingKeepsLanes ==
  ASSUME TypeOK, RouterVarsOK, NEW c \in Callers, LaneOK(c), NEW m \in Models, Settle(c, m),
         step[c][m] \in {"opening", "asking"}, NEW to \in {"journal", "done"},
         step' = [step EXCEPT ![c][m] = to], stage' = stage, live' = live,
         cutting[c] \ {m} \subseteq cutting'[c]
  PROVE  LaneOK(c)'
<1>1. /\ held'[c] = held[c] \ {m}
      /\ Stays(c)
  BY SettlingOne
<1>2. step'[c] = [n \in Models |-> IF n = m THEN to ELSE step[c][n]]
  BY DEF RouterVarsOK
<1> QED
  BY <1>1, <1>2 DEF LaneOK, Driving, Stays

(* The lanes' own steps do. *)
LEMMA LanesKeepLanes ==
  ASSUME TypeOK, RouterVarsOK, NEW c \in Callers, LaneOK(c), NEW m \in Models,
         AttemptBegins(c, m) \/ AttemptEnds(c, m) \/ LaneRuns(c, m)
  PROVE  LaneOK(c)'
<1>1. ASSUME NEW to \in {"journal", "done"}, NEW v, LaneStep(c, m, to, v), Settle(c, m),
             step[c][m] \in {"opening", "asking"}, cutting[c] \ {m} \subseteq cutting'[c]
      PROVE  LaneOK(c)'
  BY <1>1, SettlingKeepsLanes DEF LaneStep, driverVars
<1>2. CASE AttemptBegins(c, m)
  <2>1. CASE KeyGone(c, m)
    BY <1>1, <2>1 DEF KeyGone, Opening, Settle
  <2>2. CASE SpentBudget(c, m)
    BY <1>1, <2>2 DEF SpentBudget, Opening, Settle
  <2>3. CASE Ask(c, m)
    <3>1. step'[c] = [n \in Models |-> IF n = m THEN "asking" ELSE step[c][n]]
      BY <2>3 DEF Ask, LaneStep, RouterVarsOK
    <3>2. /\ step[c][m] = "opening" /\ stage[c] # "over"
          /\ UNCHANGED <<vars, stage, live, cutting>>
      BY <2>3 DEF Ask, LaneStep, Opening, driverVars
    <3> QED
      BY <3>1, <3>2 DEF LaneOK, Driving, vars, callVars, heldVars
  <2> QED
    BY <1>2, <2>1, <2>2, <2>3 DEF AttemptBegins
<1>3. CASE AttemptEnds(c, m)
  <2>1. 0 \in 0 .. MaxBudget /\ 1 .. MaxBudget \subseteq 0 .. MaxBudget
    BY PoolAssumption
  <2>2. /\ step[c][m] = "asking" /\ UNCHANGED cutting
        /\ \E v : LaneStep(c, m, "journal", v)
    BY <1>3 DEF AttemptEnds, Asking, Answered, Failed, BudgetExpired, Rejected, Unauthorised, Crashed
  <2>3. Settle(c, m)
    <3>1. CASE \E missed \in 1 .. MaxBudget : BudgetExpired(c, m, missed)
      BY <2>1, <3>1 DEF BudgetExpired, Settle
    <3>2. CASE ~\E missed \in 1 .. MaxBudget : BudgetExpired(c, m, missed)
      BY <1>3, <2>1, <3>2
         DEF AttemptEnds, Answered, Failed, Rejected, Unauthorised, Crashed, Settle
    <3> QED
      BY <3>1, <3>2
  <2> QED
    BY <1>1, <2>2, <2>3
<1>4. CASE LaneRuns(c, m)
  <2>1. CASE Cut(c, m)
    <3>1. cutting[c] \ {m} \subseteq cutting'[c]
      BY <2>1 DEF Cut, RouterVarsOK
    <3>2. \E to \in {"journal", "done"}, v \in Verdicts : LaneStep(c, m, to, v)
      BY <2>1 DEF Cut, Verdicts
    <3> QED
      BY <1>1, <2>1, <3>1, <3>2 DEF Cut, Settle
  <2>2. CASE StopUnopened(c, m)
    <3>1. cutting[c] \ {m} \subseteq cutting'[c]
      BY <2>2 DEF StopUnopened, RouterVarsOK
    <3> QED
      BY <1>1, <2>2, <3>1 DEF StopUnopened, Unopened, Settle
  <2>3. CASE Journal(c, m)
    <3>1. step'[c] = [n \in Models |-> IF n = m THEN "done" ELSE step[c][n]]
      BY <2>3 DEF Journal, RouterVarsOK
    <3>2. /\ step[c][m] = "journal"
          /\ UNCHANGED <<vars, stage, live, cutting>>
      BY <2>3 DEF Journal, driverVars
    <3> QED
      BY <3>1, <3>2 DEF LaneOK, Driving, vars, callVars, heldVars
  <2> QED
    BY <1>4, <2>1, <2>2, <2>3 DEF LaneRuns
<1> QED
  BY <1>2, <1>3, <1>4

(* Queueing and opening a round do. *)
LEMMA QueueingKeepsLanes ==
  ASSUME TypeOK, RouterVarsOK, NEW c \in Callers, LaneOK(c),
         (\E p \in Waits : Start(c, p)) \/ AcquireStep(c)
  PROVE  LaneOK(c)'
<1>1. ASSUME NEW p, Start(c, p)
      PROVE  LaneOK(c)'
  <2>1. stage[c] = "fresh" /\ stage'[c] = "queue" /\ step'[c] = step[c] /\ held'[c] = held[c]
    BY <1>1 DEF Start, Enter, Queue, heldVars, laneVars, RouterVarsOK
  <2> QED
    BY <2>1, QueueKeepsLanes DEF LaneOK
<1>2. ASSUME AcquireStep(c)
      PROVE  stage[c] = "queue" /\ \A m \in Models : step[c][m] \in {"none", "done"}
  <2>1. phase[c] = "queued"
    BY <1>2 DEF AcquireStep, AcquireLanes, AcquireExhausted, AcquireTimedOut, AcquireBlocks,
                Acquire, Exhausted, TimedOut, Block
  <2> QED
    BY <2>1 DEF LaneOK
<1>3. CASE AcquireLanes(c)
  <2> DEFINE taken == held'[c]
  <2>1. \A m \in Models : step[c][m] \in {"none", "done"}
    BY <1>2, <1>3 DEF AcquireStep
  <2>2. phase'[c] = "running" /\ taken \subseteq Models
    <3>1. PICK S \in Selections(FreeAmong(want[c]), knobs[c].width, knobs[c].recovery, c) :
            Reserve(c, S)
      BY <1>3 DEF AcquireLanes, Acquire
    <3>2. S \subseteq Models
      BY SelectionWithin, FreeAmongMembers DEF TypeOK
    <3> QED
      BY <1>3, <3>1, <3>2 DEF AcquireLanes, Acquire, Reserve, TypeOK
  <2>3. /\ stage'[c] = IF Cardinality(taken) = 1 THEN "alone" ELSE "race"
        /\ live'[c] = taken
    BY <1>3 DEF AcquireLanes, RouterVarsOK
  <2>4. step'[c] = [m \in Models |-> IF m \in taken THEN "opening" ELSE step[c][m]]
    BY <1>3 DEF AcquireLanes, OpenLanes, RouterVarsOK
  <2>5. Cardinality(taken) = 1 => \A m, n \in taken : m = n
    BY <2>2, SubsetCardinality, FS_Singleton
  <2> QED
    BY <2>1, <2>2, <2>3, <2>4, <2>5 DEF LaneOK, Driving
<1>4. CASE AcquireExhausted(c) \/ AcquireTimedOut(c)
  <2>1. /\ stage'[c] = "over" /\ phase'[c] = "idle"
        /\ step'[c] = step[c] /\ held'[c] = held[c]
    BY <1>4 DEF AcquireExhausted, AcquireTimedOut, Exhausted, TimedOut, EndCall, Finish, heldVars,
                laneVars, RouterVarsOK, TypeOK
  <2>2. \A m \in Models : step[c][m] # "opening"
    BY <1>2, <1>4 DEF AcquireStep
  <2> QED
    BY <2>1, <2>2, OverKeepsLanes
<1>5. CASE AcquireBlocks(c)
  <2>1. stage'[c] = stage[c] /\ step'[c] = step[c] /\ held'[c] = held[c]
    BY <1>5 DEF AcquireBlocks, Block, heldVars, driverVars, laneVars
  <2> QED
    BY <1>2, <1>5, <2>1, QueueKeepsLanes DEF AcquireStep
<1> QED
  BY <1>1, <1>3, <1>4, <1>5 DEF AcquireStep

(* The caller's cancellation does. *)
LEMMA CancellingKeepsLanes ==
  ASSUME TypeOK, RouterVarsOK, NEW c \in Callers, LaneOK(c), CallerCancels(c)
  PROVE  LaneOK(c)'
<1>1. CASE CancelQueued(c)
  <2>1. stage[c] = "queue"
    BY <1>1 DEF CancelQueued, CancelQueue, LaneOK
  <2>2. /\ stage'[c] = "over" /\ phase'[c] = "idle"
        /\ step'[c] = step[c] /\ held'[c] = held[c]
    BY <1>1 DEF CancelQueued, CancelQueue, EndCall, Finish, heldVars, laneVars, RouterVarsOK, TypeOK
  <2>3. \A m \in Models : step[c][m] # "opening"
    BY <2>1 DEF LaneOK
  <2> QED
    BY <2>2, <2>3, OverKeepsLanes
<1>2. CASE CancelAlone(c)
  <2>1. PICK m \in live[c] :
          \/ /\ step[c][m] = "asking"
             /\ Release(c, m)
             /\ step' = [step EXCEPT ![c][m] = "done"]
          \/ /\ step[c][m] = "journal"
             /\ step' = [step EXCEPT ![c][m] = "done"]
             /\ UNCHANGED vars
          \/ /\ LateCancels
             /\ step[c][m] = "opening"
             /\ UNCHANGED <<vars, step>>
    BY <1>2 DEF CancelAlone
  <2>2. /\ stage[c] = "alone" /\ stage'[c] = "over" /\ phase[c] = "running"
        /\ \A n \in live[c] : n = m
        /\ m \in Models
    BY <1>2 DEF CancelAlone, Finish, LaneOK, Driving, RouterVarsOK
  <2>3. \A n \in Models \ {m} : step[c][n] \in {"none", "done"}
    BY <2>2 DEF LaneOK
  <2>4. CASE step[c][m] = "asking" /\ Release(c, m) /\ step' = [step EXCEPT ![c][m] = "done"]
    <3>1. held'[c] = held[c] \ {m} /\ phase'[c] = "running"
      BY <2>2, <2>4, SettlingOne DEF Settle, Stays
    <3>2. step'[c] = [n \in Models |-> IF n = m THEN "done" ELSE step[c][n]]
      BY <2>2, <2>4 DEF RouterVarsOK
    <3> QED
      BY <2>2, <2>3, <3>1, <3>2 DEF LaneOK, Driving
  <2>5. CASE step[c][m] = "journal" /\ step' = [step EXCEPT ![c][m] = "done"] /\ UNCHANGED vars
    <3>1. held'[c] = held[c] /\ phase'[c] = "running"
      BY <2>2, <2>5 DEF vars, callVars, heldVars
    <3>2. step'[c] = [n \in Models |-> IF n = m THEN "done" ELSE step[c][n]]
      BY <2>2, <2>5 DEF RouterVarsOK
    <3> QED
      BY <2>2, <2>3, <2>5, <3>1, <3>2 DEF LaneOK, Driving
  <2>6. CASE LateCancels /\ UNCHANGED <<vars, step>>
    BY <2>2, <2>6, OverKeepsLanes DEF vars, callVars, heldVars
  <2> QED
    BY <2>1, <2>4, <2>5, <2>6
<1>3. CASE CancelRace(c)
  <2>1. /\ Cancel(c, live[c]) /\ live[c] \in SUBSET Models
        /\ stage[c] \in {"race", "refill"} /\ stage'[c] = "abandon"
        /\ UNCHANGED vars /\ step'[c] = step[c]
    BY <1>3 DEF CancelRace, RouterVarsOK
  <2> QED
    BY <2>1, CuttingKeepsLanes
<1>4. CASE CancelSettling(c)
  <2>1. /\ stage[c] \in {"abandon", "settle"} /\ stage'[c] = "over"
        /\ UNCHANGED vars /\ step'[c] = step[c]
    BY <1>4 DEF CancelSettling, Finish, laneVars, RouterVarsOK
  <2>2. phase'[c] = "running" /\ held'[c] = held[c]
    BY <2>1 DEF LaneOK, Driving, vars, callVars, heldVars
  <2>3. ~LateCancels => \A m \in Models : step[c][m] # "opening"
    <3>1. \A m \in Models : step[c][m] = "opening" => m \in Unopened(c)
      BY <2>1 DEF LaneOK, Unopened
    <3> QED
      BY <1>4, <3>1 DEF CancelSettling
  <2> QED
    BY <2>1, <2>2, <2>3, OverKeepsLanes
<1> QED
  BY <1>1, <1>2, <1>3, <1>4 DEF CallerCancels

-----------------------------------------------------------------------------
(* The inductive invariant, and what follows from it. *)

RouterInv == TypeOK /\ RouterVarsOK /\ LanesOK

(* The inductive invariant holds at the start, *)
LEMMA RouterInvInit == RouterInit => RouterInv
<1> SUFFICES ASSUME RouterInit
             PROVE  RouterInv
  OBVIOUS
<1>1. TypeOK
  BY TypeInit DEF RouterInit
<1>2. RouterVarsOK
  BY RouterVarsInit
<1>3. ASSUME NEW c \in Routed
      PROVE  LaneOK(c)
  BY RouterAssumption DEF RouterInit, Init, LaneOK, Driving
<1> QED
  BY <1>1, <1>2, <1>3 DEF RouterInv, LanesOK

(* the lanes stay in order with every step, *)
LEMMA LanesOKStep ==
  ASSUME TypeOK, RouterVarsOK, LanesOK, [RouterNext]_routerVars
  PROVE  LanesOK'
<1> SUFFICES ASSUME NEW c \in Routed
             PROVE  LaneOK(c)'
  BY DEF LanesOK
<1>1. c \in Callers /\ LaneOK(c)
  BY RouterAssumption DEF LanesOK
<1>2. CASE RoutedStep(c)
  BY <1>1, <1>2, DriveKeepsLanes, LanesKeepLanes, QueueingKeepsLanes, CancellingKeepsLanes
     DEF RoutedStep
<1>3. ASSUME NEW d \in Routed, d # c, RoutedStep(d)
      PROVE  LaneOK(c)'
  <2>1. d \in Callers /\ LaneOK(d)
    BY RouterAssumption DEF LanesOK
  <2>2. Call(d) \/ UNCHANGED vars
    BY <1>3, <2>1, RoutedIsPoolCall DEF PoolCall
  <2>3. PoolAside(c)
    BY <1>1, <1>3, <2>1, <2>2, OtherCallsAside DEF PoolAside, Stays, vars, callVars, heldVars
  <2>4. DriverAside(c)
    BY <1>1, <1>3, <2>1, OtherDriversAside
  <2> QED
    BY <1>1, <2>3, <2>4, AsideKeepsLanes
<1>4. ASSUME PoolAside(c), Around
      PROVE  LaneOK(c)'
  BY <1>1, <1>4, AsideKeepsLanes DEF Around, driverVars, laneVars, DriverAside
<1>5. CASE (Admin \/ Clock) /\ Around
  BY <1>1, <1>4, <1>5, SurroundingsAside
<1>6. ASSUME NEW d \in Callers \ Routed, Call(d), Around
      PROVE  LaneOK(c)'
  <2>1. PoolAside(c)
    BY <1>1, <1>6, OtherCallsAside
  <2> QED
    BY <1>4, <1>6, <2>1
<1>7. CASE UNCHANGED <<vars, driverVars, laneVars>>
  <2>1. PoolAside(c) /\ DriverAside(c)
    BY <1>7 DEF PoolAside, Stays, DriverAside, vars, callVars, heldVars, driverVars, laneVars
  <2> QED
    BY <1>1, <2>1, AsideKeepsLanes
<1> QED
  BY <1>2, <1>3, <1>5, <1>6, <1>7, RouterStepKinds

(* and so it holds after every step. *)
LEMMA RouterInvStep == RouterInv /\ [RouterNext]_routerVars => RouterInv'
<1> SUFFICES ASSUME RouterInv, [RouterNext]_routerVars
             PROVE  RouterInv'
  OBVIOUS
<1> USE DEF RouterInv
<1>1. TypeOK'
  BY RouterImplementsPoolStep, TypeStep
<1>2. held' \in [Callers -> SUBSET Models]
  BY <1>1 DEF TypeOK
<1>3. RouterVarsOK'
  BY <1>2, RouterVarsStep
<1>4. LanesOK'
  BY LanesOKStep
<1> QED
  BY <1>1, <1>3, <1>4

(* The inductive invariant holds of every routed call: the pool and the     *)
(* driver's bookkeeping are well formed, and the lanes are where the stage  *)
(* of the call says they may be.                                            *)
THEOREM RouterInvariant == RouterSpec => []RouterInv
BY RouterInvInit, RouterInvStep, PTL DEF RouterSpec

(* The bookkeeping of _route, _race and RouteCall stays well formed, and so *)
(* does the pool under it.                                                  *)
THEOREM RouterTypeCorrect == RouterSpec => []RouterTypeOK
<1>1. RouterInv => RouterTypeOK
  BY RouterTypeParts DEF RouterInv
<1> QED
  BY <1>1, RouterInvariant, PTL

(* Every step of the router is one operation of the pool or none, so a      *)
(* routed call enters, reserves, settles and leaves only as the pool's      *)
(* protocol has it, and the theorems about the pool hold of it.             *)
THEOREM RouterKeepsToThePool == RouterSpec => KeepsToThePool
<1>1. RouterInit => Init
  BY DEF RouterInit
<1>2. RouterInv /\ [RouterNext]_routerVars => [Next]_vars
  BY RouterImplementsPoolStep DEF RouterInv
<1> QED
  BY <1>1, <1>2, RouterInvariant, PTL DEF RouterSpec, KeepsToThePool, Spec

(* So the routed calls never take more of a model than its capacity, lose   *)
(* no slot of it to a miscount, and none of them waits in the pool for a    *)
(* wakeup that nobody owes (acquire_many, release, finish).                 *)
THEOREM RoutedCallsShareThePool ==
  RouterSpec => [](SlotsConserved /\ CapRespected /\ ClaimHasOwner /\ EveryWaitHasAWaker)
BY RouterKeepsToThePool, SlotsAreConserved, CapacityRespected, ClaimsAreOwned,
   EveryWaiterHasAWaker, PTL DEF KeepsToThePool

(* And to its callers the routed pool is one counting semaphore per model   *)
(* that stays, whatever is raced, refilled, superseded or cancelled.        *)
THEOREM RouterImplementsSemaphores == RouterSpec => ImplementsSemaphores
BY RouterKeepsToThePool, PoolImplementsSemaphores DEF KeepsToThePool

(* No routed call leaks a slot, whatever fails, is superseded or is cut     *)
(* around it, unless its caller is cancelled at the points LateCancels      *)
(* names: there the lane has a slot and nobody who owes its release.        *)
THEOREM NoSlotIsLeaked ==
  ASSUME ~LateCancels
  PROVE  RouterSpec => []NoSlotLeaked
<1>1. RouterInv => NoSlotLeaked
  <2> SUFFICES ASSUME RouterInv, NEW c \in Routed, NEW m \in Models
               PROVE  m \in held[c] <=> \/ step[c][m] = "asking"
                                        \/ step[c][m] = "opening" /\ stage[c] # "over"
    BY DEF NoSlotLeaked
  <2> QED
    BY DEF RouterInv, LanesOK, LaneOK
<1> QED
  BY <1>1, RouterInvariant, PTL
=============================================================================
