------------------------- MODULE RouterOutcomeProofs -------------------------
(***************************************************************************)
(* What a routed call leaves behind, for any models, callers and knobs: a  *)
(* row per attempt, the answer or the exception its lanes produced, and no *)
(* model asked twice that had refused.  On top of RouterProofs.            *)
(***************************************************************************)
EXTENDS RouterProofs

Rowless == {"unpayable", "unopened", "cut"}
Owing == Verdicts \ (Rowless \cup {"none"})

(* The lane belongs to the round the driver is waiting for. *)
InRound(c, m) == stage[c] \in {"alone", "race", "refill"} /\ m \in live[c]

(* What a lane has come to so far, and where it has left its row, its       *)
(* answer or its exception.                                                 *)
RowOK(c, m) ==
  /\ step[c][m] \in {"none", "opening", "asking"} => verdict[c][m] = "none" /\ m \notin journaled[c]
  /\ step[c][m] = "journal" => verdict[c][m] \in Owing /\ m \notin journaled[c]
  /\ step[c][m] = "done" /\ result[c] # "cancelled" =>
       (m \in journaled[c] <=> verdict[c][m] \notin Rowless)
  /\ verdict[c][m] = "cut" => result[c] \in {"crash", "cancelled"}
  /\ m \in live[c] => step[c][m] # "none"
  /\ m \in cutting[c] =>
       step[c][m] \in {"opening", "asking"} /\ stage[c] \in {"abandon", "settle", "over"}
  /\ stage[c] = "settle" /\ step[c][m] \notin {"none", "done"} => m \in superseded[c]
  /\ stage[c] = "over" /\ result[c] # "cancelled" => step[c][m] \in {"none", "done"}
  /\ verdict[c][m] = "answered" =>
       InRound(c, m) \/ result[c] \in {"answer", "crash", "cancelled"}
  /\ verdict[c][m] = "crashed" =>
       InRound(c, m) \/ result[c] \in {"crash", "cancelled"} \/ m \in superseded[c]

(* What the call has come to, and whom it still asks. *)
StageOK(c) ==
  /\ c \notin Routed => stage[c] = "fresh"
  /\ stage[c] = "fresh" => clientFailed[c] = {}
  /\ stage[c] = "queue" => want[c] \cap clientFailed[c] = {}
  /\ result[c] # "none" <=> stage[c] \in {"abandon", "settle", "over"}
  /\ stage[c] = "abandon" => result[c] \in {"crash", "cancelled"}
  /\ stage[c] = "settle" => result[c] = "answer"

CallOK(c) == StageOK(c) /\ \A m \in Models : RowOK(c, m)

CallsOK == \A c \in Callers : CallOK(c)

-----------------------------------------------------------------------------
(* What the steps of others leave of a call. *)

RowsAside(c) ==
  /\ verdict'[c] = verdict[c]
  /\ journaled'[c] = journaled[c]
  /\ superseded'[c] = superseded[c]
  /\ result'[c] = result[c]
  /\ clientFailed'[c] = clientFailed[c]

(* A step that is not the call's own leaves it as it was. *)
LEMMA AsideKeepsCalls ==
  ASSUME NEW c \in Callers, CallOK(c), DriverAside(c), RowsAside(c), want'[c] = want[c]
  PROVE  CallOK(c)'
BY DEF CallOK, StageOK, RowOK, InRound, DriverAside, RowsAside

(* The admin and the clock change no call's filter, *)
LEMMA SurroundingsKeepFilters ==
  ASSUME TypeOK, NEW c \in Callers, Admin \/ Clock
  PROVE  want'[c] = want[c]
BY DEF Admin, Clock, Add, Drop, SetDisabled, ClearDisabled, ApplyBudgetBounds, CoolingElapses,
       BoundLapses, Tick, callVars

(* nor does another call. *)
LEMMA OtherCallsKeepFilters ==
  ASSUME TypeOK, NEW c \in Callers, NEW d \in Callers, c # d, Call(d)
  PROVE  want'[c] = want[c]
<1> USE DEF TypeOK
<1>1. ASSUME NEW W, Queue(d, W)
      PROVE  want'[c] = want[c]
  BY <1>1 DEF Queue
<1>2. ASSUME NEW width, NEW recoveryWidth, Acquire(d, width, recoveryWidth)
      PROVE  want'[c] = want[c]
  BY <1>2 DEF Acquire
<1>3. ASSUME EndCall(d)
      PROVE  want'[c] = want[c]
  BY <1>3 DEF EndCall
<1>4. ASSUME Block(d)
      PROVE  want'[c] = want[c]
  BY <1>4 DEF Block
<1>5. ASSUME NEW W, NEW needed, TakeFree(d, W, needed)
      PROVE  want'[c] = want[c]
  BY <1>5 DEF TakeFree
<1>6. ASSUME NEW m, Settle(d, m)
      PROVE  want'[c] = want[c]
  BY <1>6 DEF Settle, Release, FinishOk, CoolDown, HandBack
<1>7. ASSUME Evaluate(d)
      PROVE  want'[c] = want[c]
  BY <1>2, <1>3, <1>4, <1>7 DEF Evaluate, Exhausted, TimedOut
<1> QED
  BY <1>1, <1>3, <1>5, <1>6, <1>7 DEF Call, Enter, Reenter, CancelQueue, Leave

(* No action of one call touches another's rows and results. *)
LEMMA OtherRowsAside ==
  ASSUME RouterVarsOK, NEW c \in Callers, NEW d \in Callers, c # d, RoutedStep(d)
  PROVE  RowsAside(c)
<1> USE DEF RouterVarsOK, RowsAside
<1>1. ASSUME NEW r, Finish(d, r)
      PROVE  result'[c] = result[c]
  BY <1>1 DEF Finish
<1>2. ASSUME NEW S, OpenLanes(d, S)
      PROVE  verdict'[c] = verdict[c] /\ journaled'[c] = journaled[c] /\ superseded'[c] = superseded[c]
  BY <1>2 DEF OpenLanes
<1>3. ASSUME Absorb(d)
      PROVE  clientFailed'[c] = clientFailed[c]
  BY <1>3 DEF Absorb
<1>4. ASSUME NEW failed, NEW error, NEW gone, NextRound(d, failed, error, gone)
      PROVE  result'[c] = result[c]
  BY <1>1, <1>4 DEF NextRound
<1>5. ASSUME NEW m, NEW to, NEW v, LaneStep(d, m, to, v)
      PROVE  RowsAside(c)
  BY <1>5 DEF LaneStep, driverVars
<1>6. ASSUME NEW p, Start(d, p)
      PROVE  RowsAside(c)
  BY <1>6 DEF Start, laneVars
<1>7. ASSUME AcquireStep(d)
      PROVE  RowsAside(c)
  <2>1. CASE AcquireLanes(d)
    BY <1>2, <2>1 DEF AcquireLanes
  <2>2. CASE AcquireExhausted(d) \/ AcquireTimedOut(d)
    BY <1>1, <2>2 DEF AcquireExhausted, AcquireTimedOut, laneVars
  <2>3. CASE AcquireBlocks(d)
    BY <2>3 DEF AcquireBlocks, driverVars, laneVars
  <2> QED
    BY <1>7, <2>1, <2>2, <2>3 DEF AcquireStep
<1>8. ASSUME NEW m \in Models, AttemptBegins(d, m)
      PROVE  RowsAside(c)
  BY <1>5, <1>8 DEF AttemptBegins, KeyGone, Ask, SpentBudget
<1>9. ASSUME NEW m \in Models, AttemptEnds(d, m)
      PROVE  RowsAside(c)
  BY <1>5, <1>9
     DEF AttemptEnds, Answered, Failed, BudgetExpired, Rejected, Unauthorised, Crashed
<1>10. ASSUME NEW m \in Models, LaneRuns(d, m)
       PROVE  RowsAside(c)
  <2>1. CASE Cut(d, m) \/ StopUnopened(d, m)
    BY <1>5, <2>1 DEF Cut, StopUnopened
  <2>2. CASE Journal(d, m)
    BY <2>2 DEF Journal, driverVars
  <2> QED
    BY <1>10, <2>1, <2>2 DEF LaneRuns
<1>11. ASSUME Drive(d)
       PROVE  RowsAside(c)
  <2>1. CASE AloneEnds(d)
    BY <1>1, <1>3, <1>4, <2>1 DEF AloneEnds, laneVars
  <2>2. CASE RaceWon(d)
    BY <1>3, <2>2 DEF RaceWon, Supersede
  <2>3. CASE RaceLost(d)
    BY <1>3, <1>4, <2>3 DEF RaceLost, laneVars
  <2>4. CASE RaceCrashed(d)
    BY <2>4 DEF RaceCrashed
  <2>5. CASE Refill(d)
    BY <1>2, <2>5 DEF Refill
  <2>6. CASE NothingToRefill(d)
    BY <1>4, <2>6 DEF NothingToRefill, laneVars
  <2>7. CASE Settled(d)
    BY <2>7 DEF Settled, laneVars
  <2> QED
    BY <1>11, <2>1, <2>2, <2>3, <2>4, <2>5, <2>6, <2>7 DEF Drive
<1>12. ASSUME CallerCancels(d)
       PROVE  RowsAside(c)
  <2>1. CASE CancelQueued(d) \/ CancelSettling(d)
    BY <1>1, <2>1 DEF CancelQueued, CancelSettling, laneVars
  <2>2. CASE CancelAlone(d)
    BY <1>1, <2>2 DEF CancelAlone
  <2>3. CASE CancelRace(d)
    BY <2>3 DEF CancelRace
  <2> QED
    BY <1>12, <2>1, <2>2, <2>3 DEF CallerCancels
<1> QED
  BY <1>6, <1>7, <1>8, <1>9, <1>10, <1>11, <1>12 DEF RoutedStep

-----------------------------------------------------------------------------
(* The lanes' own steps. *)

(* A lane that has not settled belongs to the round, or to a call whose     *)
(* result is settled without it.                                            *)
LEMMA UnsettledLane ==
  ASSUME RouterVarsOK, NEW c \in Callers, LaneOK(c), CallOK(c), NEW m \in Models,
         step[c][m] \in {"opening", "asking"}
  PROVE  /\ verdict[c][m] = "none" /\ m \notin journaled[c]
         /\ \/ InRound(c, m)
            \/ result[c] \in {"crash", "cancelled"}
            \/ result[c] = "answer" /\ m \in superseded[c]
<1>1. RowOK(c, m) /\ StageOK(c)
  BY DEF CallOK
<1>2. stage[c] \notin {"fresh", "queue"}
  BY DEF LaneOK
<1>3. stage[c] \in {"alone", "race", "refill"} => InRound(c, m)
  BY DEF LaneOK, InRound
<1>4. stage[c] \in {"abandon", "settle", "over"} \/ stage[c] \in {"alone", "race", "refill"}
      => \/ InRound(c, m)
         \/ result[c] \in {"crash", "cancelled"}
         \/ result[c] = "answer" /\ m \in superseded[c]
  BY <1>1, <1>3 DEF RowOK, StageOK
<1> QED
  BY <1>1, <1>2, <1>4 DEF RowOK, RouterVarsOK

(* It goes to its provider, or settles with the row it will owe. *)
LEMMA LaneMoves ==
  ASSUME RouterVarsOK, NEW c \in Callers, LaneOK(c), CallOK(c), NEW m \in Models,
         NEW to, NEW v, LaneStep(c, m, to, v), step[c][m] \in {"opening", "asking"},
         \/ to = "asking" /\ v = "none"
         \/ to = "journal" /\ v \in Owing
         \/ to = "done" /\ v \in Rowless /\ (v = "cut" => result[c] \in {"crash", "cancelled"}),
         cutting'[c] = cutting[c] \ {m}, want'[c] = want[c], stage[c] # "over" \/ result[c] = "cancelled"
  PROVE  CallOK(c)'
<1>1. /\ step'[c] = [step[c] EXCEPT ![m] = to]
      /\ verdict'[c] = [verdict[c] EXCEPT ![m] = v]
      /\ step[c] \in [Models -> Steps] /\ verdict[c] \in [Models -> Verdicts]
      /\ UNCHANGED <<stage, live, clientFailed, result, superseded, journaled>>
  BY DEF LaneStep, driverVars, RouterVarsOK
<1>2. StageOK(c)'
  BY <1>1 DEF CallOK, StageOK
<1>3. ASSUME NEW n \in Models, n # m
      PROVE  RowOK(c, n)'
  BY <1>1, <1>3 DEF CallOK, RowOK, InRound
<1>4. RowOK(c, m)'
  BY <1>1, UnsettledLane DEF CallOK, StageOK, RowOK, InRound, Rowless, Owing
<1> QED
  BY <1>2, <1>3, <1>4 DEF CallOK

(* A lane that ends keeps its call's filter. *)
LEMMA SettlingKeepsFilter ==
  ASSUME NEW c, NEW m, Settle(c, m)
  PROVE  want' = want
BY DEF Settle, Release, FinishOk, CoolDown, HandBack

(* A call that is over and was not cancelled has no lane at work. *)
LEMMA OverIsAtRest ==
  ASSUME NEW c \in Callers, CallOK(c), NEW m \in Models, step[c][m] \in {"opening", "asking"}
  PROVE  stage[c] # "over" \/ result[c] = "cancelled"
BY DEF CallOK, RowOK

(* Whatever a lane does keeps the call in order. *)
LEMMA LanesKeepCalls ==
  ASSUME RouterVarsOK, NEW c \in Callers, LaneOK(c), CallOK(c), NEW m \in Models,
         AttemptBegins(c, m) \/ AttemptEnds(c, m) \/ LaneRuns(c, m)
  PROVE  CallOK(c)'
<1> USE OverIsAtRest
<1>1. want' = want
  BY LanesArePoolCalls, SettlingKeepsFilter DEF vars, callVars
<1>2. CASE AttemptBegins(c, m)
  <2>1. /\ step[c][m] = "opening" /\ m \notin cutting[c] /\ UNCHANGED cutting
        /\ \/ LaneStep(c, m, "asking", "none")
           \/ LaneStep(c, m, "journal", "expired")
           \/ LaneStep(c, m, "done", "unpayable")
    BY <1>2 DEF AttemptBegins, KeyGone, Ask, SpentBudget, Opening
  <2>2. "expired" \in Owing /\ "unpayable" \in Rowless
    BY DEF Owing, Rowless, Verdicts
  <2> QED
    BY <1>1, <2>1, <2>2, LaneMoves
<1>3. CASE AttemptEnds(c, m)
  <2>1. /\ step[c][m] = "asking" /\ m \notin cutting[c] /\ UNCHANGED cutting
        /\ \E v \in Owing : LaneStep(c, m, "journal", v)
    BY <1>3
       DEF AttemptEnds, Asking, Answered, Failed, BudgetExpired, Rejected, Unauthorised, Crashed,
           Owing, Rowless, Verdicts
  <2> QED
    BY <1>1, <2>1, LaneMoves
<1>4. CASE Cut(c, m)
  <2>1. step[c][m] = "asking" /\ m \in cutting[c] /\ cutting'[c] = cutting[c] \ {m}
    BY <1>4 DEF Cut, RouterVarsOK
  <2>2. CASE m \in superseded[c]
    <3>1. LaneStep(c, m, "journal", "superseded") /\ "superseded" \in Owing
      BY <1>4, <2>2 DEF Cut, Owing, Rowless, Verdicts
    <3> QED
      BY <1>1, <2>1, <3>1, LaneMoves
  <2>3. CASE m \notin superseded[c]
    <3>1. LaneStep(c, m, "done", "cut") /\ "cut" \in Rowless
      BY <1>4, <2>3 DEF Cut, Rowless
    <3>2. result[c] \in {"crash", "cancelled"}
      BY <2>1, <2>3, UnsettledLane DEF CallOK, RowOK, InRound
    <3> QED
      BY <1>1, <2>1, <3>1, <3>2, LaneMoves
  <2> QED
    BY <2>2, <2>3
<1>5. CASE StopUnopened(c, m)
  <2>1. /\ step[c][m] = "opening" /\ cutting'[c] = cutting[c] \ {m}
        /\ LaneStep(c, m, "done", "unopened") /\ "unopened" \in Rowless
    BY <1>5 DEF StopUnopened, Unopened, RouterVarsOK, Rowless
  <2> QED
    BY <1>1, <2>1, LaneMoves
<1>6. CASE Journal(c, m)
  <2>1. m \notin cutting[c]
    BY <1>6 DEF Journal, CallOK, RowOK
  <2>2. journaled'[c] = journaled[c] \cup {m}
    BY <1>6, <2>1 DEF Journal, RouterVarsOK
  <2>3. /\ step[c][m] = "journal" /\ step'[c] = [step[c] EXCEPT ![m] = "done"]
        /\ step[c] \in [Models -> Steps]
        /\ UNCHANGED <<stage, live, clientFailed, result, superseded, verdict, cutting>>
    BY <1>6 DEF Journal, driverVars, RouterVarsOK
  <2>4. StageOK(c)'
    BY <1>1, <2>3 DEF CallOK, StageOK
  <2>5. ASSUME NEW n \in Models, n # m
        PROVE  RowOK(c, n)'
    BY <2>2, <2>3, <2>5 DEF CallOK, RowOK, InRound
  <2>6. RowOK(c, m)'
    BY <2>1, <2>2, <2>3 DEF CallOK, RowOK, InRound, Owing
  <2> QED
    BY <2>4, <2>5, <2>6 DEF CallOK
<1> QED
  BY <1>2, <1>3, <1>4, <1>5, <1>6 DEF LaneRuns

-----------------------------------------------------------------------------
(* The driver. *)

(* A failed round hands on neither an answer nor an exception, and no model *)
(* that has refused.                                                        *)
LEMMA NextRoundKeepsCalls ==
  ASSUME TypeOK, RouterVarsOK, NEW c \in Callers, LaneOK(c), CallOK(c),
         c \in Routed, stage[c] \in {"alone", "race", "refill"},
         \A m \in live[c] : step[c][m] = "done" /\ verdict[c][m] \notin {"answered", "crashed"},
         NEW failed, NEW error, NEW gone, NextRound(c, failed, error, gone),
         clientFailed'[c] = failed, UNCHANGED laneVars
  PROVE  CallOK(c)'
<1>1. /\ live'[c] = {}
      /\ \/ stage'[c] = "over" /\ result'[c] \in {"client_error", "timeout"}
         \/ stage'[c] = "queue" /\ result'[c] = result[c] /\ want'[c] = Payable \ failed
  BY DEF NextRound, Finish, Queue, RouterVarsOK, TypeOK
<1>2. \A m \in Models : step[c][m] \in {"none", "done"}
  BY DEF LaneOK
<1>3. result[c] = "none" /\ UNCHANGED <<step, verdict, journaled, cutting, superseded>>
  BY DEF CallOK, StageOK, laneVars
<1>4. StageOK(c)'
  BY <1>1, <1>3 DEF StageOK
<1>5. ASSUME NEW m \in Models
      PROVE  RowOK(c, m)'
  <2>1. RowOK(c, m)
    BY DEF CallOK
  <2>2. m \notin cutting[c] /\ verdict[c][m] # "answered" /\ verdict[c][m] # "cut"
        /\ (verdict[c][m] = "crashed" => m \in superseded[c])
    BY <1>3, <2>1 DEF RowOK, InRound
  <2> QED
    BY <1>1, <1>2, <1>3, <2>1, <2>2 DEF RowOK
<1> QED
  BY <1>4, <1>5 DEF CallOK

(* A lone lane's answer or exception is the call's. *)
LEMMA AloneKeepsCalls ==
  ASSUME TypeOK, RouterVarsOK, NEW c \in Callers, LaneOK(c), CallOK(c), c \in Routed, AloneEnds(c)
  PROVE  CallOK(c)'
<1>1. /\ stage[c] = "alone" /\ UNCHANGED laneVars
      /\ \A m \in live[c] : step[c][m] = "done"
  BY DEF AloneEnds
<1>2. live[c] \subseteq Models
  BY DEF RouterVarsOK
<1>3. CASE DoneWith(c, {"answered", "crashed"}) # {}
  <2>1. /\ stage'[c] = "over" /\ live'[c] = live[c]
        /\ result'[c] = IF DoneWith(c, {"answered"}) # {} THEN "answer" ELSE "crash"
    BY <1>3 DEF AloneEnds, Finish, RouterVarsOK
  <2>2. result[c] = "none" /\ UNCHANGED <<step, verdict, journaled, cutting, superseded>>
    BY <1>1 DEF CallOK, StageOK, laneVars
  <2>3. StageOK(c)'
    BY <2>1 DEF StageOK
  <2>4. ASSUME NEW m \in Models
        PROVE  RowOK(c, m)'
    <3>1. RowOK(c, m)
      BY DEF CallOK
    <3>2. step[c][m] \in {"none", "done"} /\ m \notin cutting[c] /\ verdict[c][m] # "cut"
      BY <1>1, <2>2, <3>1 DEF RowOK, LaneOK
    <3>3. verdict[c][m] = "crashed" => m \in superseded[c] \/ result'[c] = "crash"
      <4> SUFFICES ASSUME verdict[c][m] = "crashed", m \notin superseded[c]
                   PROVE  DoneWith(c, {"answered"}) = {}
        BY <2>1
      <4>1. m \in live[c]
        BY <2>2, <3>1 DEF RowOK, InRound
      <4>2. \A n \in live[c] : n = m
        BY <1>1, <4>1 DEF LaneOK
      <4> QED
        BY <4>2 DEF DoneWith
    <3> QED
      BY <2>1, <2>2, <3>1, <3>2, <3>3 DEF RowOK
  <2> QED
    BY <2>3, <2>4 DEF CallOK
<1>4. CASE DoneWith(c, {"answered", "crashed"}) = {}
  <2>1. Absorb(c) /\ NextRound(c, FailedAfter(c), ErrorAfter(c), ExpiredAfter(c))
    BY <1>4 DEF AloneEnds
  <2>2. clientFailed'[c] = FailedAfter(c)
    BY <2>1 DEF Absorb, RouterVarsOK
  <2>3. \A m \in live[c] : verdict[c][m] \notin {"answered", "crashed"}
    BY <1>1, <1>4 DEF DoneWith
  <2> QED
    BY <1>1, <2>1, <2>2, <2>3, NextRoundKeepsCalls
<1> QED
  BY <1>3, <1>4

(* The winner's answer is the call's, and who is still running is beaten. *)
LEMMA WonKeepsCalls ==
  ASSUME RouterVarsOK, NEW c \in Callers, LaneOK(c), CallOK(c), c \in Routed, RaceWon(c)
  PROVE  CallOK(c)'
<1>1. PICK winner \in DoneWith(c, {"answered"}) :
        LET losers == (live[c] \ Ended(c)) \cup (DoneWith(c, {"answered"}) \ {winner})
        IN  Supersede(c, losers) /\ live' = [live EXCEPT ![c] = losers]
  BY DEF RaceWon
<1> DEFINE losers == (live[c] \ Ended(c)) \cup (DoneWith(c, {"answered"}) \ {winner})
<1>2. /\ live[c] \ Ended(c) \subseteq losers /\ losers \subseteq live[c]
      /\ live'[c] = losers
      /\ superseded'[c] = superseded[c] \cup losers
      /\ cutting'[c] = cutting[c] \cup {m \in losers : ~Settling(c, m)}
  BY <1>1 DEF Supersede, Cancel, RouterVarsOK, DoneWith
<1> HIDE DEF losers
<1>3. /\ stage[c] = "race" /\ stage'[c] = "settle" /\ result'[c] = "answer"
      /\ Fatal(c) = {} /\ UNCHANGED <<step, verdict, journaled>>
  BY DEF RaceWon, RouterVarsOK
<1>4. result[c] = "none"
  BY <1>3 DEF CallOK, StageOK
<1>5. StageOK(c)'
  BY <1>3 DEF StageOK
<1>6. ASSUME NEW m \in Models
      PROVE  RowOK(c, m)'
  <2>1. RowOK(c, m) /\ step[c][m] \in Steps
    BY DEF CallOK, RouterVarsOK
  <2>2. m \notin cutting[c] /\ verdict[c][m] # "cut"
    BY <1>3, <1>4, <2>1 DEF RowOK
  <2>3. m \in losers => step[c][m] # "none"
    BY <1>2, <2>1 DEF RowOK
  <2>4. m \in cutting'[c] => step[c][m] \in {"opening", "asking"}
    BY <1>2, <2>1, <2>2, <2>3 DEF Settling, Steps
  <2>5. step[c][m] \notin {"none", "done"} => m \in superseded'[c]
    BY <1>2, <1>3 DEF LaneOK, Ended
  <2>6. verdict[c][m] = "crashed" => m \in superseded'[c]
    <3> SUFFICES ASSUME verdict[c][m] = "crashed", m \notin superseded[c]
                 PROVE  m \in losers
      BY <1>2
    <3>1. m \in live[c]
      BY <1>4, <2>1 DEF RowOK, InRound
    <3>2. step[c][m] # "done"
      BY <1>3, <3>1 DEF Fatal, DoneWith
    <3> QED
      BY <1>2, <3>1, <3>2 DEF Ended
  <2> QED
    BY <1>2, <1>3, <1>4, <2>1, <2>2, <2>3, <2>4, <2>5, <2>6 DEF RowOK
<1> QED
  BY <1>5, <1>6 DEF CallOK

(* A batch without an answer goes on, is refilled or gives the round up. *)
LEMMA LostKeepsCalls ==
  ASSUME TypeOK, RouterVarsOK, NEW c \in Callers, LaneOK(c), CallOK(c), c \in Routed, RaceLost(c)
  PROVE  CallOK(c)'
<1> DEFINE left == live[c] \ Ended(c)
<1>1. /\ stage[c] = "race" /\ Fatal(c) = {} /\ Unanswered(c) /\ Absorb(c)
      /\ UNCHANGED laneVars
  BY DEF RaceLost
<1>2. CASE GivesUp(c, left)
  <2>1. NextRound(c, FailedAfter(c), ErrorAfter(c), TRUE)
    BY <1>2 DEF RaceLost
  <2>2. clientFailed'[c] = FailedAfter(c)
    BY <1>1 DEF Absorb, RouterVarsOK
  <2>3. \A m \in live[c] : step[c][m] = "done" /\ verdict[c][m] \notin {"answered", "crashed"}
    BY <1>1, <1>2 DEF GivesUp, Ended, Fatal, Unanswered, DoneWith
  <2> QED
    BY <1>1, <2>1, <2>2, <2>3, NextRoundKeepsCalls
<1>3. CASE ~GivesUp(c, left)
  <2>1. stage'[c] \in {"race", "refill"} /\ live'[c] = left /\ UNCHANGED result
    BY <1>3 DEF RaceLost, RouterVarsOK
  <2>2. result[c] = "none" /\ UNCHANGED <<step, verdict, journaled, cutting, superseded>>
    BY <1>1 DEF CallOK, StageOK, laneVars
  <2>3. StageOK(c)'
    BY <2>1, <2>2 DEF StageOK
  <2>4. ASSUME NEW m \in Models
        PROVE  RowOK(c, m)'
    <3>1. RowOK(c, m)
      BY DEF CallOK
    <3>2. verdict[c][m] \in {"answered", "crashed"} /\ m \in live[c] => m \in left
      BY <1>1 DEF Ended, Fatal, Unanswered, DoneWith
    <3>3. m \notin cutting[c] /\ verdict[c][m] # "cut"
      BY <1>1, <2>2, <3>1 DEF RowOK
    <3> QED
      BY <1>1, <2>1, <2>2, <3>1, <3>2, <3>3 DEF RowOK, InRound
  <2> QED
    BY <2>3, <2>4 DEF CallOK
<1> QED
  BY <1>2, <1>3

(* The exception is the call's, whatever the others come to. *)
LEMMA CrashedKeepsCalls ==
  ASSUME RouterVarsOK, NEW c \in Callers, LaneOK(c), CallOK(c), c \in Routed, RaceCrashed(c)
  PROVE  CallOK(c)'
<1>1. PICK m \in Models : /\ live' = [live EXCEPT ![c] = @ \ {m}]
                          /\ Cancel(c, live[c] \ {m})
  BY DEF RaceCrashed, Fatal, DoneWith, RouterVarsOK
<1>2. /\ live'[c] \subseteq live[c]
      /\ cutting'[c] = cutting[c] \cup {n \in live[c] \ {m} : ~Settling(c, n)}
  BY <1>1 DEF Cancel, RouterVarsOK
<1>3. /\ stage[c] = "race" /\ stage'[c] = "abandon" /\ result'[c] = "crash"
      /\ UNCHANGED <<step, verdict, journaled, superseded>>
  BY DEF RaceCrashed, RouterVarsOK
<1>4. result[c] = "none"
  BY <1>3 DEF CallOK, StageOK
<1>5. StageOK(c)'
  BY <1>3 DEF StageOK
<1>6. ASSUME NEW n \in Models
      PROVE  RowOK(c, n)'
  <2>1. RowOK(c, n) /\ step[c][n] \in Steps
    BY DEF CallOK, RouterVarsOK
  <2>2. n \notin cutting[c] /\ verdict[c][n] # "cut"
    BY <1>3, <1>4, <2>1 DEF RowOK
  <2>3. n \in cutting'[c] => step[c][n] \in {"opening", "asking"}
    BY <1>2, <2>1, <2>2 DEF RowOK, Settling, Steps
  <2> QED
    BY <1>2, <1>3, <1>4, <2>1, <2>2, <2>3 DEF RowOK
<1> QED
  BY <1>5, <1>6 DEF CallOK

(* A lane that is opened has nothing behind it, in this round or a next one. *)
LEMMA OpenedKeepsRows ==
  ASSUME RouterVarsOK, NEW c \in Callers, CallOK(c), NEW S \in SUBSET Models, OpenLanes(c, S),
         stage[c] \in {"queue", "refill"}, stage'[c] \in {"alone", "race"},
         stage[c] = "queue" => \A m \in Models : verdict[c][m] # "answered",
         live'[c] = IF stage[c] = "refill" THEN live[c] \cup S ELSE S,
         result'[c] = result[c],
         NEW m \in Models
  PROVE  RowOK(c, m)'
<1>1. /\ step'[c] = [n \in Models |-> IF n \in S THEN "opening" ELSE step[c][n]]
      /\ verdict'[c] = [n \in Models |-> IF n \in S THEN "none" ELSE verdict[c][n]]
      /\ journaled'[c] = journaled[c] \ S
      /\ UNCHANGED <<cutting, superseded>>
  BY DEF OpenLanes, RouterVarsOK
<1>2. RowOK(c, m) /\ result[c] = "none"
  BY DEF CallOK, StageOK
<1>3. m \notin cutting[c] /\ verdict[c][m] # "cut"
  BY <1>2 DEF RowOK
<1>4. CASE m \in S
  BY <1>1, <1>2, <1>3, <1>4 DEF RowOK
<1>5. CASE m \notin S
  <2>1. /\ step'[c][m] = step[c][m] /\ verdict'[c][m] = verdict[c][m]
        /\ m \in journaled'[c] <=> m \in journaled[c]
    BY <1>1, <1>5
  <2>2. m \in live'[c] => m \in live[c]
    BY <1>5
  <2>3. InRound(c, m) => InRound(c, m)'
    BY DEF InRound
  <2>4. verdict[c][m] = "crashed" => InRound(c, m) \/ m \in superseded[c]
    BY <1>2 DEF RowOK
  <2>5. verdict[c][m] = "answered" => InRound(c, m)
    BY <1>2 DEF RowOK
  <2> QED
    BY <1>1, <1>2, <1>3, <2>1, <2>2, <2>3, <2>4, <2>5 DEF RowOK
<1> QED
  BY <1>4, <1>5

(* A refill opens lanes beside those that are running. *)
LEMMA RefillKeepsCalls ==
  ASSUME TypeOK, RouterVarsOK, held' \in [Callers -> SUBSET Models],
         NEW c \in Callers, CallOK(c), c \in Routed, Refill(c)
  PROVE  CallOK(c)'
<1> DEFINE fresh == held'[c] \ held[c]
<1>1. /\ stage[c] = "refill" /\ stage'[c] = "race" /\ live'[c] = live[c] \cup fresh
      /\ OpenLanes(c, fresh) /\ UNCHANGED result /\ fresh \in SUBSET Models
  BY DEF Refill, RouterVarsOK
<1>2. StageOK(c)'
  BY <1>1 DEF CallOK, StageOK
<1>3. ASSUME NEW m \in Models
      PROVE  RowOK(c, m)'
  BY <1>1, OpenedKeepsRows
<1> QED
  BY <1>2, <1>3 DEF CallOK

(* With nothing to refill, the race goes on or the round is over. *)
LEMMA UnfilledKeepsCalls ==
  ASSUME TypeOK, RouterVarsOK, NEW c \in Callers, LaneOK(c), CallOK(c), c \in Routed,
         NothingToRefill(c)
  PROVE  CallOK(c)'
<1>1. stage[c] = "refill" /\ UNCHANGED <<laneVars, clientFailed>>
  BY DEF NothingToRefill
<1>2. CASE live[c] = {}
  <2>1. NextRound(c, clientFailed[c], clientError[c], FALSE)
    BY <1>2 DEF NothingToRefill
  <2> QED
    BY <1>1, <1>2, <2>1, NextRoundKeepsCalls
<1>3. CASE live[c] # {}
  <2>1. stage'[c] = "race" /\ UNCHANGED <<live, result>>
    BY <1>3 DEF NothingToRefill, RouterVarsOK
  <2> QED
    BY <1>1, <2>1 DEF CallOK, StageOK, RowOK, InRound, laneVars
<1> QED
  BY <1>2, <1>3

(* So does whatever the driver decides, *)
LEMMA DriveKeepsCalls ==
  ASSUME TypeOK, RouterVarsOK, held' \in [Callers -> SUBSET Models],
         NEW c \in Callers, LaneOK(c), CallOK(c), c \in Routed, Drive(c)
  PROVE  CallOK(c)'
<1>1. CASE Settled(c)
  <2>1. /\ stage[c] \in {"abandon", "settle"} /\ stage'[c] = "over"
        /\ UNCHANGED <<live, result, laneVars>>
        /\ \A m \in Models : step[c][m] \in {"none", "done"}
    BY <1>1 DEF Settled, RouterVarsOK
  <2> QED
    BY <2>1 DEF CallOK, StageOK, RowOK, InRound, laneVars
<1> QED
  BY <1>1, AloneKeepsCalls, WonKeepsCalls, LostKeepsCalls, CrashedKeepsCalls, RefillKeepsCalls,
     UnfilledKeepsCalls DEF Drive

-----------------------------------------------------------------------------
(* The queue, and the caller's cancellation. *)

(* A call that queues has no answer behind it. *)
LEMMA QueueHasNoAnswer ==
  ASSUME NEW c \in Callers, CallOK(c), stage[c] = "queue", NEW m \in Models
  PROVE  verdict[c][m] # "answered" /\ result[c] = "none"
BY DEF CallOK, StageOK, RowOK, InRound

(* A call that ends, cancelled or with no lane at work and no answer, is    *)
(* none the worse for what it leaves.                                       *)
LEMMA FinishKeepsCalls ==
  ASSUME RouterVarsOK, NEW c \in Callers, CallOK(c), c \in Routed, NEW r \in Results \ {"none"},
         Finish(c, r), UNCHANGED <<live, laneVars>>,
         \/ r = "cancelled"
         \/ stage[c] = "queue" /\ \A m \in Models : step[c][m] \in {"none", "done"}
  PROVE  CallOK(c)'
<1>1. stage'[c] = "over" /\ result'[c] = r
  BY DEF Finish, RouterVarsOK
<1>2. StageOK(c)'
  BY <1>1 DEF StageOK
<1>3. ASSUME NEW m \in Models
      PROVE  RowOK(c, m)'
  <2>1. RowOK(c, m)
    BY DEF CallOK
  <2>2. CASE r = "cancelled"
    BY <1>1, <2>1, <2>2 DEF RowOK, laneVars
  <2>3. CASE stage[c] = "queue" /\ \A n \in Models : step[c][n] \in {"none", "done"}
    <3>1. verdict[c][m] # "answered" /\ result[c] = "none"
      BY <2>3, QueueHasNoAnswer
    <3> QED
      BY <1>1, <2>1, <2>3, <3>1 DEF RowOK, InRound, laneVars
  <2> QED
    BY <2>2, <2>3
<1> QED
  BY <1>2, <1>3 DEF CallOK

(* queueing for a round and opening it, *)
LEMMA QueueingKeepsCalls ==
  ASSUME TypeOK, RouterVarsOK, held' \in [Callers -> SUBSET Models],
         NEW c \in Callers, LaneOK(c), CallOK(c), c \in Routed,
         (\E p \in Waits : Start(c, p)) \/ AcquireStep(c)
  PROVE  CallOK(c)'
<1>1. ASSUME NEW p, Start(c, p)
      PROVE  CallOK(c)'
  <2>1. /\ stage[c] = "fresh" /\ stage'[c] = "queue"
        /\ UNCHANGED <<live, clientFailed, result, laneVars>>
    BY <1>1 DEF Start, RouterVarsOK
  <2> QED
    BY <2>1 DEF CallOK, StageOK, RowOK, InRound, laneVars
<1>2. ASSUME AcquireStep(c)
      PROVE  stage[c] = "queue" /\ \A m \in Models : step[c][m] \in {"none", "done"}
  <2>1. phase[c] = "queued"
    BY <1>2 DEF AcquireStep, AcquireLanes, AcquireExhausted, AcquireTimedOut, AcquireBlocks,
                Acquire, Exhausted, TimedOut, Block
  <2> QED
    BY <2>1 DEF LaneOK
<1>3. CASE AcquireLanes(c)
  <2>1. stage[c] = "queue" /\ \A m \in Models : verdict[c][m] # "answered"
    BY <1>2, <1>3, QueueHasNoAnswer DEF AcquireStep
  <2>2. /\ stage'[c] \in {"alone", "race"} /\ live'[c] = held'[c] /\ OpenLanes(c, held'[c])
        /\ UNCHANGED <<result, clientFailed>> /\ held'[c] \in SUBSET Models
    BY <1>3 DEF AcquireLanes, RouterVarsOK
  <2>3. StageOK(c)'
    BY <2>1, <2>2 DEF CallOK, StageOK
  <2>4. ASSUME NEW m \in Models
        PROVE  RowOK(c, m)'
    BY <2>1, <2>2, OpenedKeepsRows
  <2> QED
    BY <2>3, <2>4 DEF CallOK
<1>4. CASE AcquireExhausted(c) \/ AcquireTimedOut(c)
  <2>1. stage[c] = "queue" /\ \A m \in Models : step[c][m] \in {"none", "done"}
    BY <1>2, <1>4 DEF AcquireStep
  <2>2. /\ \E r \in Results \ {"none"} : Finish(c, r)
        /\ UNCHANGED <<live, laneVars>>
    BY <1>4 DEF AcquireExhausted, AcquireTimedOut, Surface, Results
  <2> QED
    BY <2>1, <2>2, FinishKeepsCalls
<1>5. CASE AcquireBlocks(c)
  <2>1. UNCHANGED <<want, driverVars, laneVars>>
    BY <1>5 DEF AcquireBlocks, Block
  <2> QED
    BY <2>1 DEF CallOK, StageOK, RowOK, InRound, driverVars, laneVars
<1> QED
  BY <1>1, <1>3, <1>4, <1>5 DEF AcquireStep

(* and the caller's cancellation. *)
LEMMA CancellingKeepsCalls ==
  ASSUME TypeOK, RouterVarsOK, NEW c \in Callers, LaneOK(c), CallOK(c), c \in Routed,
         CallerCancels(c)
  PROVE  CallOK(c)'
<1> "cancelled" \in Results \ {"none"}
  BY DEF Results
<1>1. CASE CancelQueued(c) \/ CancelSettling(c)
  <2>1. Finish(c, "cancelled") /\ UNCHANGED <<live, laneVars>>
    BY <1>1 DEF CancelQueued, CancelSettling
  <2> QED
    BY <2>1, FinishKeepsCalls
<1>2. CASE CancelAlone(c)
  <2>1. /\ stage[c] = "alone" /\ stage'[c] = "over" /\ result'[c] = "cancelled"
        /\ UNCHANGED <<live, cutting, superseded>>
    BY <1>2 DEF CancelAlone, Finish, RouterVarsOK
  <2>2. PICK m \in live[c] :
          \/ /\ step' = [step EXCEPT ![c][m] = "done"]
             /\ verdict' = [verdict EXCEPT ![c][m] = "cut"]
             /\ UNCHANGED journaled
          \/ /\ step' = [step EXCEPT ![c][m] = "done"]
             /\ \E written \in SUBSET {m} : journaled' = [journaled EXCEPT ![c] = @ \cup written]
             /\ UNCHANGED verdict
          \/ UNCHANGED <<step, verdict, journaled>>
    BY <1>2 DEF CancelAlone
  <2>3. StageOK(c)'
    BY <2>1 DEF StageOK
  <2>4. ASSUME NEW n \in Models
        PROVE  RowOK(c, n)'
    <3>1. RowOK(c, n) /\ n \notin cutting[c]
      BY <2>1 DEF CallOK, RowOK
    <3>2. \/ step'[c][n] = "done"
          \/ /\ step'[c][n] = step[c][n] /\ verdict'[c][n] = verdict[c][n]
             /\ n \in journaled'[c] <=> n \in journaled[c]
      BY <2>2 DEF RouterVarsOK
    <3> QED
      BY <2>1, <3>1, <3>2 DEF RowOK
  <2> QED
    BY <2>3, <2>4 DEF CallOK
<1>3. CASE CancelRace(c)
  <2>1. /\ stage[c] \in {"race", "refill"} /\ stage'[c] = "abandon" /\ result'[c] = "cancelled"
        /\ cutting'[c] = cutting[c] \cup {m \in live[c] : ~Settling(c, m)}
        /\ UNCHANGED <<live, step, verdict, superseded, journaled>>
    BY <1>3 DEF CancelRace, Cancel, RouterVarsOK
  <2>2. StageOK(c)'
    BY <2>1 DEF StageOK
  <2>3. ASSUME NEW m \in Models
        PROVE  RowOK(c, m)'
    <3>1. RowOK(c, m) /\ step[c][m] \in Steps
      BY DEF CallOK, RouterVarsOK
    <3>2. m \in cutting'[c] => step[c][m] \in {"opening", "asking"}
      BY <2>1, <3>1 DEF RowOK, Settling, Steps
    <3> QED
      BY <2>1, <3>1, <3>2 DEF RowOK
  <2> QED
    BY <2>2, <2>3 DEF CallOK
<1> QED
  BY <1>1, <1>2, <1>3 DEF CallerCancels

-----------------------------------------------------------------------------
(* The inductive invariant, and what follows from it. *)

OutcomeInv == RouterInv /\ CallsOK

(* The inductive invariant holds at the start, *)
LEMMA OutcomeInit == RouterInit => OutcomeInv
<1> SUFFICES ASSUME RouterInit
             PROVE  CallsOK
  BY RouterInvInit DEF OutcomeInv
<1> QED
  BY DEF RouterInit, CallsOK, CallOK, StageOK, RowOK

(* and after every step: the call's own, another's, the pool's. *)
LEMMA OutcomeStep == OutcomeInv /\ [RouterNext]_routerVars => OutcomeInv'
<1> SUFFICES ASSUME OutcomeInv, [RouterNext]_routerVars, NEW c \in Callers
             PROVE  CallOK(c)'
  BY RouterInvStep DEF OutcomeInv, CallsOK
<1>1. TypeOK /\ RouterVarsOK /\ LanesOK /\ CallOK(c)
  BY DEF OutcomeInv, RouterInv, CallsOK
<1>2. held' \in [Callers -> SUBSET Models]
  BY RouterInvStep DEF OutcomeInv, RouterInv, TypeOK
<1>3. ASSUME c \in Routed, RoutedStep(c)
      PROVE  CallOK(c)'
  <2>1. LaneOK(c)
    BY <1>1, <1>3 DEF LanesOK
  <2> QED
    BY <1>1, <1>2, <1>3, <2>1, LanesKeepCalls, DriveKeepsCalls, QueueingKeepsCalls,
       CancellingKeepsCalls DEF RoutedStep
<1>4. ASSUME NEW d \in Routed, d # c, RoutedStep(d)
      PROVE  CallOK(c)'
  <2>1. d \in Callers /\ LaneOK(d)
    BY <1>1, RouterAssumption DEF LanesOK
  <2>2. Call(d) \/ UNCHANGED vars
    BY <1>1, <1>4, <2>1, RoutedIsPoolCall DEF PoolCall
  <2>3. want'[c] = want[c]
    BY <1>1, <1>4, <2>1, <2>2, OtherCallsKeepFilters DEF vars, callVars
  <2> QED
    BY <1>1, <1>4, <2>1, <2>3, OtherDriversAside, OtherRowsAside, AsideKeepsCalls
<1>5. ASSUME UNCHANGED <<driverVars, laneVars>>, want'[c] = want[c]
      PROVE  CallOK(c)'
  BY <1>1, <1>5, AsideKeepsCalls DEF driverVars, laneVars, DriverAside, RowsAside
<1>6. CASE (Admin \/ Clock) /\ Around
  BY <1>1, <1>5, <1>6, SurroundingsKeepFilters DEF Around
<1>7. ASSUME NEW d \in Callers \ Routed, Call(d), Around
      PROVE  CallOK(c)'
  <2>1. CASE d # c
    BY <1>1, <1>5, <1>7, <2>1, OtherCallsKeepFilters DEF Around
  <2>2. CASE d = c
    <3>1. stage[c] = "fresh"
      BY <1>1, <1>7, <2>2 DEF CallOK, StageOK
    <3> QED
      BY <1>1, <1>7, <3>1
         DEF Around, driverVars, laneVars, CallOK, StageOK, RowOK, InRound
  <2> QED
    BY <2>1, <2>2
<1>8. CASE UNCHANGED <<vars, driverVars, laneVars>>
  BY <1>5, <1>8 DEF vars, callVars
<1> QED
  BY <1>3, <1>4, <1>6, <1>7, <1>8, RouterStepKinds

(* The inductive invariant of what calls leave behind.                      *)
THEOREM OutcomeInvariant == RouterSpec => []OutcomeInv
BY OutcomeInit, OutcomeStep, PTL DEF RouterSpec

(* Superseding, cutting and crashing leave a row for every attempt that     *)
(* reached its provider, and only for those (Router._supersede, _settled,   *)
(* _attempt), for any number of lanes, rounds and calls.                    *)
THEOREM AttemptsAreJournaled == RouterSpec => []EveryAttemptIsJournaled
<1>1. OutcomeInv => EveryAttemptIsJournaled
  <2> SUFFICES ASSUME OutcomeInv, NEW c \in Callers, NEW m \in Models
               PROVE  /\ stage[c] = "queue" => step[c][m] \in {"none", "done"}
                      /\ step[c][m] = "done" /\ result[c] # "cancelled" =>
                           (m \in journaled[c] <=>
                              /\ verdict[c][m] \notin {"unpayable", "unopened"}
                              /\ verdict[c][m] = "cut" => result[c] # "crash")
    BY DEF EveryAttemptIsJournaled
  <2>1. RowOK(c, m) /\ StageOK(c)
    BY DEF OutcomeInv, CallsOK, CallOK
  <2>2. stage[c] = "queue" => step[c][m] \in {"none", "done"}
    BY <2>1 DEF OutcomeInv, RouterInv, LanesOK, LaneOK, StageOK
  <2> QED
    BY <2>1, <2>2 DEF RowOK, Rowless
<1> QED
  BY <1>1, OutcomeInvariant, PTL

(* No answer is dropped: a call that queues again or ends in an error has   *)
(* none among its lanes, however the batches of asyncio.wait fall.          *)
THEOREM AnswersAreDelivered == RouterSpec => []AnswerIsDelivered
<1>1. OutcomeInv => AnswerIsDelivered
  BY DEF OutcomeInv, CallsOK, CallOK, StageOK, RowOK, InRound, AnswerIsDelivered
<1> QED
  BY <1>1, OutcomeInvariant, PTL

(* No exception is swallowed but that of a lane already beaten: the race,   *)
(* the lone lane and _abandon hand it to the caller.                        *)
THEOREM CrashesReachTheCaller == RouterSpec => []CrashReachesTheCaller
<1>1. OutcomeInv => CrashReachesTheCaller
  BY DEF OutcomeInv, CallsOK, CallOK, StageOK, RowOK, InRound, CrashReachesTheCaller
<1> QED
  BY <1>1, OutcomeInvariant, PTL

-----------------------------------------------------------------------------
(* Whom a call asks. *)

(* A call gets slots by acquiring a round or refilling one.                 *)
LEMMA SlotsAreTakenByTwo ==
  ASSUME TypeOK, RouterVarsOK, NEW c \in Callers, RoutedStep(c)
  PROVE  held'[c] \subseteq held[c] \/ AcquireLanes(c) \/ Refill(c)
<1>1. ASSUME NEW m \in Models, AttemptBegins(c, m) \/ AttemptEnds(c, m) \/ LaneRuns(c, m)
      PROVE  held'[c] \subseteq held[c]
  <2>1. Settle(c, m) \/ UNCHANGED vars
    BY <1>1, LanesArePoolCalls
  <2> QED
    BY <2>1, SettlingOne DEF vars, callVars, heldVars
<1>2. ASSUME NEW p, Start(c, p)
      PROVE  held' = held
  BY <1>2 DEF Start, Enter, Queue, heldVars
<1>3. ASSUME AcquireExhausted(c) \/ AcquireTimedOut(c) \/ AcquireBlocks(c)
      PROVE  held' = held
  BY <1>3 DEF AcquireExhausted, AcquireTimedOut, AcquireBlocks, Exhausted, TimedOut, Block, EndCall,
              heldVars
<1>4. ASSUME NEW failed, NEW error, NEW gone, NextRound(c, failed, error, gone)
      PROVE  held' = held
  BY <1>4 DEF NextRound, EndCall, Queue, heldVars
<1>5. ASSUME AloneEnds(c) \/ RaceLost(c) \/ NothingToRefill(c)
      PROVE  held' = held
  BY <1>4, <1>5 DEF AloneEnds, RaceLost, NothingToRefill, EndCall, heldVars, vars, callVars
<1>6. ASSUME RaceWon(c) \/ RaceCrashed(c) \/ Settled(c)
      PROVE  held' = held
  BY <1>6 DEF RaceWon, RaceCrashed, Settled, EndCall, heldVars, vars, callVars
<1>7. ASSUME CancelQueued(c) \/ CancelRace(c) \/ CancelSettling(c)
      PROVE  held' = held
  BY <1>7 DEF CancelQueued, CancelQueue, CancelRace, CancelSettling, EndCall, heldVars, vars, callVars
<1>8. ASSUME CancelAlone(c)
      PROVE  held'[c] \subseteq held[c]
  <2>1. UNCHANGED vars \/ \E m \in live[c] : Release(c, m)
    BY <1>8 DEF CancelAlone
  <2> QED
    BY <2>1, SettlingOne DEF Settle, RouterVarsOK, vars, callVars, heldVars
<1> QED
  BY <1>1, <1>2, <1>3, <1>5, <1>6, <1>7, <1>8 DEF RoutedStep, AcquireStep, Drive, CallerCancels

(* Neither takes a model the call is through with. *)
LEMMA OnlyUnaskedAreTaken ==
  ASSUME TypeOK, RouterVarsOK, NEW c \in Callers, LaneOK(c), CallOK(c), RoutedStep(c),
         NEW m \in Models, m \in held'[c], m \notin held[c]
  PROVE  m \notin clientFailed[c] /\ ~(stage[c] \in {"race", "refill"} /\ m \in tried[c])
<1>1. CASE AcquireLanes(c)
  <2>1. PICK S \in Selections(FreeAmong(want[c]), knobs[c].width, knobs[c].recovery, c) :
          Reserve(c, S)
    BY <1>1 DEF AcquireLanes, Acquire
  <2>2. m \in want[c]
    BY <2>1, SelectionWithin, FreeAmongMembers DEF Reserve, TypeOK
  <2>3. stage[c] = "queue"
    BY <1>1 DEF AcquireLanes, Acquire, LaneOK
  <2> QED
    BY <2>2, <2>3 DEF CallOK, StageOK
<1>2. CASE Refill(c)
  <2>1. PICK S \in Selections(FreeAmong(Untried(c)), Needed(c), 1, c) : Reserve(c, S)
    BY <1>2 DEF Refill, TakeFree
  <2>2. m \in Untried(c)
    BY <2>1, SelectionWithin, FreeAmongMembers DEF Reserve, TypeOK
  <2> QED
    BY <2>2 DEF Untried
<1> QED
  BY <1>1, <1>2, SlotsAreTakenByTwo

(* A model that refused the request is not asked again in that call, in     *)
(* later rounds or by a refill, and none runs twice in one race.            *)
THEOREM NobodyIsAskedAgain == RouterSpec => NeverAskedAgain
<1>1. OutcomeInv /\ [RouterNext]_routerVars =>
        [\A c \in Callers, m \in Models :
           m \in clientFailed[c] \/ (stage[c] \in {"race", "refill"} /\ m \in tried[c])
             => (m \in held'[c] => m \in held[c])]_routerVars
  <2> SUFFICES ASSUME OutcomeInv, [RouterNext]_routerVars, NEW c \in Callers, NEW m \in Models,
                      m \in clientFailed[c] \/ (stage[c] \in {"race", "refill"} /\ m \in tried[c]),
                      m \in held'[c]
               PROVE  m \in held[c]
    OBVIOUS
  <2>1. TypeOK /\ RouterVarsOK /\ LanesOK /\ CallOK(c)
    BY DEF OutcomeInv, RouterInv, CallsOK
  <2>2. c \in Routed
    BY <2>1 DEF CallOK, StageOK
  <2>3. CASE RoutedStep(c)
    BY <2>1, <2>2, <2>3, OnlyUnaskedAreTaken DEF LanesOK
  <2>4. ASSUME NEW d \in Routed, d # c, RoutedStep(d)
        PROVE  m \in held[c]
    <3>1. d \in Callers /\ LaneOK(d)
      BY <2>1, RouterAssumption DEF LanesOK
    <3>2. Call(d) \/ UNCHANGED vars
      BY <2>1, <2>4, <3>1, RoutedIsPoolCall DEF PoolCall
    <3> QED
      BY <2>1, <2>4, <3>1, <3>2, OtherCallsAside DEF PoolAside, vars, callVars, heldVars
  <2>5. CASE (Admin \/ Clock) /\ Around
    BY <2>1, <2>5, SurroundingsAside DEF PoolAside
  <2>6. ASSUME NEW d \in Callers \ Routed, Call(d), Around
        PROVE  m \in held[c]
    BY <2>1, <2>2, <2>6, OtherCallsAside DEF PoolAside
  <2>7. CASE UNCHANGED <<vars, driverVars, laneVars>>
    BY <2>7 DEF vars, callVars, heldVars
  <2> QED
    BY <2>3, <2>4, <2>5, <2>6, <2>7, RouterStepKinds
<1> QED
  BY <1>1, OutcomeInvariant, PTL DEF RouterSpec, NeverAskedAgain
=============================================================================
