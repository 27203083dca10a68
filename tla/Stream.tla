-------------------------------- MODULE Stream --------------------------------
(***************************************************************************)
(* One streamed call: the owner of its lanes (broker/stream_owner.py), the *)
(* attempts they run (broker/streaming.py) and the handle the caller holds *)
(* (broker/result.py).                                                     *)
(*                                                                         *)
(* A stream opens lanes in waves, each in a task of its own, shows the     *)
(* caller the deltas of one, keeps the other complete answers for          *)
(* another(), and settles every lane when it is closed.  An ordinary       *)
(* stream (width 1) commits to the first delta and reads that lane at the  *)
(* caller's pace; a raced one (width > 1) shows a provisional lane and is  *)
(* settled by the first complete answer.                                   *)
(*                                                                         *)
(* `pull` is the await the caller's pull or continuation stands at; what   *)
(* the code does between two awaits is one action.  Acquisition is         *)
(* LLMPool's: here it returns some untried models, in rank order, or       *)
(* raises.  The budget is running or spent.                                *)
(***************************************************************************)
EXTENDS Integers, FiniteSets, Sequences, FiniteSetsExt, Functions

CONSTANTS
  Models,     \* the models, each opened at most once by a stream
  NoLane,     \* no lane at all
  Widths,     \* fastest_of, 1 for an ordinary stream
  MaxDeltas,  \* the longest answer in deltas, by the width asked
  Faults      \* how an attempt may fail at its provider: a failover error, a
              \* refusal of the request itself, an unexpected exception

ASSUME StreamAssumption ==
  /\ IsFiniteSet(Models)
  /\ NoLane \notin Models
  /\ Widths \subseteq Nat \ {0}
  /\ MaxDeltas \in [Widths -> Nat \ {0}]
  /\ Faults \subseteq {"failed", "refused", "crashed"}

VARIABLES
  asked,      \* what the caller asked for: the width, and whether `wait` is positive
  lane,       \* the lanes by model
  waves,      \* the width of every wave opened so far
  eligible,   \* the names the handle may open
  refreshed,  \* whether the one refresh on exhaustion is used up
  spent,      \* whether the budget's deadline has passed
  lent,       \* whether the reader of an ordinary stream holds a delta
  pulled,     \* the shown lane's permission to read on
  wake,       \* the event the lanes set and the owner waits for
  window,     \* whether the preferred lane's privilege still runs
  early,      \* whether its first delta precedes the end of that window
  shown,      \* the lane whose deltas the caller reads
  initial,    \* the lane that completed the initial answer
  answers,    \* the lanes handed over as complete answers, in that order
  terminal,   \* whether another() has nothing left to give
  receipt,    \* what the handle says answered, and whether it can be rated
  pull,       \* where the active pull or continuation stands
  back,       \* where it goes on after a refill
  needed,     \* the lanes the refill found missing
  target,     \* the lane it waits for; once closing, the one to be published
  closing,    \* the progress of aclose
  raised      \* the fault that ended the stream

budgetVars == <<spent, lent, pulled>>
raceVars == <<wake, window, early, shown, initial>>
poolVars == <<waves, eligible, refreshed>>
resultVars == <<answers, terminal, receipt, raised>>
pullVars == <<pull, back, needed, target>>
vars == <<asked, lane, budgetVars, raceVars, poolVars, resultVars, pullVars, closing>>

Unopened == [step |-> "unopened", got |-> 0, sent |-> 0, verdict |-> "none", freed |-> 0,
             rows |-> <<>>, first |-> 0, completedAt |-> 0, hold |-> FALSE, pos |-> 0,
             wave |-> 0, mark |-> "none", absorbed |-> FALSE, settled |-> FALSE]

Ordinary == asked.width = 1

(* The active pull is for the initial answer, or continues behind it. *)
goal == IF initial = NoLane THEN "initial" ELSE "another"

Opened == {m \in Models : lane[m].step # "unopened"}

Untried == eligible \ Opened

Finished(m) == lane[m].step = "done"
Live == {m \in Opened : ~Finished(m)}

(* A failure the reader of the lane would see raised. *)
Broken(m) == Finished(m) /\ (lane[m].verdict = "crashed"
                             \/ (lane[m].got > 0 /\ lane[m].verdict \in {"failed", "expired"}))

(* Finished lanes without a complete answer are folded into the call. *)
Absorbed == [m \in Models |->
  [lane[m] EXCEPT !.absorbed = @ \/ (Finished(m) /\ lane[m].completedAt = 0)]]

ExpiredIn(L) == \E m \in Models : L[m].absorbed /\ L[m].verdict = "expired"
RefusedIn(L) == \E m \in Models : L[m].absorbed /\ L[m].verdict = "refused"
Expired == ExpiredIn(lane)
Refused == RefusedIn(lane)
Crashed == \E m \in Models : lane[m].verdict = "crashed"

Completed == {m \in Models : lane[m].completedAt # 0}
Buffered == Completed \ Range(answers)

(* Fault: answers are kept in the order their lanes opened. *)
OpenedEarlier(m, n) == lane[m].pos < lane[n].pos

Earlier(m, n) == \/ lane[m].completedAt < lane[n].completedAt
                 \/ /\ lane[m].completedAt = lane[n].completedAt
                    /\ lane[m].pos < lane[n].pos

FirstBuffered == CHOOSE m \in Buffered : \A n \in Buffered \ {m} : Earlier(m, n)

(* Fault: a tie goes by rank, whatever the caller is reading. *)
WinnerByRank ==
  IF Completed = {} THEN NoLane
  ELSE CHOOSE m \in Completed : \A n \in Completed \ {m} : Earlier(m, n)

(* The first complete answer; a tie keeps the lane being read. *)
Winner ==
  IF Completed = {} THEN NoLane
  ELSE CHOOSE m \in Completed : \A n \in Completed \ {m} :
         /\ lane[m].completedAt <= lane[n].completedAt
         /\ lane[m].completedAt = lane[n].completedAt =>
              m = shown \/ (n # shown /\ lane[m].pos < lane[n].pos)

Spoken == {m \in Models : lane[m].first # 0}
FirstToSpeak == IF Spoken = {} THEN NoLane
                ELSE CHOOSE m \in Spoken : \A n \in Spoken : lane[m].first <= lane[n].first

Preferred == CHOOSE m \in Models : lane[m].pos = 1

(* Whose deltas a raced stream shows. *)
Select == IF early THEN Preferred
          ELSE IF ~Finished(Preferred) /\ window THEN NoLane
          ELSE FirstToSpeak

Won == Winner # NoLane /\ Finished(Winner)

(* Fault: the text moves to a running lane when the one being read breaks.  *)
VisibleFailsOver ==
  IF Opened = {} THEN NoLane
  ELSE IF shown = NoLane THEN Select
  ELSE IF Broken(shown) /\ Live # {} THEN CHOOSE m \in Live : TRUE
  ELSE shown

(* Once chosen, the lane a raced stream shows is never chosen again.        *)
Visible == IF shown = NoLane /\ Opened # {} THEN Select ELSE shown

-----------------------------------------------------------------------------
(* The attempt of one lane. *)

Stamp(f) == 1 + Max({f[m] : m \in Models})

LaneOnly == UNCHANGED <<asked, poolVars, resultVars, pullVars, closing>>

(* The slot goes back with the verdict; the row follows in Record. *)
Dispose(m, v) ==
  lane' = [lane EXCEPT ![m].step = "settling", ![m].verdict = v, ![m].freed = @ + 1]

(* The deadline of the call is pushed back only when the reader returns: a  *)
(* lane a refill opens before that may find it behind it.                   *)
Begin(m) ==
  /\ lane[m].step = "begun"
  /\ lane[m].mark = "none"
  /\ \/ (spent \/ (lent /\ asked.budgeted)) /\ Dispose(m, "expired")
     \/ ~spent /\ lane' = [lane EXCEPT ![m].step = "asking"]
  /\ LaneOnly /\ UNCHANGED <<budgetVars, raceVars>>

(* The key went since the slot was taken: no attempt, no row. *)
KeyGone(m) ==
  /\ lane[m].step = "begun"
  /\ lane[m].mark = "none"
  /\ lane' = [lane EXCEPT ![m].step = "done", ![m].verdict = "keyless", ![m].freed = @ + 1]
  /\ wake' = TRUE
  /\ LaneOnly /\ UNCHANGED <<budgetVars, window, early, shown, initial>>

Asking(m) == lane[m].step = "asking" /\ lane[m].mark = "none"

(* A lane of an ordinary stream stops at its first delta until one lane is  *)
(* chosen, and the chosen one at every delta until the reader asks for more.*)
Holds(m) == Ordinary /\ (shown = m \/ (shown = NoLane /\ lane[m].hold /\ lane[m].got = 0))

Delta(m) ==
  /\ Asking(m)
  /\ lane[m].got < MaxDeltas[asked.width]
  /\ lane' = [lane EXCEPT
       ![m].got = @ + 1,
       ![m].first = IF @ = 0 THEN Stamp([n \in Models |-> lane[n].first]) ELSE @,
       ![m].step = IF Holds(m) THEN "held" ELSE "asking"]
  /\ early' = (early \/ (lane[m].pos = 1 /\ lane[m].got = 0 /\ window))
  /\ wake' = TRUE
  /\ LaneOnly /\ UNCHANGED <<budgetVars, window, shown, initial>>

ReadOn(m) ==
  /\ lane[m].step = "held"
  /\ lane[m].mark = "none"
  /\ shown # NoLane
  /\ shown = m => pulled
  /\ pulled' = (pulled /\ shown # m)
  /\ lane' = [lane EXCEPT ![m].step = "asking"]
  /\ LaneOnly /\ UNCHANGED <<spent, lent, raceVars>>

(* Fault: the receipt is marked before the row is journaled. *)
CompleteSettled(m) ==
  /\ Asking(m)
  /\ lane[m].got > 0
  /\ LET next == Stamp([n \in Models |-> lane[n].completedAt])
     IN  \E at \in {next - 1, next} \ {0} :
           lane' = [lane EXCEPT ![m].step = "settling", ![m].verdict = "answered",
                                ![m].freed = @ + 1, ![m].completedAt = at, ![m].settled = TRUE]
  /\ LaneOnly /\ UNCHANGED <<budgetVars, raceVars>>

(* The provider's stream ends normally.  The clock may be too coarse to     *)
(* tell this completion from the last one.                                  *)
Complete(m) ==
  /\ Asking(m)
  /\ lane[m].got > 0
  /\ LET next == Stamp([n \in Models |-> lane[n].completedAt])
     IN  \E at \in {next - 1, next} \ {0} :
           lane' = [lane EXCEPT ![m].step = "settling", ![m].verdict = "answered",
                                ![m].freed = @ + 1, ![m].completedAt = at]
  /\ LaneOnly /\ UNCHANGED <<budgetVars, raceVars>>

(* An empty answer is a failover error; a refusal comes before any delta.   *)
Fail(m) ==
  /\ Asking(m)
  /\ \E v \in Faults :
       /\ v = "refused" => lane[m].got = 0
       /\ Dispose(m, v)
  /\ LaneOnly /\ UNCHANGED <<budgetVars, raceVars>>

(* The deadline stands still while the reader holds a delta.  A lane that   *)
(* has spoken is ended alike by the ceiling of its own request.             *)
Expire(m) ==
  /\ Asking(m)
  /\ (spent /\ ~lent) \/ lane[m].got > 0
  /\ Dispose(m, "expired")
  /\ LaneOnly /\ UNCHANGED <<budgetVars, raceVars>>

Row(v) == CASE v \in {"answered", "stopped"} -> "ok"
            [] v = "superseded"              -> "superseded"
            [] OTHER                         -> "error"

(* The verdicts whose rows can be rated. *)
Rateable == {"answered", "stopped"}

(* Fault: a lane superseded while it settles is journaled as superseded.    *)
RecordAsMarked(m) ==
  /\ lane[m].step = "settling"
  /\ lane' = [lane EXCEPT
       ![m].step = IF lane[m].verdict \in Rateable THEN "journaled" ELSE "done",
       ![m].rows = Append(@, Row(IF lane[m].mark # "none" THEN lane[m].mark
                                                          ELSE lane[m].verdict))]
  /\ wake' = IF lane[m].verdict \in Rateable THEN wake ELSE TRUE
  /\ LaneOnly /\ UNCHANGED <<budgetVars, window, early, shown, initial>>

(* What was decided on leaving the provider stands, whatever comes after.   *)
(* The row of a failed attempt is the last thing its lane does.             *)
Record(m) ==
  /\ lane[m].step = "settling"
  /\ lane' = [lane EXCEPT
       ![m].step = IF lane[m].verdict \in Rateable THEN "journaled" ELSE "done",
       ![m].rows = Append(@, Row(lane[m].verdict))]
  /\ wake' = IF lane[m].verdict \in Rateable THEN wake ELSE TRUE
  /\ LaneOnly /\ UNCHANGED <<budgetVars, window, early, shown, initial>>

(* Behind the await of its row an answer marks the receipt of its attempt,  *)
(* and then its lane is over.                                               *)
Settle(m) ==
  /\ lane[m].step = "journaled"
  /\ lane' = [lane EXCEPT ![m].step = "done", ![m].settled = TRUE]
  /\ wake' = TRUE
  /\ LaneOnly /\ UNCHANGED <<budgetVars, window, early, shown, initial>>

(* Fault: a lane cut before it ran leaves its slot to nobody. *)
CutKeepsSlot(m) ==
  /\ lane[m].mark # "none"
  /\ \/ /\ lane[m].step = "begun"
        /\ lane' = [lane EXCEPT ![m].step = "done"]
     \/ /\ lane[m].step \in {"asking", "held"}
        /\ Dispose(m, lane[m].mark)
  /\ LaneOnly /\ UNCHANGED <<budgetVars, raceVars>>

(* The close reaches the lane: cut before its attempt began it only hands   *)
(* its slot back, cut at the provider or at a delta it settles as marked.   *)
Cut(m) ==
  /\ lane[m].mark # "none"
  /\ \/ /\ lane[m].step = "begun"
        /\ lane' = [lane EXCEPT ![m].step = "done", ![m].freed = @ + 1]
     \/ /\ lane[m].step \in {"asking", "held"}
        /\ Dispose(m, lane[m].mark)
  /\ LaneOnly /\ UNCHANGED <<budgetVars, raceVars>>

LaneStep(m) == \/ Begin(m) \/ KeyGone(m) \/ Delta(m) \/ ReadOn(m) \/ Complete(m)
               \/ Fail(m) \/ Expire(m) \/ Record(m) \/ Settle(m) \/ Cut(m)

-----------------------------------------------------------------------------
(* The clock. *)

BudgetSpent ==
  /\ asked.budgeted /\ ~spent /\ ~lent
  /\ spent' = TRUE
  /\ UNCHANGED <<asked, lane, lent, pulled, raceVars, poolVars, resultVars, pullVars, closing>>

(* Its end also ends the pause that waits for it. *)
WindowCloses ==
  /\ window
  /\ window' = FALSE
  /\ wake' = (wake \/ (pull = "pause" /\ goal = "initial" /\ shown = NoLane
                      /\ ~Finished(Preferred)))
  /\ UNCHANGED <<asked, lane, budgetVars, early, shown, initial>>
  /\ UNCHANGED <<poolVars, resultVars, pullVars, closing>>

-----------------------------------------------------------------------------
(* Opening lanes. *)

(* Up to n untried models in the order the pool ranks them. *)
Rankings(n) == {q \in UNION {[1 .. k -> Untried] : k \in 1 .. n} : IsInjective(q)}

(* The lanes of q, in table L, belonging to wave w. *)
Open(L, q, hold, w) ==
  [m \in Models |->
     IF m \notin Range(q) THEN L[m]
     ELSE [Unopened EXCEPT !.step = "begun", !.hold = hold, !.wave = w,
             !.pos = Cardinality(Opened) + (CHOOSE i \in DOMAIN q : q[i] = m)]]

Pending(m) == (~Finished(m) \/ lane[m].completedAt # 0) /\ m \notin Range(answers)

(* Fault: an answer already handed over leaves its place to another lane.   *)
MissingUnanswered ==
  waves[Len(waves)] - Cardinality({m \in Opened : lane[m].wave = Len(waves) /\ Pending(m)})

(* What the last wave lacks of its width. *)
Missing ==
  LET here == {m \in Opened : lane[m].wave = Len(waves)}
  IN  waves[Len(waves)] - Cardinality({m \in here : Pending(m) \/ m \in Range(answers)})

(* _refill_free up to its await, in the pull that goes on at `next`.        *)
StartRefill(next) ==
  IF waves = <<>> \/ ExpiredIn(lane') \/ Buffered # {} \/ Missing <= 0
  THEN /\ pull' = next
       /\ UNCHANGED <<back, needed>>
  ELSE /\ pull' = "refill"
       /\ back' = next
       /\ needed' = Missing

(* Fault: the event is cleared behind the await, right before it is waited for. *)
RefillAndClear ==
  /\ pull = "refill"
  /\ \/ UNCHANGED lane
     \/ /\ Buffered = {}
        /\ \E q \in Rankings(needed) : lane' = Open(lane, q, FALSE, Len(waves))
  /\ pull' = back
  /\ needed' = 0
  /\ back' = "idle"
  /\ wake' = FALSE
  /\ UNCHANGED <<asked, budgetVars, window, early, shown, initial>>
  /\ UNCHANGED <<poolVars, resultVars, target, closing>>

(* The await ends: still_needed is asked at the reservation.                *)
Refill ==
  /\ pull = "refill"
  /\ \/ UNCHANGED lane
     \/ /\ Buffered = {}
        /\ \E q \in Rankings(needed) : lane' = Open(lane, q, FALSE, Len(waves))
  /\ pull' = back
  /\ needed' = 0
  /\ back' = "idle"
  /\ UNCHANGED <<asked, budgetVars, raceVars, poolVars, resultVars, target, closing>>

-----------------------------------------------------------------------------
(* The pull of the initial answer. *)

(* The fault ends the pull, and the handle closes behind it.                *)
Raise(kind) ==
  /\ raised' = kind
  /\ pull' = "idle"
  /\ closing' = "cancelling"
  /\ UNCHANGED <<answers, terminal, receipt, back, needed, target>>

(* The text the caller saw, a bug, the rejected request, the fallback.      *)
InitialFault(L, fallback) ==
  IF shown # NoLane /\ Broken(shown) THEN "lane"
  ELSE IF Crashed THEN "crash"
  ELSE IF RefusedIn(L) THEN "client_error"
  ELSE fallback

(* Fault: the shown lane is not told that its delta was read. *)
PullUntold ==
  /\ closing = "open" /\ pull = "idle" /\ initial = NoLane
  /\ pull' = "run"
  /\ lent' = FALSE
  /\ UNCHANGED <<asked, lane, spent, pulled, raceVars, poolVars, resultVars>>
  /\ UNCHANGED <<back, needed, target, closing>>

(* A resumed reader lets the budget run and the shown lane read on.         *)
Pull ==
  /\ closing = "open" /\ pull = "idle" /\ initial = NoLane
  /\ pull' = "run"
  /\ lent' = FALSE
  /\ pulled' = (pulled \/ lent)
  /\ UNCHANGED <<asked, lane, spent, raceVars, poolVars, resultVars, back, needed, target, closing>>

Expose(m) == shown' = m /\ receipt' = [receipt EXCEPT !.lane = m]

Publish(m) == receipt' = [lane |-> m, settled |-> lane[m].settled]

CompleteInitial(m) ==
  /\ initial' = m
  /\ answers' = Append(answers, m)
  /\ Publish(m)
  /\ pull' = "idle"
  /\ UNCHANGED <<back, needed>>

(* One delta of m is handed to the reader, after a refill.                  *)
Lend(m) ==
  /\ lane' = [lane EXCEPT ![m].sent = @ + 1]
  /\ lent' = TRUE
  /\ StartRefill("idle")

(* Before its first delta an ordinary stream opens, refills and listens.    *)
Search ==
  /\ pull = "run" /\ goal = "initial" /\ Ordinary /\ shown = NoLane
  /\ lane' = Absorbed
  /\ wake' = FALSE
  /\ StartRefill("look")
  /\ UNCHANGED <<asked, budgetVars, window, early, shown, initial, poolVars, resultVars>>
  /\ UNCHANGED <<target, closing>>

(* Commits to the first lane that spoke, or waits for one to.               *)
Commit(L) ==
  IF FirstToSpeak = NoLane
  THEN /\ lane' = L
       /\ pull' = "pause"
       /\ UNCHANGED <<lent, shown, receipt, back, needed>>
  ELSE /\ Expose(FirstToSpeak)
       /\ lane' = [L EXCEPT ![FirstToSpeak].sent = @ + 1]
       /\ lent' = TRUE
       /\ StartRefill("idle")

Listen ==
  /\ pull = "look" /\ goal = "initial"
  /\ \/ /\ Live # {}
        /\ Commit(lane)
        /\ UNCHANGED <<answers, terminal, raised, target, closing>>
     \/ /\ Live = {} /\ Expired
        /\ Raise(InitialFault(lane, "timeout"))
        /\ UNCHANGED <<lane, lent, shown>>
     \/ /\ Live = {} /\ ~Expired
        /\ pull' = "acquire"
        /\ UNCHANGED <<lane, lent, shown, resultVars, back, needed, target, closing>>
  /\ UNCHANGED <<asked, spent, pulled, wake, window, early, initial, poolVars>>

(* An ordinary stream that has committed: the next delta, the end, or a     *)
(* wait for either.                                                         *)
Read ==
  /\ pull = "run" /\ goal = "initial" /\ Ordinary /\ shown # NoLane
  /\ wake' = FALSE
  /\ \/ /\ lane[shown].sent < lane[shown].got
        /\ Lend(shown)
        /\ UNCHANGED <<initial, resultVars, closing>>
     \/ /\ lane[shown].sent = lane[shown].got /\ ~Finished(shown)
        /\ UNCHANGED <<lane, lent, initial, resultVars, closing>>
        /\ StartRefill("pause")
     \/ /\ lane[shown].sent = lane[shown].got /\ Finished(shown)
        /\ IF lane[shown].verdict = "answered"
           THEN CompleteInitial(shown) /\ UNCHANGED <<terminal, raised, closing>>
           ELSE Raise("lane") /\ UNCHANGED initial
        /\ UNCHANGED <<lane, lent>>
  /\ UNCHANGED <<asked, spent, pulled, window, early, shown, poolVars, target>>

(* A raced stream: the winner's rest or its replacement, a new wave, or the *)
(* next delta of the provisional lane.                                      *)
Race ==
  /\ pull = "run" /\ goal = "initial" /\ ~Ordinary
  /\ wake' = FALSE
  /\ LET absorb == Absorbed
         seen   == Visible
         late   == ExpiredIn(absorb)
     IN  \/ /\ Won /\ shown \in {NoLane, Winner} /\ lane[Winner].sent < lane[Winner].got
            /\ Expose(Winner)
            /\ lane' = [absorb EXCEPT ![Winner].sent = @ + 1]
            /\ pull' = "idle"
            /\ UNCHANGED <<initial, answers, terminal, raised, back, needed, target, closing>>
         \/ /\ Won /\ (shown \notin {NoLane, Winner} \/ lane[Winner].sent = lane[Winner].got)
            /\ CompleteInitial(Winner)
            /\ lane' = absorb
            /\ UNCHANGED <<shown, terminal, raised, target, closing>>
         \/ /\ ~Won /\ Live = {} /\ late
            /\ lane' = absorb
            /\ Raise(InitialFault(absorb, "timeout"))
            /\ UNCHANGED <<shown, initial>>
         \/ /\ ~Won /\ Live = {} /\ ~late
            /\ lane' = absorb
            /\ pull' = "acquire"
            /\ UNCHANGED <<shown, initial, resultVars, back, needed, target, closing>>
         \/ /\ ~Won /\ Live # {}
            /\ IF seen # shown THEN Expose(seen) ELSE UNCHANGED <<shown, receipt>>
            /\ IF seen # NoLane /\ lane[seen].sent < lane[seen].got
               THEN /\ lane' = [absorb EXCEPT ![seen].sent = @ + 1]
                    /\ pull' = "idle"
                    /\ UNCHANGED <<back, needed>>
               ELSE /\ lane' = absorb
                    /\ StartRefill("pause")
            /\ UNCHANGED <<initial, answers, terminal, raised, target, closing>>
  /\ UNCHANGED <<asked, budgetVars, window, early, poolVars>>

Resume ==
  /\ pull = "pause" /\ wake
  /\ pull' = "run"
  /\ UNCHANGED <<asked, lane, budgetVars, raceVars, poolVars, resultVars>>
  /\ UNCHANGED <<back, needed, target, closing>>

-----------------------------------------------------------------------------
(* Acquisition of a wave. *)

(* A wave is as wide as asked, or wider where it covers a recovery.         *)
Acquire ==
  /\ pull = "acquire"
  /\ \E q \in Rankings(Max({asked.width, 2})) :
       LET opened == Open(lane, q, Ordinary /\ goal = "initial", Len(waves) + 1)
           first  == goal = "initial" /\ ~Ordinary
       IN  /\ waves' = Append(waves, Max({asked.width, Len(q)}))
           /\ window' = (window \/ first)
           /\ early' = (early \/ (first /\ \E m \in Spoken : lane[m].pos = 1))
           /\ IF goal = "initial" /\ Ordinary
              THEN IF FirstToSpeak = NoLane
                   THEN /\ lane' = opened
                        /\ pull' = "pause"
                        /\ UNCHANGED <<lent, shown, receipt>>
                   ELSE /\ lane' = [opened EXCEPT ![FirstToSpeak].sent = 1]
                        /\ Expose(FirstToSpeak)
                        /\ lent' = TRUE
                        /\ pull' = "idle"
              ELSE /\ lane' = opened
                   /\ pull' = "run"
                   /\ UNCHANGED <<lent, shown, receipt>>
  /\ UNCHANGED <<asked, spent, pulled, wake, initial, eligible, refreshed>>
  /\ UNCHANGED <<answers, terminal, raised, back, needed, target, closing>>

(* The pool can give nothing.  Once, before any answer, the names may be    *)
(* refreshed; otherwise the rejected request goes before everything else.   *)
NothingLeft ==
  /\ pull = "acquire"
  /\ \/ /\ goal = "initial" /\ ~refreshed
        /\ refreshed' = TRUE
        /\ eligible' = Models
        /\ UNCHANGED <<resultVars, pullVars, closing>>
     \/ /\ goal = "initial"
        /\ \/ Raise(InitialFault(lane, "no_llm"))
           \/ (Refused /\ Raise("client_error"))
        /\ UNCHANGED <<eligible, refreshed>>
     \/ /\ goal = "another" /\ Refused
        /\ Raise("client_error")
        /\ UNCHANGED <<eligible, refreshed>>
     \/ /\ goal = "another" /\ ~Refused /\ Crashed
        /\ Raise("crash")
        /\ UNCHANGED <<eligible, refreshed>>
     \/ /\ goal = "another" /\ ~Refused /\ ~Crashed
        /\ terminal' = TRUE
        /\ pull' = "idle"
        /\ UNCHANGED <<answers, receipt, raised, back, needed, target, closing>>
        /\ UNCHANGED <<eligible, refreshed>>
  /\ UNCHANGED <<asked, lane, budgetVars, raceVars, waves>>

-----------------------------------------------------------------------------
(* Further answers. *)

Another ==
  /\ closing = "open" /\ pull = "idle" /\ initial # NoLane /\ ~terminal
  /\ pull' = "run"
  /\ UNCHANGED <<asked, lane, budgetVars, raceVars, poolVars, resultVars>>
  /\ UNCHANGED <<back, needed, target, closing>>

(* The earliest complete answer is taken; its settlement is waited for.     *)
Continue ==
  /\ pull = "run" /\ goal = "another"
  /\ lane' = Absorbed
  /\ wake' = FALSE
  /\ IF Buffered # {}
     THEN /\ target' = FirstBuffered
          /\ pull' = "settle"
          /\ UNCHANGED <<back, needed>>
     ELSE /\ StartRefill("look")
          /\ UNCHANGED target
  /\ UNCHANGED <<asked, budgetVars, window, early, shown, initial, poolVars, resultVars>>
  /\ UNCHANGED <<closing>>

Answer ==
  /\ pull = "settle" /\ Finished(target)
  /\ answers' = Append(answers, target)
  /\ pull' = "idle"
  /\ target' = NoLane
  /\ UNCHANGED <<asked, lane, budgetVars, raceVars, poolVars, terminal, receipt, raised>>
  /\ UNCHANGED <<back, needed, closing>>

(* Fault: a spent budget ends the stream beside lanes that still run. *)
BufferedOnly == Buffered # {}

Outstanding == Buffered # {} \/ Live # {}

Seek ==
  /\ pull = "look" /\ goal = "another"
  /\ \/ /\ Outstanding \/ ~(Expired \/ spent)
        /\ pull' = IF Buffered # {} THEN "run" ELSE IF Live # {} THEN "pause" ELSE "acquire"
        /\ UNCHANGED <<resultVars, closing>>
     \/ /\ ~Outstanding /\ (Expired \/ spent)
        /\ IF Refused \/ Crashed
           THEN /\ raised' = IF Refused THEN "client_error" ELSE "crash"
                /\ closing' = "cancelling"
                /\ UNCHANGED terminal
           ELSE /\ terminal' = TRUE
                /\ UNCHANGED <<raised, closing>>
        /\ pull' = "idle"
        /\ UNCHANGED <<answers, receipt>>
  /\ UNCHANGED <<asked, lane, budgetVars, raceVars, poolVars, back, needed, target>>

-----------------------------------------------------------------------------
(* Closing. *)

(* aclose, the end of a context, or the cancellation of a pull.             *)
Close ==
  /\ closing = "open"
  /\ closing' = "cancelling"
  /\ UNCHANGED <<asked, lane, budgetVars, raceVars, poolVars, resultVars, pullVars>>

(* Whom an early close publishes: the first complete answer, else the text. *)
Settled == IF Winner # NoLane THEN Winner ELSE IF initial # NoLane THEN initial ELSE shown

(* How each running lane is to settle; one already settling takes no notice. *)
Marked(m) ==
  CASE m \notin Live -> "none"
    [] initial = NoLane /\ Winner = NoLane /\ m = shown -> "stopped"
    [] OTHER -> "superseded"

CloseLanes ==
  /\ closing = "cancelling"
  /\ pull' = "idle"
  /\ lane' = [m \in Models |-> [lane[m] EXCEPT !.mark = Marked(m)]]
  /\ target' = IF initial = NoLane THEN Settled ELSE NoLane
  /\ closing' = "stopping"
  /\ UNCHANGED <<asked, budgetVars, raceVars, poolVars, resultVars, back, needed>>

CloseEnds ==
  /\ closing = "stopping"
  /\ Live = {}
  /\ IF target # NoLane THEN Publish(target) ELSE UNCHANGED receipt
  /\ closing' = "closed"
  /\ UNCHANGED <<asked, lane, budgetVars, raceVars, poolVars, answers, terminal, raised, pullVars>>

-----------------------------------------------------------------------------

Init ==
  /\ asked \in [width : Widths, budgeted : BOOLEAN]
  /\ lane = [m \in Models |-> Unopened]
  /\ waves = <<>>
  /\ eligible \in SUBSET Models \ {{}}
  /\ refreshed = FALSE
  /\ spent \in {FALSE, asked.budgeted}
  /\ lent = FALSE
  /\ pulled = FALSE
  /\ wake = FALSE
  /\ window = FALSE
  /\ early = FALSE
  /\ shown = NoLane
  /\ initial = NoLane
  /\ answers = <<>>
  /\ terminal = FALSE
  /\ receipt = [lane |-> NoLane, settled |-> FALSE]
  /\ raised = "none"
  /\ pull = "idle"
  /\ back = "idle"
  /\ needed = 0
  /\ target = NoLane
  /\ closing = "open"

Owner == \/ Refill \/ Search \/ Listen \/ Read \/ Race \/ Resume \/ Acquire \/ NothingLeft
         \/ Continue \/ Answer \/ Seek \/ CloseLanes \/ CloseEnds

Caller == Pull \/ Another \/ Close

(* What the stream does of itself, whatever its caller does. *)
Running == Owner \/ WindowCloses \/ \E m \in Models : LaneStep(m)

Next == Running \/ Caller \/ BudgetSpent

(* The loop runs some ready task as long as there is one, every provider    *)
(* stream ends, the pool answers or refuses (LLMPool!EveryWaiterIsWoken),   *)
(* and the window is a clock.  No task is promised a turn before another,   *)
(* and the caller owes nothing, not even a close.                           *)
Fairness == WF_vars(Running)

Spec == Init /\ [][Next]_vars /\ Fairness

-----------------------------------------------------------------------------
(* Properties. *)

StreamTypeOK ==
  /\ lane \in [Models ->
       [step : {"unopened", "begun", "asking", "held", "settling", "journaled", "done"},
        got : 0 .. MaxDeltas[asked.width], sent : 0 .. MaxDeltas[asked.width],
        verdict : {"none", "answered", "stopped", "superseded", "failed", "refused",
                   "crashed", "expired", "keyless"},
        freed : Nat, rows : Seq({"ok", "superseded", "error"}),
        first : 0 .. Cardinality(Models), completedAt : 0 .. Cardinality(Models),
        hold : BOOLEAN, pos : 0 .. Cardinality(Models), wave : 0 .. Len(waves),
        mark : {"none", "stopped", "superseded"}, absorbed : BOOLEAN, settled : BOOLEAN]]
  /\ waves \in Seq(Nat \ {0})
  /\ eligible \subseteq Models
  /\ {shown, initial, target, receipt.lane} \subseteq Models \cup {NoLane}
  /\ Range(answers) \subseteq Models
  /\ pull \in {"idle", "run", "refill", "look", "acquire", "pause", "settle"}
  /\ closing \in {"open", "cancelling", "stopping", "closed"}

(* However a lane ends, by itself, cut at any point of its life by a close, *)
(* or with the close arriving while it settles: its slot goes back exactly  *)
(* once, and all slots are back when the close returns (_close, _stop,      *)
(* stream_attempt).                                                         *)
SlotsComeBack ==
  /\ \A m \in Models :
       lane[m].freed = IF lane[m].step \in {"settling", "journaled", "done"} THEN 1 ELSE 0
  /\ closing = "closed" => Live = {}

(* Every attempt leaves one row, and supersession is never applied after    *)
(* the fact: a lane that completed keeps its OK row although the close      *)
(* found it still settling (call-path.md, "Supersession").                  *)
OneRowEach ==
  \A m \in Models :
    /\ Len(lane[m].rows) <= 1
    /\ Finished(m) /\ lane[m].completedAt # 0 => lane[m].rows = <<"ok">>
    /\ Finished(m) /\ lane[m].verdict \notin {"none", "keyless"} => Len(lane[m].rows) = 1

(* Whatever the lanes, refills and waves do between the reader's pulls, all *)
(* the text it was given comes from one lane, in full when the initial      *)
(* answer ends with that lane (_ordinary_initial, _explicit_initial).       *)
NeverSpliced ==
  /\ Cardinality({m \in Models : lane[m].sent > 0}) <= 1
  /\ \A m \in Models : lane[m].sent > 0 =>
       /\ m = shown
       /\ initial = m => lane[m].sent = lane[m].got

(* A complete answer of another lane withdraws the text being read only in  *)
(* a race, and only where that text has not been completed as early, even   *)
(* where the clock cannot tell the two apart (StreamRace.winner).           *)
WithdrawnOnlyForAnEarlierAnswer ==
  [][initial' # initial /\ initial' # shown' =>
       /\ ~Ordinary
       /\ \/ lane[shown].completedAt = 0
          \/ lane[initial'].completedAt < lane[shown].completedAt]_vars

(* Complete answers are handed over once each and, after the initial one,   *)
(* in the order their providers completed, across waves (_buffered_lane).   *)
AnswersInOrder ==
  /\ IsInjective(answers)
  /\ \A i, j \in 2 .. Len(answers) :
       i < j => lane[answers[i]].completedAt <= lane[answers[j]].completedAt

(* None of another() means that no complete answer is left behind.          *)
NoAnswerLeftBehind == terminal => Completed \subseteq Range(answers)

(* The lanes of a wave that still owe or hold an answer never exceed its    *)
(* width, although a refill counts them before an await and opens after it  *)
(* (_refill_free).                                                          *)
WithinTheWave ==
  \A w \in DOMAIN waves :
    Cardinality({m \in Opened : lane[m].wave = w /\ (Pending(m) \/ m \in Range(answers))})
      <= waves[w]

(* No rating precedes the row it rates: not through the receipt an attempt  *)
(* keeps, nor an answer that was handed over, nor the handle.  And the      *)
(* handle can be rated once its answer has ended or its stream is closed    *)
(* over a lane with its row (CallReceipt, settle, _publish).                *)
RateableOnceJournaled ==
  /\ \A m \in Models : lane[m].settled \/ m \in Range(answers) => lane[m].rows = <<"ok">>
  /\ receipt.settled => receipt.lane # NoLane /\ lane[receipt.lane].rows = <<"ok">>
  /\ \/ initial # NoLane
     \/ closing = "closed" /\ receipt.lane # NoLane /\ lane[receipt.lane].rows = <<"ok">>
     => receipt.settled

(* The naming is unset until the call settles on a model, and fixed from    *)
(* then on; past its first delta an ordinary stream is committed to what    *)
(* answered (call-path.md:246, invariants.md:120).                          *)
NamingIsFixed ==
  [][Ordinary /\ receipt.lane # NoLane => receipt'.lane = receipt.lane]_vars

(* Wherever the owner waits for its lanes to set the event, one that runs   *)
(* still will, or waits only for a reader that has asked for more: nothing  *)
(* that cleared the event, held a lane or closed a wave was the last hope   *)
(* (race.wake, lane.release_first and lane.pulled in RoutedStream).         *)
EveryPauseHasAWaker ==
  pull = "pause" /\ ~wake =>
    \E m \in Live : lane[m].step = "held" => shown # NoLane /\ (shown = m => pulled)

(* A pull or a continuation comes back and a close comes to its end,        *)
(* wherever it found them: the reader, the lane it is shown, the lanes held *)
(* at their first delta and the refills never wait for each other.          *)
StreamComesToRest ==
  (pull # "idle" \/ closing \in {"cancelling", "stopping"})
    ~> (pull = "idle" /\ closing \in {"open", "closed"})
==============================================================================
