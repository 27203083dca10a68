------------------------------- MODULE Journal -------------------------------
(***************************************************************************)
(* The journal and what is learned from it: the day files of the file      *)
(* store (standalone/store.py), the ratings of answered calls              *)
(* (broker/result.py, AsyncLLMs.record_quality), the quality windows and   *)
(* the budget bounds that are kept live and derived again from the tail of *)
(* the journal by every rebuild (optimizer.py, broker/learning.py).        *)
(*                                                                         *)
(* One installation in one process, beside others on the same directory.   *)
(* A row or a rating is stamped, then written by another thread: its file  *)
(* is that of the stamp.  An operation of a model is a model of its own,   *)
(* and a tick of time is a day of the files.                               *)
(***************************************************************************)
EXTENDS Integers, Sequences, FiniteSets, SequencesExt

CONSTANTS
  Calls,      \* attempts of routed calls, each with an id
  Models,
  Model,      \* the model of every call
  Trace,      \* the trace of every call: a host may reuse one
  Raters,     \* the tasks that rate
  Scores,
  Budgets,    \* the answer budgets on offer
  Window,     \* quality_window
  Limit,      \* TAIL_READ_LIMIT
  Retention,  \* how many ticks back the journal reaches
  RatingSpan, \* how many the search for a rated call does
  BoundSpan,  \* how long a missed budget counts
  MaxTime,    \* bound on time
  MaxEvents   \* bound on writes that fail, restarts and ratings

None == -1
Unanswered == [budget |-> 0, until |-> 0]

ASSUME JournalAssumption ==
  /\ IsFiniteSet(Calls)
  /\ Model \in [Calls -> Models] /\ DOMAIN Trace = Calls
  /\ Scores \subseteq Nat /\ Budgets \subseteq Nat \ {0}
  /\ {Window, Limit, BoundSpan} \subseteq Nat \ {0}
  /\ {Retention, RatingSpan, MaxTime, MaxEvents} \subseteq Nat

VARIABLES
  now,
  files,    \* the lines of every day file
  call,     \* how far the settlement of a call is
  rater,    \* how far a rating is
  window,   \* Optimizer._scores: pairs of a call and its score, oldest first
  bound,    \* LLMPool._budget_bounds
  fails,    \* Optimizer._rl_fail_count
  learning, \* the rebuild's last step: the rows it read, the bounds it found
  purged,   \* when the last purge was due, None in a new process
  events

vars == <<now, files, call, rater, window, bound, fails, learning, purged, events>>

Days == 0 .. MaxTime
(* Over budget before an answer began, or in the middle of one: only the first of  *)
(* the two cools the model, and so does a failure, but not a refusal.              *)
OverBudget == {"missed", "cut"}
Cooled == {"missed", "failed"}
Statuses == {"ok", "failed", "refused"} \cup OverBudget
Lost == [at |-> "past", status |-> "none", budget |-> 0, ts |-> 0]
NoRating == [at |-> "idle", call |-> None, score |-> 0, ts |-> 0]
NotLearning == [at |-> "idle", rows |-> <<>>, bounds |-> [m \in Models |-> Unanswered]]

Init ==
  /\ now = 0
  /\ files = [d \in Days |-> <<>>]
  /\ call = [c \in Calls |-> [at |-> "running", status |-> "none", budget |-> 0, ts |-> 0]]
  /\ rater = [r \in Raters |-> NoRating]
  /\ window = [m \in Models |-> <<>>]
  /\ bound = [m \in Models |-> Unanswered]
  /\ fails = [m \in Models |-> 0]
  /\ learning = NotLearning
  /\ purged = None
  /\ events = 0

Event == events < MaxEvents /\ events' = events + 1

Tick ==
  /\ now < MaxTime
  /\ now' = now + 1
  /\ UNCHANGED <<files, call, rater, window, bound, fails, learning, purged, events>>

----------------------------------------------------------------------------
(* Reading the tail. *)

Lines == FlattenSeq([d \in 1 .. MaxTime + 1 |-> files[d - 1]])

(* One line of the reverse pass: the first rating met for a call is its newest, and *)
(* is met before the call.                                                          *)
Met(acc, row, limit, among, since) ==
  CASE Len(acc.rows) = limit -> acc
    [] Len(acc.rows) < limit /\ row.kind = "rating" ->
         [acc EXCEPT !.pending[row.call] = IF @ = None THEN row.score ELSE @]
    [] Len(acc.rows) < limit /\ row.kind = "call" /\ row.call \in among /\ row.ts >= since ->
         [acc EXCEPT !.rows = Append(@, [row EXCEPT !.score = acc.pending[row.call]])]
    [] OTHER -> acc

(* What the reverse pass holds after each line. *)
Pass(lines, limit, among, since) ==
  LET after[k \in 0 .. Len(lines)] ==
        IF k = 0 THEN [rows |-> <<>>, pending |-> [c \in Calls |-> None]]
        ELSE Met(after[k - 1], lines[Len(lines) - k + 1], limit, among, since)
  IN  after

(* The newest `limit` rows of the calls `among`, newest first, with their ratings.  *)
ReadTail(limit, among, since) ==
  LET lines == Lines IN Pass(lines, limit, among, since)[Len(lines)].rows

(* The file of a line is that of its stamp. *)
FileOf(stamp) == stamp

(* Day files beyond the horizon, once per tick and process, at a write.             *)
Purged(fs) == IF purged = now THEN fs
              ELSE [d \in Days |-> IF d < now - Retention THEN <<>> ELSE fs[d]]

----------------------------------------------------------------------------
(* What is learned. *)

Latest(n, s) == SubSeq(s, IF Len(s) > n THEN Len(s) - n + 1 ELSE 1, Len(s))

(* Fault: a call rated again counts again. *)
FoldedAgain(w, c, s) == Latest(Window, Append(w, <<c, s>>))

(* A call in the window keeps its place and takes the new score. *)
Folded(w, c, s) ==
  IF \E i \in DOMAIN w : w[i][1] = c
  THEN [i \in DOMAIN w |-> IF w[i][1] = c THEN <<c, s>> ELSE w[i]]
  ELSE Latest(Window, Append(w, <<c, s>>))

(* One row of the loop over them, newest first: a bucket takes what is rated until it *)
(* is as long as a window.                                                            *)
Bucketed(bucket, row, m) ==
  IF Model[row.call] = m /\ row.score # None /\ Len(bucket) < Window
  THEN Append(bucket, <<row.call, row.score>>) ELSE bucket

(* What the bucket of a model holds after each of the rows. *)
Bucket(rows, m) ==
  LET after[k \in 0 .. Len(rows)] == IF k = 0 THEN <<>> ELSE Bucketed(after[k - 1], rows[k], m)
  IN  after

WindowsOf(rows) == [m \in Models |-> Reverse(Bucket(rows, m)[Len(rows)])]

(* By model the largest budget it missed since it last answered, and until when. *)
BoundsOf(rows) ==
  [m \in Models |->
     LET retired(i) == \E j \in 1 .. i - 1 : Model[rows[j].call] = m /\ rows[j].status = "ok"
         missed == {i \in DOMAIN rows : /\ Model[rows[i].call] = m /\ rows[i].status \in OverBudget
                                        /\ rows[i].ts > now - BoundSpan /\ ~retired(i)}
         most   == {i \in missed : \A j \in missed : rows[j].budget <= rows[i].budget}
     IN  IF missed = {} THEN Unanswered
         ELSE LET i == CHOOSE i \in most : \A j \in most : i <= j
              IN  [budget |-> rows[i].budget, until |-> rows[i].ts + BoundSpan]]

Current(b) == IF b.until > now THEN b ELSE Unanswered

(* A lapsed bound counts for nothing. *)
Raised(b, budget) ==
  [budget |-> IF Current(b).budget > budget THEN b.budget ELSE budget, until |-> now + BoundSpan]

----------------------------------------------------------------------------
(* The settlement of a call. *)

(* The pool learns at once, the row is stamped. *)
Settle(c) ==
  /\ call[c].at = "running"
  /\ \E s \in Statuses, b \in Budgets :
       /\ s \notin OverBudget => \A o \in Budgets : b <= o
       /\ call' = [call EXCEPT ![c] =
            [at |-> "record", status |-> s, budget |-> IF s \in OverBudget THEN b ELSE 0, ts |-> now]]
       /\ bound' = CASE s = "ok" -> [bound EXCEPT ![Model[c]] = Unanswered]
                     [] s \in OverBudget -> [bound EXCEPT ![Model[c]] = Raised(@, b)]
                     [] OTHER -> bound
  /\ UNCHANGED <<now, files, rater, window, fails, learning, purged, events>>

RowOf(c) == [kind |-> "call", call |-> c, status |-> call[c].status,
             budget |-> call[c].budget, score |-> None, ts |-> call[c].ts]

(* The streak of cooled failures, which the next backoff is the power of.            *)
Streak(c) ==
  CASE call[c].status = "ok" -> [fails EXCEPT ![Model[c]] = 0]
    [] call[c].status \in Cooled -> [fails EXCEPT ![Model[c]] = @ + 1]
    [] OTHER -> fails

Written(row) ==
  /\ files' = Purged([files EXCEPT ![FileOf(row.ts)] = Append(@, row)])
  /\ purged' = now

(* Fault: nothing is learned of a call whose row is lost. *)
RecordUnobserved(c) ==
  /\ call[c].at = "record"
  /\ \/ Written(RowOf(c)) /\ fails' = Streak(c) /\ UNCHANGED events
     \/ Event /\ UNCHANGED <<files, fails, purged>>
  /\ call' = [call EXCEPT ![c].at = "over"]
  /\ UNCHANGED <<now, rater, window, bound, learning>>

(* The row reaches its file, or is lost with a line in the log; either way the call  *)
(* is learned from and over, and its result can be rated.                            *)
Record(c) ==
  /\ call[c].at = "record"
  /\ \/ Written(RowOf(c)) /\ UNCHANGED events
     \/ Event /\ UNCHANGED <<files, purged>>
  /\ fails' = Streak(c)
  /\ call' = [call EXCEPT ![c].at = "over"]
  /\ UNCHANGED <<now, rater, window, bound, learning>>

----------------------------------------------------------------------------
(* Ratings. *)

Rating(r, c) ==
  \E s \in Scores : rater' = [rater EXCEPT ![r] = [at |-> "write", call |-> c, score |-> s, ts |-> now]]

(* Fault: a result can be rated before its row is written. *)
RateResultEarly(r, c) ==
  /\ rater[r].at = "idle" /\ Event
  /\ call[c].at \in {"record", "over"} /\ call[c].status = "ok"
  /\ Rating(r, c)
  /\ UNCHANGED <<now, files, call, window, bound, fails, learning, purged>>

(* Through the result: no journal read. *)
RateResult(r, c) ==
  /\ rater[r].at = "idle" /\ Event
  /\ call[c].at = "over" /\ call[c].status = "ok"
  /\ Rating(r, c)
  /\ UNCHANGED <<now, files, call, window, bound, fails, learning, purged>>

(* What a trace names: the newest calls of it, back to the horizon of ratings. *)
Traced(t) == ReadTail(Limit, {d \in Calls : Trace[d] = t}, now - RatingSpan)

(* By its trace: the newest attempt of it that answered.  The read is over when the  *)
(* rating is stamped.                                                                *)
RateTrace(r, c) ==
  LET rows == Traced(Trace[c])
  IN /\ rater[r].at = "idle" /\ Event
     /\ \E i \in DOMAIN rows : /\ rows[i].call = c /\ rows[i].status = "ok"
                              /\ \A j \in 1 .. i - 1 : rows[j].status # "ok"
     /\ Rating(r, c)
     /\ UNCHANGED <<now, files, call, window, bound, fails, learning, purged>>

(* A rating that is not written raises, and is not observed. *)
WriteRating(r) ==
  /\ rater[r].at = "write"
  /\ \/ /\ Written([kind |-> "rating", call |-> rater[r].call, score |-> rater[r].score,
                     ts |-> rater[r].ts])
        /\ rater' = [rater EXCEPT ![r].at = "observe"]
        /\ UNCHANGED events
     \/ /\ Event
        /\ rater' = [rater EXCEPT ![r] = NoRating]
        /\ UNCHANGED <<files, purged>>
  /\ UNCHANGED <<now, call, window, bound, fails, learning>>

Observe(r) ==
  /\ rater[r].at = "observe"
  /\ window' = [window EXCEPT ![Model[rater[r].call]] = Folded(@, rater[r].call, rater[r].score)]
  /\ rater' = [rater EXCEPT ![r] = NoRating]
  /\ UNCHANGED <<now, files, call, bound, fails, learning, purged, events>>

----------------------------------------------------------------------------
(* The rebuild, on the refresh clock and at its other triggers. *)

ReadRows ==
  /\ learning.at = "idle"
  /\ learning' = [learning EXCEPT !.at = "read", !.rows = ReadTail(Limit, Calls, 0)]
  /\ UNCHANGED <<now, files, call, rater, window, bound, fails, purged, events>>

(* Fault: what the windows hold stays. *)
LoadIntoWindows ==
  /\ learning.at = "read"
  /\ window' = [m \in Models |-> IF window[m] # <<>> THEN window[m] ELSE WindowsOf(learning.rows)[m]]
  /\ learning' = [at |-> "bounds", rows |-> <<>>, bounds |-> BoundsOf(learning.rows)]
  /\ UNCHANGED <<now, files, call, rater, bound, fails, purged, events>>

(* The windows are replaced at once, the bounds when the pool's condition is held. *)
LoadScores ==
  /\ learning.at = "read"
  /\ window' = WindowsOf(learning.rows)
  /\ learning' = [at |-> "bounds", rows |-> <<>>, bounds |-> BoundsOf(learning.rows)]
  /\ UNCHANGED <<now, files, call, rater, bound, fails, purged, events>>

ApplyBounds ==
  /\ learning.at = "bounds"
  /\ bound' = learning.bounds
  /\ learning' = NotLearning
  /\ UNCHANGED <<now, files, call, rater, window, fails, purged, events>>

(* The process dies: a call that had not settled leaves no row. *)
Restart ==
  /\ Event
  /\ call' = [c \in Calls |-> CASE call[c].at = "over" -> [call[c] EXCEPT !.at = "past"]
                                [] call[c].at = "record" -> Lost
                                [] OTHER -> call[c]]
  /\ rater' = [r \in Raters |-> NoRating]
  /\ window' = [m \in Models |-> <<>>]
  /\ bound' = [m \in Models |-> Unanswered]
  /\ fails' = [m \in Models |-> 0]
  /\ learning' = NotLearning
  /\ purged' = None
  /\ UNCHANGED <<now, files>>

Learn == ReadRows \/ LoadScores \/ ApplyBounds
RateStep(r) == WriteRating(r) \/ Observe(r)
Settling == (\E c \in Calls : Record(c)) \/ \E r \in Raters : RateStep(r)

Next ==
  \/ \E c \in Calls : Settle(c) \/ Record(c)
  \/ \E r \in Raters : RateStep(r) \/ \E c \in Calls : RateResult(r, c) \/ RateTrace(r, c)
  \/ Learn \/ Tick \/ Restart

JournalSpec == Init /\ [][Next]_vars

(* Threads end what they were given, no one before another, and rebuilds go on: one  *)
(* has a step to take in every state, which makes this their weak fairness.          *)
FairJournalSpec == JournalSpec /\ []<><<Learn>>_vars /\ WF_vars(Settling)

----------------------------------------------------------------------------
IsRating(row) == row.kind = "rating"

JournalTypeOK ==
  /\ now \in Days /\ purged \in Days \cup {None} /\ events \in 0 .. MaxEvents
  /\ \A d \in Days : \A i \in DOMAIN files[d] :
       /\ files[d][i].call \in Calls /\ files[d][i].kind \in {"call", "rating"}
       /\ files[d][i].ts = d
  /\ \A c \in Calls : /\ call[c].at \in {"running", "record", "over", "past"}
                      /\ call[c].status \in Statuses \cup {"none"}
  /\ \A r \in Raters : rater[r].at \in {"idle", "write", "observe"}
  /\ \A m \in Models : /\ Len(window[m]) <= Window
                       /\ bound[m].budget \in Budgets \cup {0}
                       /\ fails[m] \in Nat
  /\ learning.at \in {"idle", "read", "bounds"}

(* The rating of a call, by definition: the last one written for it.                     *)
NewestRating(lines, c) ==
  LET mine == {i \in DOMAIN lines : IsRating(lines[i]) /\ lines[i].call = c}
  IN IF mine = {} THEN None ELSE lines[Max(mine)].score

(* One reverse pass that stops at the limit reads the newest calls with the newest       *)
(* rating of each, whatever order threads wrote the rows in, whatever was purged, and    *)
(* wherever midnight fell between a stamp and its write (FileStore._read_tail).          *)
TailIsTheJoin ==
  LET lines    == Lines
      calls    == {i \in DOMAIN lines : ~IsRating(lines[i])}
      newer(i) == Cardinality({j \in calls : j > i})
  IN \A limit \in 1 .. Limit :
       LET rows == ReadTail(limit, Calls, 0)
       IN /\ Len(rows) = Min({limit, Cardinality(calls)})
          /\ \A i \in calls : newer(i) < limit =>
               rows[newer(i) + 1] = [lines[i] EXCEPT !.score = NewestRating(lines, lines[i].call)]

(* A window counts answered calls of its own model, each once, however often the host    *)
(* rated it and however ratings and rebuilds interleave (Optimizer.record_quality,       *)
(* load_scores, _resolve_rated).                                                         *)
OneObservationEach ==
  \A m \in Models : \A i \in DOMAIN window[m] :
    LET c == window[m][i][1]
    IN /\ Model[c] = m /\ call[c].status = "ok"
       /\ \A j \in DOMAIN window[m] : window[m][j][1] = c => i = j

(* A journal nobody can write does not blind the process to its failures: until a model   *)
(* answers, every cooled failure of it counts, also one whose row is lost                 *)
(* (Router._log_call).                                                                    *)
LossDoesNotBlind ==
  \A m \in Models :
    LET over == {c \in Calls : Model[c] = m /\ call[c].at = "over"}
        down == {c \in over : call[c].status \in Cooled}
    IN  (\A c \in over : call[c].status # "ok") => fails[m] = Cardinality(down)

(* What the process goes by comes to what the journal says, although a rebuild replaces  *)
(* windows and bounds wholesale by rows it read before it waited, a rating is folded in  *)
(* meanwhile, a row is lost or a restart forgets everything (Learner.relearn).           *)
LearnedFollowsTheJournal ==
  <>[](LET rows == ReadTail(Limit, Calls, 0)
       IN /\ window = WindowsOf(rows)
          /\ \A m \in Models : Current(bound[m]) = Current(BoundsOf(rows)[m]))
=============================================================================
