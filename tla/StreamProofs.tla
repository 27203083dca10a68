---------------------------- MODULE StreamProofs ----------------------------
(***************************************************************************)
(* Theorems about Stream, for any models, widths, lengths of answers and   *)
(* faults.                                                                 *)
(***************************************************************************)
EXTENDS Stream, FiniteSetTheorems, TLAPS

-----------------------------------------------------------------------------
(* Finite sets have least elements: the choices of the owner exist. *)

TotalOn(R, S) ==
  /\ \A a, b \in S : <<a, b>> \in R \/ <<b, a>> \in R
  /\ \A a, b, c \in S : <<a, b>> \in R /\ <<b, c>> \in R => <<a, c>> \in R

LEMMA FiniteHasLeast ==
  ASSUME NEW S, IsFiniteSet(S), NEW R, TotalOn(R, S)
  PROVE  \A T \in SUBSET S : T # {} => \E x \in T : \A y \in T : <<x, y>> \in R
<1> USE DEF TotalOn
<1> DEFINE Bad == {T \in SUBSET S : T # {} /\ ~ \E x \in T : \A y \in T : <<x, y>> \in R}
<1>1. SUFFICES ASSUME Bad # {} PROVE FALSE
  OBVIOUS
<1>2. PICK T \in Bad : \A U \in Bad : <<U, T>> \notin StrictSubsetOrdering(S)
  <2>1. FiniteSubsetsOf(S) = SUBSET S
    BY FS_FiniteSubsetsOfFinite
  <2>2. IsWellFoundedOn(StrictSubsetOrdering(S), SUBSET S)
    BY <2>1, FS_StrictSubsetOrderingWellFounded
  <2>3. Bad \subseteq SUBSET S
    OBVIOUS
  <2> HIDE DEF Bad
  <2> QED BY <1>1, <2>2, <2>3, WFMin
<1>3. PICK x \in T : TRUE
  OBVIOUS
<1>4. <<T \ {x}, T>> \in StrictSubsetOrdering(S)
  BY <1>3 DEF StrictSubsetOrdering
<1>5. T \ {x} \notin Bad
  BY <1>2, <1>4
<1>6. CASE T \ {x} = {}
  <2>1. \A y \in T : <<x, y>> \in R
    BY <1>6, <1>3
  <2> QED BY <2>1, <1>2, <1>3
<1>7. CASE T \ {x} # {}
  <2>1. PICK u \in T \ {x} : \A y \in T \ {x} : <<u, y>> \in R
    BY <1>5, <1>7
  <2>2. CASE <<u, x>> \in R
    BY <2>1, <2>2, <1>2
  <2>3. CASE <<x, u>> \in R
    <3>1. \A y \in T : <<x, y>> \in R
      BY <2>1, <2>3, <1>3
    <3> QED BY <3>1, <1>2, <1>3
  <2> QED BY <2>1, <2>2, <2>3, <1>3
<1> QED BY <1>6, <1>7

LEMMA MaxOf ==
  ASSUME NEW S, IsFiniteSet(S), S # {}, S \subseteq Nat
  PROVE  Max(S) \in S /\ \A y \in S : Max(S) >= y
<1> DEFINE R == {p \in S \X S : p[1] >= p[2]}
<1>1. \A a, b \in S : <<a, b>> \in R <=> a >= b
  OBVIOUS
<1> HIDE DEF R
<1>0. \A a, b \in S : a \in Nat /\ b \in Nat /\ (a >= b \/ b >= a)
  OBVIOUS
<1>2. \A a, b \in S : <<a, b>> \in R \/ <<b, a>> \in R
  BY <1>0, <1>1
<1>3. \A a, b, c \in S : <<a, b>> \in R /\ <<b, c>> \in R => <<a, c>> \in R
  BY <1>0, <1>1
<1>4. \E x \in S : \A y \in S : <<x, y>> \in R
  BY <1>2, <1>3, FiniteHasLeast DEF TotalOn
<1> QED BY <1>4, <1>1 DEF Max

LEMMA MaxOfTwo ==
  ASSUME NEW a \in Nat, NEW b \in Nat
  PROVE  Max({a, b}) \in Nat /\ Max({a, b}) >= a /\ Max({a, b}) >= b
<1>1. IsFiniteSet({a}) /\ IsFiniteSet({b})
  BY FS_Singleton
<1>2. {a, b} = {a} \cup {b}
  OBVIOUS
<1>3. IsFiniteSet({a, b})
  BY <1>1, <1>2, FS_Union
<1> QED BY <1>3, MaxOf

(* The stamp of an event is beyond all earlier ones. *)
LEMMA Stamped ==
  ASSUME NEW f, \A m \in Models : f[m] \in Nat, Models # {}
  PROVE  /\ Stamp(f) \in Nat /\ Stamp(f) > 0
         /\ \A m \in Models : f[m] <= Stamp(f) - 1
<1> DEFINE S == {f[m] : m \in Models}
<1>1. IsFiniteSet(S)
  <2>1. [m \in Models |-> f[m]] \in Surjection(Models, S)
    BY DEF Surjection
  <2>2. IsFiniteSet(Models)
    BY StreamAssumption DEF StreamAssumption
  <2> HIDE DEF S
  <2> QED BY <2>1, <2>2, FS_Surjection
<1>2. Max(S) \in S /\ \A y \in S : Max(S) >= y
  BY <1>1, MaxOf
<1> QED BY <1>2 DEF Stamp

-----------------------------------------------------------------------------
(* One lane. *)

LaneRecs ==
  [step : {"unopened", "begun", "asking", "held", "settling", "journaled", "done"},
   got : Nat, sent : Nat,
   verdict : {"none", "answered", "stopped", "superseded", "failed", "refused",
              "crashed", "expired", "keyless"},
   freed : Nat, rows : Seq({"ok", "superseded", "error"}), first : Nat, completedAt : Nat,
   hold : BOOLEAN, pos : Nat, wave : Nat,
   mark : {"none", "stopped", "superseded"}, absorbed : BOOLEAN, settled : BOOLEAN]

(* Where it stands decides its slot, its row, its verdict and its receipt. *)
LaneOK(r) ==
  /\ r \in LaneRecs
  /\ r.freed = IF r.step \in {"settling", "journaled", "done"} THEN 1 ELSE 0
  /\ r.rows = IF r.step \in {"journaled", "done"} /\ r.verdict \notin {"none", "keyless"}
              THEN <<Row(r.verdict)>> ELSE <<>>
  /\ r.step \in {"unopened", "begun", "asking", "held"} => r.verdict = "none"
  /\ r.step = "settling" => r.verdict \notin {"none", "keyless"}
  /\ r.step = "journaled" => r.verdict \in Rateable
  /\ r.settled <=> r.step = "done" /\ r.verdict \in Rateable
  /\ r.completedAt # 0 <=> r.verdict = "answered"
  /\ r.verdict = "answered" => r.got > 0
  /\ r.step \in {"unopened", "begun"} => r.got = 0
  /\ r.step = "done" /\ r.verdict \in {"none", "keyless"} => r.got = 0
  /\ r.first # 0 <=> r.got > 0
  /\ r.step = "held" => r.got > 0
  /\ r.step # "unopened" => r.pos >= 1
  /\ r.step = "unopened" => r.pos = 0

(* What the owner and the caller leave of a lane. *)
Same(r, s) ==
  /\ s \in LaneRecs
  /\ s.step = r.step /\ s.got = r.got /\ s.verdict = r.verdict
  /\ s.freed = r.freed /\ s.rows = r.rows /\ s.settled = r.settled
  /\ s.first = r.first /\ s.completedAt = r.completedAt
  /\ s.pos = r.pos /\ s.wave = r.wave

(* What its own steps leave of it. *)
Goes(r, s) ==
  /\ r.step \notin {"unopened", "done"} /\ s.step # "unopened"
  /\ s.pos = r.pos /\ s.wave = r.wave /\ s.sent = r.sent
  /\ r.first # 0 => s.first = r.first
  /\ r.completedAt # 0 => s.completedAt = r.completedAt

(* It has just been opened. *)
Opens(r, s) ==
  /\ LaneOK(s)
  /\ r.step = "unopened" /\ s.step = "begun"
  /\ s.sent = 0 /\ s.first = 0 /\ s.completedAt = 0

LEMMA SameIsOK ==
  ASSUME NEW r, NEW s, LaneOK(r), Same(r, s)
  PROVE  LaneOK(s)
  BY DEF LaneOK, Same

LEMMA SameIsSame ==
  ASSUME NEW r \in LaneRecs
  PROVE  /\ Same(r, r)
         /\ \A b \in BOOLEAN : LET s == [r EXCEPT !.absorbed = b]
                               IN  Same(r, s) /\ s.sent = r.sent /\ s.absorbed = b
         /\ \A k \in Nat : Same(r, [r EXCEPT !.sent = k]) /\ [r EXCEPT !.sent = k].sent = k
         /\ \A x \in {"none", "stopped", "superseded"} :
              Same(r, [r EXCEPT !.mark = x]) /\ [r EXCEPT !.mark = x].sent = r.sent
  BY DEF Same, LaneRecs

(* On leaving its provider a lane hands back its slot; the rest follows.    *)
LEMMA DisposedIsOK ==
  ASSUME NEW r, LaneOK(r), r.step \in {"begun", "asking", "held"},
         NEW v \in {"stopped", "superseded", "failed", "refused", "crashed", "expired"}
  PROVE  LET s == [r EXCEPT !.step = "settling", !.verdict = v, !.freed = @ + 1]
         IN  LaneOK(s) /\ Goes(r, s) /\ s.completedAt = r.completedAt /\ s.first = r.first
<1> DEFINE f == r.freed + 1
<1>1. r \in LaneRecs /\ f \in Nat
  BY DEF LaneOK, LaneRecs
<1>6. f = 1
  BY DEF LaneOK, LaneRecs
<1> HIDE DEF f
<1> DEFINE s == [r EXCEPT !.step = "settling", !.verdict = v, !.freed = f]
<1>2. s \in LaneRecs
  BY <1>1 DEF LaneRecs
<1>3. /\ s.step = "settling" /\ s.verdict = v /\ s.freed = f /\ s.got = r.got
      /\ s.sent = r.sent /\ s.rows = r.rows /\ s.first = r.first /\ s.pos = r.pos
      /\ s.settled = r.settled /\ s.wave = r.wave /\ s.completedAt = r.completedAt
  BY <1>1 DEF LaneRecs
<1> HIDE DEF s
<1>4. LaneOK(s)
  BY <1>1, <1>2, <1>3, <1>6 DEF LaneOK
<1>5. Goes(r, s)
  BY <1>3 DEF Goes, LaneOK
<1> QED BY <1>3, <1>4, <1>5 DEF f, s

LEMMA AnsweredIsOK ==
  ASSUME NEW r, LaneOK(r), r.step = "asking", r.got > 0, NEW at \in Nat \ {0}
  PROVE  LET s == [r EXCEPT !.step = "settling", !.verdict = "answered",
                            !.freed = @ + 1, !.completedAt = at]
         IN  LaneOK(s) /\ Goes(r, s) /\ s.completedAt = at /\ s.first = r.first
<1> DEFINE f == r.freed + 1
<1>1. r \in LaneRecs /\ f \in Nat
  BY DEF LaneOK, LaneRecs
<1>6. f = 1
  BY DEF LaneOK, LaneRecs
<1> HIDE DEF f
<1> DEFINE s == [r EXCEPT !.step = "settling", !.verdict = "answered",
                         !.freed = f, !.completedAt = at]
<1>2. s \in LaneRecs
  BY <1>1 DEF LaneRecs
<1>3. /\ s.step = "settling" /\ s.verdict = "answered" /\ s.freed = f /\ s.got = r.got
      /\ s.sent = r.sent /\ s.rows = r.rows /\ s.first = r.first /\ s.pos = r.pos
      /\ s.settled = r.settled /\ s.wave = r.wave /\ s.completedAt = at
  BY <1>1 DEF LaneRecs
<1> HIDE DEF s
<1>4. LaneOK(s)
  BY <1>1, <1>2, <1>3, <1>6 DEF LaneOK
<1>5. Goes(r, s)
  BY <1>3 DEF Goes, LaneOK
<1> QED BY <1>3, <1>4, <1>5 DEF f, s

LEMMA ReturnedIsOK ==
  ASSUME NEW r, LaneOK(r), r.step = "begun", NEW v \in {"none", "keyless"}
  PROVE  LET s == [r EXCEPT !.step = "done", !.verdict = v, !.freed = @ + 1]
         IN  LaneOK(s) /\ Goes(r, s) /\ s.completedAt = r.completedAt /\ s.first = r.first
<1> DEFINE f == r.freed + 1
<1>1. r \in LaneRecs /\ f \in Nat
  BY DEF LaneOK, LaneRecs
<1>6. f = 1
  BY DEF LaneOK, LaneRecs
<1> HIDE DEF f
<1> DEFINE s == [r EXCEPT !.step = "done", !.verdict = v, !.freed = f]
<1>2. s \in LaneRecs
  BY <1>1 DEF LaneRecs
<1>3. /\ s.step = "done" /\ s.verdict = v /\ s.freed = f /\ s.got = r.got
      /\ s.sent = r.sent /\ s.rows = r.rows /\ s.first = r.first /\ s.pos = r.pos
      /\ s.settled = r.settled /\ s.wave = r.wave /\ s.completedAt = r.completedAt
  BY <1>1 DEF LaneRecs
<1> HIDE DEF s
<1>4. LaneOK(s)
  BY <1>1, <1>2, <1>3, <1>6 DEF LaneOK, Rateable
<1>5. Goes(r, s)
  BY <1>3 DEF Goes, LaneOK
<1> QED BY <1>3, <1>4, <1>5 DEF f, s

LEMMA RecordedIsOK ==
  ASSUME NEW r, LaneOK(r), r.step = "settling"
  PROVE  LET s == [r EXCEPT !.step = IF r.verdict \in Rateable THEN "journaled" ELSE "done",
                            !.rows = Append(@, Row(r.verdict))]
         IN  LaneOK(s) /\ Goes(r, s) /\ s.completedAt = r.completedAt /\ s.first = r.first
<1> DEFINE x == IF r.verdict \in Rateable THEN "journaled" ELSE "done"
<1> DEFINE q == Append(r.rows, Row(r.verdict))
<1>1. Row(r.verdict) \in {"ok", "superseded", "error"}
  BY DEF Row
<1>2. Append(<<>>, Row(r.verdict)) = <<Row(r.verdict)>>
  OBVIOUS
<1>3. <<Row(r.verdict)>> \in Seq({"ok", "superseded", "error"})
  BY <1>1
<1>4. q = <<Row(r.verdict)>> /\ x \in {"journaled", "done"} /\ r \in LaneRecs
  BY <1>2 DEF LaneOK
<1>5. x = "journaled" <=> r.verdict \in Rateable
  OBVIOUS
<1> HIDE DEF x, q
<1> DEFINE s == [r EXCEPT !.step = x, !.rows = q]
<1>6. s \in LaneRecs
  BY <1>3, <1>4 DEF LaneRecs
<1>7. /\ s.step = x /\ s.verdict = r.verdict /\ s.freed = r.freed /\ s.got = r.got
      /\ s.sent = r.sent /\ s.rows = q /\ s.first = r.first /\ s.pos = r.pos
      /\ s.settled = r.settled /\ s.wave = r.wave /\ s.completedAt = r.completedAt
  BY <1>4 DEF LaneRecs
<1> HIDE DEF s
<1>8. LaneOK(s)
  BY <1>4, <1>5, <1>6, <1>7 DEF LaneOK
<1>9. Goes(r, s)
  BY <1>4, <1>7 DEF Goes
<1> QED BY <1>7, <1>8, <1>9 DEF q, s, x

LEMMA SettledIsOK ==
  ASSUME NEW r, LaneOK(r), r.step = "journaled"
  PROVE  LET s == [r EXCEPT !.step = "done", !.settled = TRUE]
         IN  LaneOK(s) /\ Goes(r, s) /\ s.completedAt = r.completedAt /\ s.first = r.first
<1> DEFINE s == [r EXCEPT !.step = "done", !.settled = TRUE]
<1>1. r \in LaneRecs
  BY DEF LaneOK
<1>2. s \in LaneRecs
  BY <1>1 DEF LaneRecs
<1>3. /\ s.step = "done" /\ s.settled = TRUE /\ s.verdict = r.verdict /\ s.freed = r.freed
      /\ s.got = r.got /\ s.sent = r.sent /\ s.rows = r.rows /\ s.first = r.first
      /\ s.pos = r.pos /\ s.wave = r.wave /\ s.completedAt = r.completedAt
  BY <1>1 DEF LaneRecs
<1> HIDE DEF s
<1>4. LaneOK(s)
  BY <1>2, <1>3 DEF LaneOK, Rateable
<1>5. Goes(r, s)
  BY <1>3 DEF Goes
<1> QED BY <1>3, <1>4, <1>5 DEF s

LEMMA AskedIsOK ==
  ASSUME NEW r, LaneOK(r), r.step \in {"begun", "held"}
  PROVE  LET s == [r EXCEPT !.step = "asking"]
         IN  LaneOK(s) /\ Goes(r, s) /\ s.completedAt = r.completedAt /\ s.first = r.first
  BY DEF LaneOK, Goes, LaneRecs

LEMMA ToldIsOK ==
  ASSUME NEW r, LaneOK(r), r.step = "asking", NEW x \in {"held", "asking"}, NEW n \in Nat \ {0}
  PROVE  LET s == [r EXCEPT !.got = @ + 1, !.first = IF @ = 0 THEN n ELSE @, !.step = x]
         IN  LaneOK(s) /\ Goes(r, s) /\ s.completedAt = r.completedAt /\ s.first # 0
<1> DEFINE g == r.got + 1
<1> DEFINE k == IF r.first = 0 THEN n ELSE r.first
<1>1. r \in LaneRecs /\ g \in Nat /\ k \in Nat /\ g > 0 /\ k # 0
  BY DEF LaneOK, LaneRecs
<1> HIDE DEF g, k
<1> DEFINE s == [r EXCEPT !.got = g, !.first = k, !.step = x]
<1>2. s \in LaneRecs
  BY <1>1 DEF LaneRecs
<1>3. /\ s.step = x /\ s.verdict = r.verdict /\ s.freed = r.freed /\ s.got = g
      /\ s.sent = r.sent /\ s.rows = r.rows /\ s.pos = r.pos
      /\ s.settled = r.settled /\ s.wave = r.wave /\ s.first = k
      /\ s.completedAt = r.completedAt
  BY <1>1 DEF LaneRecs
<1> HIDE DEF s
<1>4. LaneOK(s)
  BY <1>1, <1>2, <1>3 DEF LaneOK
<1>5. Goes(r, s)
  BY <1>3 DEF Goes, k
<1> QED BY <1>3, <1>4, <1>5 DEF g, k, s

LEMMA UnopenedIsOK ==
  /\ LaneOK(Unopened) /\ Unopened.step = "unopened"
  /\ Unopened.sent = 0 /\ Unopened.first = 0 /\ Unopened.completedAt = 0
<1>1. <<>> \in Seq({"ok", "superseded", "error"})
  OBVIOUS
<1>2. Unopened \in LaneRecs
  BY <1>1 DEF Unopened, LaneRecs
<1> QED BY <1>2 DEF LaneOK, Unopened

Anew(s, h, w, p) ==
  s = [Unopened EXCEPT !.step = "begun", !.hold = h, !.wave = w, !.pos = p]

LEMMA OpenedIsOK ==
  ASSUME NEW h \in BOOLEAN, NEW w \in Nat, NEW p \in Nat \ {0}, NEW s, Anew(s, h, w, p)
  PROVE  /\ LaneOK(s) /\ s.step = "begun" /\ s.pos = p
         /\ s.sent = 0 /\ s.first = 0 /\ s.completedAt = 0
<1>1. Unopened \in LaneRecs
  BY UnopenedIsOK DEF LaneOK
<1>2. s \in LaneRecs
  BY <1>1 DEF LaneRecs, Anew
<1>3. /\ s.step = "begun" /\ s.verdict = Unopened.verdict /\ s.freed = Unopened.freed
      /\ s.got = Unopened.got /\ s.sent = Unopened.sent /\ s.rows = Unopened.rows
      /\ s.settled = Unopened.settled /\ s.first = Unopened.first /\ s.pos = p /\ s.completedAt = Unopened.completedAt
  BY <1>1 DEF LaneRecs, Anew
<1>4. LaneOK(s)
  BY <1>2, <1>3, UnopenedIsOK DEF LaneOK
<1> QED BY <1>3, <1>4, UnopenedIsOK

-----------------------------------------------------------------------------
(* The lanes of a stream. *)

Lanes == lane \in [Models -> LaneRecs] /\ \A m \in Models : LaneOK(lane[m])

(* A step of lane m makes it s. *)
Becomes(m, s) ==
  /\ lane' = [lane EXCEPT ![m] = s]
  /\ LaneOK(s) /\ Goes(lane[m], s)
  /\ lane[m].completedAt = 0 /\ s.completedAt # 0 =>
       \A n \in Models : lane[n].completedAt <= s.completedAt
  /\ early' => early \/ (s.pos = 1 /\ s.first # 0)
  /\ UNCHANGED <<asked, poolVars, resultVars, pullVars, closing, shown, initial>>

LEMMA DisposeDoes ==
  ASSUME Lanes, NEW m \in Models, lane[m].step \in {"begun", "asking", "held"},
         NEW v \in {"stopped", "superseded", "failed", "refused", "crashed", "expired"},
         Dispose(m, v), LaneOnly, UNCHANGED <<budgetVars, raceVars>>
  PROVE  \E s : Becomes(m, s)
<1> DEFINE s == [lane[m] EXCEPT !.step = "settling", !.verdict = v, !.freed = @ + 1]
<1>1. lane' = [lane EXCEPT ![m] = s]
  BY DEF Dispose, Lanes
<1>2. LaneOK(s) /\ Goes(lane[m], s) /\ s.completedAt = lane[m].completedAt
  BY DisposedIsOK DEF Lanes
<1> HIDE DEF s
<1> QED BY <1>1, <1>2 DEF Becomes, LaneOnly, raceVars

LEMMA DeltaDoes ==
  ASSUME Lanes, NEW m \in Models, Delta(m)
  PROVE  \E s : Becomes(m, s)
<1> DEFINE n == Stamp([o \in Models |-> lane[o].first])
<1> DEFINE x == IF Holds(m) THEN "held" ELSE "asking"
<1> DEFINE s == [lane[m] EXCEPT !.got = @ + 1, !.first = IF @ = 0 THEN n ELSE @, !.step = x]
<1>1. n \in Nat /\ n > 0
  <2>1. \A o \in Models : [q \in Models |-> lane[q].first][o] \in Nat
    BY DEF Lanes, LaneRecs
  <2> QED BY <2>1, Stamped
<1>2. lane' = [lane EXCEPT ![m] = s]
  BY DEF Delta, Lanes
<1> HIDE DEF n
<1>3. x \in {"held", "asking"}
  OBVIOUS
<1> HIDE DEF x
<1>4. LaneOK(s) /\ Goes(lane[m], s) /\ s.completedAt = lane[m].completedAt /\ s.first # 0
  <2>1. LaneOK(lane[m]) /\ lane[m].step = "asking"
    BY DEF Lanes, Delta, Asking
  <2>2. n \in Nat \ {0}
    BY <1>1
  <2> DEFINE r == lane[m]
  <2> HIDE DEF r
  <2>3. LaneOK(r) /\ r.step = "asking"
    BY <2>1 DEF r
  <2>4. LET t == [r EXCEPT !.got = @ + 1, !.first = IF @ = 0 THEN n ELSE @, !.step = x]
        IN  LaneOK(t) /\ Goes(r, t) /\ t.completedAt = r.completedAt /\ t.first # 0
    BY <1>3, <2>2, <2>3, ToldIsOK
  <2> QED BY <2>4 DEF r
<1> HIDE DEF s
<1>5. early' => early \/ (s.pos = 1 /\ s.first # 0)
  BY <1>4 DEF Delta, Goes
<1> QED BY <1>2, <1>4, <1>5 DEF Becomes, LaneOnly, raceVars, Delta

LEMMA CompleteDoes ==
  ASSUME Lanes, NEW m \in Models, Complete(m)
  PROVE  \E s : Becomes(m, s)
<1> DEFINE f == [o \in Models |-> lane[o].completedAt]
<1>1. /\ Stamp(f) \in Nat /\ Stamp(f) > 0
      /\ \A o \in Models : lane[o].completedAt <= Stamp(f) - 1 /\ lane[o].completedAt \in Nat
  <2>1. \A o \in Models : f[o] \in Nat /\ f[o] = lane[o].completedAt
    BY DEF Lanes, LaneRecs
  <2> HIDE DEF f
  <2> QED BY <2>1, Stamped
<1>2. PICK at \in {Stamp(f) - 1, Stamp(f)} \ {0} :
        lane' = [lane EXCEPT ![m].step = "settling", ![m].verdict = "answered",
                             ![m].freed = @ + 1, ![m].completedAt = at]
  BY DEF Complete
<1> HIDE DEF f
<1>3. at \in Nat \ {0} /\ \A o \in Models : lane[o].completedAt <= at
  BY <1>1
<1> DEFINE s == [lane[m] EXCEPT !.step = "settling", !.verdict = "answered",
                                !.freed = @ + 1, !.completedAt = at]
<1>4. lane' = [lane EXCEPT ![m] = s]
  BY <1>2 DEF Lanes
<1>5. LaneOK(s) /\ Goes(lane[m], s) /\ s.completedAt = at
  BY <1>3, AnsweredIsOK DEF Lanes, Complete, Asking
<1> HIDE DEF s
<1> QED BY <1>3, <1>4, <1>5 DEF Becomes, LaneOnly, raceVars, Complete

(* A step that neither completes the lane nor shows its first delta.        *)
LEMMA QuietStepDoes ==
  ASSUME Lanes, NEW m \in Models, NEW s, lane' = [lane EXCEPT ![m] = s],
         LaneOK(s), Goes(lane[m], s), s.completedAt = lane[m].completedAt,
         LaneOnly, UNCHANGED <<early, shown, initial>>
  PROVE  \E t : Becomes(m, t)
  BY DEF Becomes, LaneOnly

LEMMA ReturnDoes ==
  ASSUME Lanes, NEW m \in Models, lane[m].step = "begun", NEW v \in {"none", "keyless"},
         lane' = [lane EXCEPT ![m].step = "done", ![m].verdict = v, ![m].freed = @ + 1],
         LaneOnly, UNCHANGED <<early, shown, initial>>
  PROVE  \E s : Becomes(m, s)
<1> DEFINE s == [lane[m] EXCEPT !.step = "done", !.verdict = v, !.freed = @ + 1]
<1>1. lane' = [lane EXCEPT ![m] = s]
  BY DEF Lanes
<1>2. LaneOK(s) /\ Goes(lane[m], s) /\ s.completedAt = lane[m].completedAt
  BY ReturnedIsOK DEF Lanes
<1> HIDE DEF s
<1> QED BY <1>1, <1>2, QuietStepDoes

LEMMA AskDoes ==
  ASSUME Lanes, NEW m \in Models, lane[m].step \in {"begun", "held"},
         lane' = [lane EXCEPT ![m].step = "asking"],
         LaneOnly, UNCHANGED <<early, shown, initial>>
  PROVE  \E s : Becomes(m, s)
<1> DEFINE s == [lane[m] EXCEPT !.step = "asking"]
<1>1. lane' = [lane EXCEPT ![m] = s]
  BY DEF Lanes
<1>2. LaneOK(s) /\ Goes(lane[m], s) /\ s.completedAt = lane[m].completedAt
  BY AskedIsOK DEF Lanes
<1> HIDE DEF s
<1> QED BY <1>1, <1>2, QuietStepDoes

LEMMA RecordDoes ==
  ASSUME Lanes, NEW m \in Models, Record(m)
  PROVE  \E s : Becomes(m, s)
<1> DEFINE s == [lane[m] EXCEPT
      !.step = IF lane[m].verdict \in Rateable THEN "journaled" ELSE "done",
      !.rows = Append(@, Row(lane[m].verdict))]
<1>1. lane' = [lane EXCEPT ![m] = s]
  BY DEF Lanes, Record
<1>2. LaneOK(s) /\ Goes(lane[m], s) /\ s.completedAt = lane[m].completedAt
  BY RecordedIsOK DEF Lanes, Record
<1> HIDE DEF s
<1> QED BY <1>1, <1>2, QuietStepDoes DEF Record, LaneOnly

LEMMA SettleDoes ==
  ASSUME Lanes, NEW m \in Models, Settle(m)
  PROVE  \E s : Becomes(m, s)
<1> DEFINE s == [lane[m] EXCEPT !.step = "done", !.settled = TRUE]
<1>1. lane' = [lane EXCEPT ![m] = s]
  BY DEF Lanes, Settle
<1>2. LaneOK(s) /\ Goes(lane[m], s) /\ s.completedAt = lane[m].completedAt
  BY SettledIsOK DEF Lanes, Settle
<1> HIDE DEF s
<1> QED BY <1>1, <1>2, QuietStepDoes DEF Settle, LaneOnly

LEMMA CutDoes ==
  ASSUME Lanes, NEW m \in Models, Cut(m)
  PROVE  \E s : Becomes(m, s)
<1>1. CASE /\ lane[m].step = "begun"
           /\ lane' = [lane EXCEPT ![m].step = "done", ![m].freed = @ + 1]
  <2>1. lane[m].verdict = "none"
    BY <1>1 DEF Lanes, LaneOK
  <2>2. lane' = [lane EXCEPT ![m].step = "done", ![m].verdict = "none", ![m].freed = @ + 1]
    BY <1>1, <2>1 DEF Lanes, LaneRecs
  <2> QED BY <1>1, <2>2, ReturnDoes DEF Cut, raceVars
<1>2. CASE lane[m].step \in {"asking", "held"} /\ Dispose(m, lane[m].mark)
  <2>1. lane[m].mark \in {"stopped", "superseded"}
    BY DEF Lanes, LaneRecs, Cut
  <2> QED BY <1>2, <2>1, DisposeDoes DEF Cut
<1> QED BY <1>1, <1>2 DEF Cut

LEMMA LaneStepDoes ==
  ASSUME Lanes, NEW m \in Models, LaneStep(m)
  PROVE  \E s : Becomes(m, s)
<1>1. CASE Begin(m)
  <2>1. CASE Dispose(m, "expired")
    BY <1>1, <2>1, DisposeDoes DEF Begin
  <2>2. CASE lane' = [lane EXCEPT ![m].step = "asking"]
    BY <1>1, <2>2, AskDoes DEF Begin, raceVars
  <2> QED BY <1>1, <2>1, <2>2 DEF Begin
<1>2. CASE KeyGone(m)
  BY <1>2, ReturnDoes DEF KeyGone
<1>3. CASE Delta(m)
  BY <1>3, DeltaDoes
<1>4. CASE ReadOn(m)
  BY <1>4, AskDoes DEF ReadOn, raceVars
<1>5. CASE Complete(m)
  BY <1>5, CompleteDoes
<1>6. CASE Fail(m)
  <2>1. PICK v \in Faults : Dispose(m, v)
    BY <1>6 DEF Fail
  <2>2. v \in {"failed", "refused", "crashed"}
    BY StreamAssumption DEF StreamAssumption
  <2> QED BY <1>6, <2>1, <2>2, DisposeDoes DEF Fail, Asking
<1>7. CASE Expire(m)
  BY <1>7, DisposeDoes DEF Expire, Asking
<1>8. CASE Settle(m)
  BY <1>8, SettleDoes
<1>9. CASE Cut(m)
  BY <1>9, CutDoes
<1>10. CASE Record(m)
  BY <1>10, RecordDoes
<1> QED BY <1>1, <1>2, <1>3, <1>4, <1>5, <1>6, <1>7, <1>8, <1>9, <1>10 DEF LaneStep

-----------------------------------------------------------------------------
(* What the owner chooses exists. *)

Types ==
  /\ Lanes
  /\ asked \in [width : Widths, budgeted : BOOLEAN]
  /\ waves \in Seq(Nat)
  /\ eligible \subseteq Models
  /\ shown \in Models \cup {NoLane}
  /\ initial \in Models \cup {NoLane}
  /\ target \in Models \cup {NoLane}
  /\ receipt \in [lane : Models \cup {NoLane}, settled : BOOLEAN]
  /\ answers \in Seq(Models)
  /\ pull = "settle" => target \in Models
  /\ back \in {"idle", "look", "pause"}

(* The ranks of the lanes: a tie in time is decided by them.                *)
Ranked ==
  /\ \A m, n \in Opened : lane[m].pos = lane[n].pos => m = n
  /\ \A m \in Opened : lane[m].pos <= Cardinality(Opened)
  /\ early => \E m \in Opened : lane[m].pos = 1

LEMMA CompletedAreOpened ==
  ASSUME Lanes
  PROVE  /\ Completed \subseteq Opened /\ Buffered \subseteq Completed /\ Spoken \subseteq Opened
         /\ Opened \subseteq Models /\ IsFiniteSet(Opened) /\ NoLane \notin Models
         /\ \A m \in Models : /\ lane[m].completedAt \in Nat /\ lane[m].pos \in Nat
                              /\ lane[m].first \in Nat /\ lane[m].sent \in Nat
                              /\ lane[m].got \in Nat
<1>1. \A m \in Models : LaneOK(lane[m])
  BY DEF Lanes
<1>2. Completed \subseteq Opened /\ Spoken \subseteq Opened
  <2>1. ASSUME NEW r, LaneOK(r), r.step = "unopened"
        PROVE  r.first = 0 /\ r.completedAt = 0
    BY <2>1 DEF LaneOK, LaneRecs
  <2> QED BY <1>1, <2>1 DEF Completed, Spoken, Opened
<1>3. IsFiniteSet(Opened) /\ NoLane \notin Models
  BY StreamAssumption, FS_Subset DEF Opened, StreamAssumption
<1>4. \A m \in Models : /\ lane[m].completedAt \in Nat /\ lane[m].pos \in Nat
                        /\ lane[m].first \in Nat /\ lane[m].sent \in Nat /\ lane[m].got \in Nat
  BY <1>1 DEF LaneOK, LaneRecs
<1> QED BY <1>2, <1>3, <1>4 DEF Opened, Buffered

LEMMA LeastOpened ==
  ASSUME Lanes, NEW R, TotalOn(R, Opened), NEW T, T \subseteq Opened, T # {}
  PROVE  \E x \in T : \A y \in T : <<x, y>> \in R
  BY CompletedAreOpened, FiniteHasLeast

LEMMA FirstToSpeakIs ==
  ASSUME Lanes
  PROVE  /\ FirstToSpeak \in Models \cup {NoLane}
         /\ FirstToSpeak # NoLane => FirstToSpeak \in Spoken
         /\ FirstToSpeak = NoLane => Spoken = {}
<1>1. CASE Spoken # {}
  <2> DEFINE R == {p \in Opened \X Opened : lane[p[1]].first <= lane[p[2]].first}
  <2>1. \A a, b \in Opened : <<a, b>> \in R <=> lane[a].first <= lane[b].first
    OBVIOUS
  <2> HIDE DEF R
  <2>2. \A a \in Opened : lane[a].first \in Nat
    BY CompletedAreOpened
  <2>6. TotalOn(R, Opened)
    BY <2>1, <2>2 DEF TotalOn
  <2>3. \E x \in Spoken : \A y \in Spoken : <<x, y>> \in R
    BY <1>1, <2>6, CompletedAreOpened, LeastOpened
  <2>4. \E x \in Spoken : \A y \in Spoken : lane[x].first <= lane[y].first
    BY <2>1, <2>3, CompletedAreOpened
  <2>5. FirstToSpeak \in Spoken
    BY <1>1, <2>4 DEF FirstToSpeak
  <2> QED BY <2>5, CompletedAreOpened
<1>2. CASE Spoken = {}
  BY <1>2 DEF FirstToSpeak
<1> QED BY <1>1, <1>2

LEMMA VisibleIs ==
  ASSUME Types, Ranked
  PROVE  Visible \in Models \cup {NoLane}
<1>1. early => Preferred \in Models
  BY CompletedAreOpened DEF Ranked, Preferred, Types
<1> QED BY <1>1, FirstToSpeakIs DEF Visible, Select, Types

(* The order in which a race is won. *)
Beats(a, b) ==
  \/ lane[a].completedAt < lane[b].completedAt
  \/ /\ lane[a].completedAt = lane[b].completedAt
     /\ a = b \/ a = shown \/ (b # shown /\ lane[a].pos < lane[b].pos)

LEMMA WinnerIs ==
  ASSUME Types, Ranked, Completed # {}
  PROVE  /\ Winner \in Completed
         /\ \A n \in Completed \ {Winner} :
              /\ lane[Winner].completedAt <= lane[n].completedAt
              /\ lane[Winner].completedAt = lane[n].completedAt => n # shown
<1> DEFINE R == {p \in Opened \X Opened : Beats(p[1], p[2])}
<1>1. \A a, b \in Opened : <<a, b>> \in R <=> Beats(a, b)
  OBVIOUS
<1> HIDE DEF R
<1>2. \A a, b \in Opened : /\ lane[a].completedAt \in Nat /\ lane[a].pos \in Nat
                           /\ a # b => lane[a].pos # lane[b].pos
  BY CompletedAreOpened DEF Types, Ranked
<1>3. \A a, b \in Opened : Beats(a, b) \/ Beats(b, a)
  BY <1>2 DEF Beats
<1>4. \A a, b, c \in Opened : Beats(a, b) /\ Beats(b, c) => Beats(a, c)
  BY <1>2 DEF Beats
<1>5. Completed \subseteq Opened
  BY CompletedAreOpened DEF Types
<1>10. TotalOn(R, Opened)
  BY <1>1, <1>3, <1>4 DEF TotalOn
<1>6. \E x \in Completed : \A y \in Completed : <<x, y>> \in R
  BY <1>5, <1>10, LeastOpened DEF Types
<1>7. PICK x \in Completed : \A y \in Completed : Beats(x, y)
  BY <1>1, <1>5, <1>6
<1>8. \A n \in Completed \ {x} :
        /\ lane[x].completedAt <= lane[n].completedAt
        /\ lane[x].completedAt = lane[n].completedAt =>
             x = shown \/ (n # shown /\ lane[x].pos < lane[n].pos)
  BY <1>2, <1>5, <1>7 DEF Beats
<1>9. /\ Winner \in Completed
      /\ \A n \in Completed \ {Winner} :
           /\ lane[Winner].completedAt <= lane[n].completedAt
           /\ lane[Winner].completedAt = lane[n].completedAt =>
                Winner = shown \/ (n # shown /\ lane[Winner].pos < lane[n].pos)
  BY <1>8 DEF Winner
<1> QED BY <1>9

LEMMA WinnerTyped ==
  ASSUME Types, Ranked
  PROVE  Winner \in Completed \cup {NoLane} /\ (Completed # {} => Winner \in Completed)
  BY WinnerIs DEF Winner

LEMMA FirstBufferedIs ==
  ASSUME Types, Ranked, Buffered # {}
  PROVE  /\ FirstBuffered \in Buffered
         /\ \A n \in Buffered : lane[FirstBuffered].completedAt <= lane[n].completedAt
<1> DEFINE R == {p \in Opened \X Opened : p[1] = p[2] \/ Earlier(p[1], p[2])}
<1>1. \A a, b \in Opened : <<a, b>> \in R <=> a = b \/ Earlier(a, b)
  OBVIOUS
<1> HIDE DEF R
<1>2. \A a, b \in Opened : /\ lane[a].completedAt \in Nat /\ lane[a].pos \in Nat
                           /\ a # b => lane[a].pos # lane[b].pos
  BY CompletedAreOpened DEF Types, Ranked
<1>3. \A a, b \in Opened : a = b \/ Earlier(a, b) \/ Earlier(b, a)
  BY <1>2 DEF Earlier
<1>4. \A a, b, c \in Opened : Earlier(a, b) /\ Earlier(b, c) => Earlier(a, c)
  BY <1>2 DEF Earlier
<1>5. Buffered \subseteq Opened
  BY CompletedAreOpened DEF Types
<1>9. TotalOn(R, Opened)
  BY <1>1, <1>3, <1>4 DEF TotalOn
<1>6. \E x \in Buffered : \A y \in Buffered : <<x, y>> \in R
  BY <1>5, <1>9, LeastOpened DEF Types
<1>7. \E x \in Buffered : \A y \in Buffered \ {x} : Earlier(x, y)
  BY <1>1, <1>5, <1>6
<1>8. FirstBuffered \in Buffered /\ \A n \in Buffered \ {FirstBuffered} : Earlier(FirstBuffered, n)
  BY <1>7 DEF FirstBuffered
<1> QED BY <1>2, <1>5, <1>8 DEF Earlier

-----------------------------------------------------------------------------
(* The tables the owner makes. *)

(* L is the lanes as they are, but for what the owner notes of them. *)
Noted(L) == L \in [Models -> LaneRecs] /\ \A m \in Models : Same(lane[m], L[m])

(* ... and the reader is handed nothing, or a delta of x. *)
Kept(L) == Noted(L) /\ \A m \in Models : L[m].sent = lane[m].sent
KeptBut(L, x) == Noted(L) /\ \A m \in Models \ {x} : L[m].sent = lane[m].sent

LEMMA AbsorbedKept ==
  ASSUME Lanes
  PROVE  Kept(lane) /\ Kept(Absorbed)
<1>1. Kept(lane)
  BY SameIsSame DEF Lanes, Kept, Noted
<1>2. ASSUME NEW m \in Models
      PROVE  /\ Absorbed[m] \in LaneRecs /\ Same(lane[m], Absorbed[m])
             /\ Absorbed[m].sent = lane[m].sent
  <2> DEFINE r == lane[m]
  <2> DEFINE b == r.absorbed \/ (Finished(m) /\ r.completedAt = 0)
  <2>1. Absorbed[m] = [r EXCEPT !.absorbed = b]
    BY DEF Absorbed
  <2>2. r \in LaneRecs
    BY DEF Lanes
  <2>3. b \in BOOLEAN
    OBVIOUS
  <2> HIDE DEF r, b
  <2>4. Same(r, [r EXCEPT !.absorbed = b]) /\ [r EXCEPT !.absorbed = b].sent = r.sent
    BY <2>2, <2>3, SameIsSame
  <2> QED BY <2>1, <2>4 DEF r, Same
<1>3. Absorbed \in [Models -> LaneRecs]
  BY <1>2 DEF Absorbed
<1> QED BY <1>1, <1>2, <1>3 DEF Kept, Noted

LEMMA SentKept ==
  ASSUME NEW L, Kept(L), NEW x
  PROVE  KeptBut([L EXCEPT ![x].sent = @ + 1], x)
<1> DEFINE M == [L EXCEPT ![x].sent = @ + 1]
<1>1. L \in [Models -> LaneRecs] /\ \A m \in Models : L[m] \in LaneRecs
  BY DEF Kept, Noted
<1>2. CASE x \in Models
  <2> DEFINE k == L[x].sent + 1
  <2>1. L[x] \in LaneRecs /\ k \in Nat
    BY <1>1, <1>2 DEF LaneRecs
  <2> DEFINE r == [L[x] EXCEPT !.sent = k]
  <2>2. M = [L EXCEPT ![x] = r]
    BY <1>1
  <2> HIDE DEF k
  <2>3. Same(L[x], r)
    BY <2>1, SameIsSame
  <2>4. Same(lane[x], r)
    BY <2>3, <1>2 DEF Same, Kept, Noted
  <2> HIDE DEF r
  <2>5. M \in [Models -> LaneRecs] /\ M[x] = r /\ \A m \in Models \ {x} : M[m] = L[m]
    BY <1>1, <1>2, <2>2, <2>4 DEF Same
  <2> HIDE DEF M
  <2>6. Noted(M)
    BY <2>4, <2>5 DEF Kept, Noted
  <2> QED BY <2>5, <2>6 DEF Kept, KeptBut, M
<1>3. CASE x \notin Models
  <2>1. M = L
    BY <1>1, <1>3
  <2> QED BY <2>1 DEF Kept, KeptBut
<1> QED BY <1>2, <1>3

LEMMA MarkedKept ==
  ASSUME Lanes
  PROVE  Kept([m \in Models |-> [lane[m] EXCEPT !.mark = Marked(m)]])
<1> DEFINE L == [m \in Models |-> [lane[m] EXCEPT !.mark = Marked(m)]]
<1>1. ASSUME NEW m \in Models
      PROVE  L[m] \in LaneRecs /\ Same(lane[m], L[m]) /\ L[m].sent = lane[m].sent
  <2> DEFINE r == lane[m]
  <2> DEFINE x == Marked(m)
  <2>1. L[m] = [r EXCEPT !.mark = x] /\ r \in LaneRecs
    BY DEF Lanes
  <2>2. x \in {"none", "stopped", "superseded"}
    BY DEF Marked
  <2> HIDE DEF r, x
  <2>3. Same(r, [r EXCEPT !.mark = x]) /\ [r EXCEPT !.mark = x].sent = r.sent
    BY <2>1, <2>2, SameIsSame
  <2> QED BY <2>1, <2>3 DEF r, Same
<1>2. L \in [Models -> LaneRecs]
  BY <1>1
<1> QED BY <1>1, <1>2 DEF Kept, Noted

(* The lanes of q follow all others in rank. *)
Widens(L, q) ==
  /\ L \in [Models -> LaneRecs]
  /\ \A m \in Models : m \notin Range(q) => L[m] = lane[m]
  /\ \A i \in DOMAIN q : /\ q[i] \in Models /\ Opens(lane[q[i]], L[q[i]])
                        /\ L[q[i]].pos = Cardinality(Opened) + i

LEMMA OpenWidens ==
  ASSUME Types, NEW n, NEW q \in Rankings(n), NEW h \in BOOLEAN, NEW w \in Nat
  PROVE  Widens(Open(lane, q, h, w), q)
<1> DEFINE L == Open(lane, q, h, w)
<1>1. PICK k \in 1 .. n : q \in [1 .. k -> Untried] /\ IsInjective(q)
  BY DEF Rankings
<1>2. Cardinality(Opened) \in Nat
  BY CompletedAreOpened, FS_CardinalityType DEF Types
<1>3. DOMAIN q \subseteq Nat \ {0} /\ \A i \in DOMAIN q : q[i] \in Untried
  BY <1>1
<1>4. ASSUME NEW m \in Models, m \in Range(q)
      PROVE  \E i \in DOMAIN q : /\ q[i] = m /\ (CHOOSE j \in DOMAIN q : q[j] = m) = i
  BY <1>4 DEF Range
<1>5. ASSUME NEW i \in DOMAIN q
      PROVE  (CHOOSE j \in DOMAIN q : q[j] = q[i]) = i
  BY <1>1 DEF IsInjective
<1>6. ASSUME NEW m \in Models, m \notin Range(q)
      PROVE  L[m] = lane[m]
  BY <1>6 DEF Open
<1>7. ASSUME NEW i \in DOMAIN q
      PROVE  /\ q[i] \in Models /\ Opens(lane[q[i]], L[q[i]])
             /\ L[q[i]].pos = Cardinality(Opened) + i
  <2>1. q[i] \in Models /\ q[i] \in Range(q) /\ lane[q[i]].step = "unopened"
    BY <1>3 DEF Types, Untried, Opened, Range
  <2> DEFINE p == Cardinality(Opened) + i
  <2>2. Anew(L[q[i]], h, w, p)
    BY <2>1, <1>5 DEF Open, Anew
  <2>3. p \in Nat \ {0}
    BY <1>2, <1>3
  <2> HIDE DEF p, L
  <2>4. /\ LaneOK(L[q[i]]) /\ L[q[i]].step = "begun" /\ L[q[i]].pos = p
        /\ L[q[i]].sent = 0 /\ L[q[i]].first = 0 /\ L[q[i]].completedAt = 0
    BY <2>2, <2>3, OpenedIsOK
  <2> QED BY <2>1, <2>4 DEF Opens, p
<1>8. ASSUME NEW m \in Models
      PROVE  L[m] \in LaneRecs
  <2> HIDE DEF L
  <2>1. CASE m \in Range(q)
    <3>1. PICK i \in DOMAIN q : q[i] = m
      BY <2>1, <1>4
    <3> QED BY <3>1, <1>7 DEF Opens, LaneOK
  <2>2. CASE m \notin Range(q)
    BY <2>2, <1>6 DEF Types, Lanes
  <2> QED BY <2>1, <2>2
<1>9. L \in [Models -> LaneRecs]
  BY <1>8 DEF Open
<1> QED BY <1>6, <1>7, <1>9 DEF Widens

(* Whatever the owner does to the lanes: it opens those of q, in that order,*)
(* and notes something of the rest.                                         *)
Grown(L, q) ==
  /\ L \in [Models -> LaneRecs]
  /\ \A m \in Models : m \notin Range(q) => Same(lane[m], L[m])
  /\ \A i \in DOMAIN q : /\ Opens(lane[q[i]], L[q[i]])
                        /\ L[q[i]].pos = Cardinality(Opened) + i

Grows == \E k \in Nat : \E q \in [1 .. k -> Models] : IsInjective(q) /\ Grown(lane', q)

LEMMA NotedGrows ==
  ASSUME Noted(lane')
  PROVE  Grows
<1> DEFINE q == [i \in 1 .. 0 |-> CHOOSE m \in Models : TRUE]
<1>1. q \in [1 .. 0 -> Models] /\ DOMAIN q = {}
  OBVIOUS
<1> HIDE DEF q
<1>2. IsInjective(q) /\ Range(q) = {}
  BY <1>1 DEF IsInjective, Range
<1>3. Grown(lane', q)
  BY <1>1, <1>2 DEF Grown, Noted
<1> QED BY <1>1, <1>2, <1>3 DEF Grows

LEMMA KeptGrows ==
  ASSUME Lanes
  PROVE  /\ Kept(lane') => Grows
         /\ \A x : KeptBut(lane', x) => Grows
         /\ lane' = lane => Grows
  BY NotedGrows, AbsorbedKept DEF Kept, KeptBut

LEMMA OpenGrown ==
  ASSUME Types, NEW n, NEW q \in Rankings(n), NEW h \in BOOLEAN, NEW w \in Nat,
         NEW L, L = Open(lane, q, h, w)
  PROVE  /\ Grown(L, q) /\ IsInjective(q) /\ Len(q) \in Nat
         /\ \E k \in Nat : q \in [1 .. k -> Models]
         /\ \A m \in Models : L[m].sent \in {0, lane[m].sent}
<1>1. Widens(L, q)
  BY OpenWidens
<1>2. PICK k \in 1 .. n : q \in [1 .. k -> Untried] /\ IsInjective(q)
  BY DEF Rankings
<1>3. q \in [1 .. k -> Models]
  BY <1>2 DEF Untried, Types
<1>4. k \in Nat
  OBVIOUS
<1>5. Len(q) = k
  BY <1>3, <1>4
<1>6. ASSUME NEW m \in Models
      PROVE  /\ m \notin Range(q) => Same(lane[m], L[m])
             /\ L[m].sent \in {0, lane[m].sent}
  <2>1. CASE m \in Range(q)
    <3>1. PICK i \in DOMAIN q : q[i] = m
      BY <2>1 DEF Range
    <3> QED BY <2>1, <3>1, <1>1 DEF Widens, Opens
  <2>2. CASE m \notin Range(q)
    BY <2>2, <1>1, SameIsSame DEF Widens, Types, Lanes
  <2> QED BY <2>1, <2>2
<1> QED BY <1>1, <1>2, <1>3, <1>4, <1>5, <1>6 DEF Widens, Grown

Delivered(M, L, x) == M = [L EXCEPT ![x].sent = 1]

(* A delta delivered to a lane that was open is not seen by the new ones.   *)
LEMMA SentGrown ==
  ASSUME Lanes, NEW q, NEW L, Grown(L, q), NEW x \in Opened,
         NEW M, Delivered(M, L, x)
  PROVE  Grown(M, q) /\ \A m \in Models \ {x} : M[m].sent = L[m].sent
<1> DEFINE r == [L[x] EXCEPT !.sent = 1]
<1>1. L \in [Models -> LaneRecs] /\ x \in Models /\ L[x] \in LaneRecs
  BY DEF Grown, Opened
<1>2. M = [L EXCEPT ![x] = r]
  BY <1>1 DEF Delivered
<1>3. Same(L[x], r)
  BY <1>1, SameIsSame
<1> HIDE DEF r
<1>4. M \in [Models -> LaneRecs] /\ M[x] = r /\ \A m \in Models \ {x} : M[m] = L[m]
  BY <1>1, <1>2, <1>3 DEF Same
<1>5. x \notin Range(q)
  BY DEF Grown, Range, Opens, Opened
<1>6. Same(lane[x], M[x])
  BY <1>3, <1>4, <1>5, <1>1 DEF Same, Grown
<1>7. \A j \in DOMAIN q : M[q[j]] = L[q[j]]
  <2>1. ASSUME NEW j \in DOMAIN q PROVE M[q[j]] = L[q[j]]
    <3>1. q[j] \in Range(q) /\ q[j] # x
      BY <1>5 DEF Range
    <3>2. CASE q[j] \in Models
      BY <3>1, <3>2, <1>4
    <3>3. CASE q[j] \notin Models
      <4>1. M[q[j]] = L[q[j]]
        BY <3>3, <1>1, <1>2
      <4> QED BY <4>1
    <3> QED BY <3>2, <3>3
  <2> QED BY <2>1
<1>8. Grown(M, q)
  BY <1>4, <1>6, <1>7 DEF Grown
<1> QED BY <1>2, <1>4, <1>8

-----------------------------------------------------------------------------
(* What a step of the owner, of its caller or of the clock does. *)

(* The deltas already delivered stay, those delivered now are the shown     *)
(* lane's, and none is delivered once a lane has completed the answer.      *)
Handed ==
  \A m \in Models : \/ lane'[m].sent \in {0, lane[m].sent}
                    \/ m = shown' /\ initial = NoLane /\ initial' = NoLane

(* An ordinary stream listens, and opens lanes, only before it commits.     *)
LookInv ==
  initial = NoLane =>
    /\ pull = "look" \/ (pull = "refill" /\ back = "look") => Ordinary /\ shown = NoLane
    /\ Ordinary /\ pull = "acquire" => shown = NoLane

Good == Types /\ Ranked /\ LookInv

Retyped ==
  /\ asked' = asked
  /\ waves' \in Seq(Nat)
  /\ eligible' \subseteq Models
  /\ {shown', initial', target', receipt.lane'} \subseteq Models \cup {NoLane}
  /\ receipt' \in [lane : Models \cup {NoLane}, settled : BOOLEAN]
  /\ answers' \in Seq(Models)
  /\ pull' = "settle" => target' \in Models
  /\ back' \in {"idle", "look", "pause"}
  /\ early' => early \/ \E m \in Opened : lane[m].pos = 1

(* The shown lane changes only where there is none. *)
Effect ==
  /\ Grows /\ Handed /\ Retyped /\ LookInv'
  /\ shown' # shown => shown = NoLane /\ initial = NoLane

LEMMA KeptHanded ==
  ASSUME Lanes
  PROVE  /\ Kept(lane') => Grows /\ Handed
         /\ lane' = lane => Grows /\ Handed
         /\ KeptBut(lane', shown') /\ initial = NoLane /\ initial' = NoLane => Grows /\ Handed
  BY KeptGrows DEF Kept, KeptBut, Handed

LEMMA RefillStarts ==
  ASSUME NEW next, StartRefill(next)
  PROVE  \/ pull' = next /\ back' = back
         \/ pull' = "refill" /\ back' = next
  BY DEF StartRefill

LEMMA PullEffect ==
  ASSUME Good, Pull
  PROVE  Effect
<1>1. Grows /\ Handed
  BY KeptHanded DEF Pull, Good, Types
<1>2. Retyped /\ LookInv'
  BY DEF Pull, Good, Types, Retyped, LookInv, raceVars, poolVars, resultVars
<1> QED BY <1>1, <1>2 DEF Effect, Pull, raceVars

LEMMA AnotherEffect ==
  ASSUME Good, Another
  PROVE  Effect
<1>1. Grows /\ Handed
  BY KeptHanded DEF Another, Good, Types
<1>2. Retyped /\ LookInv'
  BY DEF Another, Good, Types, Retyped, LookInv, raceVars, poolVars, resultVars
<1> QED BY <1>1, <1>2 DEF Effect, Another, raceVars

LEMMA CloseEffect ==
  ASSUME Good, Close
  PROVE  Effect
<1>1. Grows /\ Handed
  BY KeptHanded DEF Close, Good, Types
<1>2. Retyped /\ LookInv'
  BY DEF Close, Good, Types, Retyped, LookInv, raceVars, poolVars, resultVars, pullVars, Ordinary
<1> QED BY <1>1, <1>2 DEF Effect, Close, raceVars

LEMMA ClockEffect ==
  ASSUME Good, BudgetSpent \/ WindowCloses
  PROVE  Effect
<1>1. Grows /\ Handed
  BY KeptHanded DEF BudgetSpent, WindowCloses, Good, Types
<1>2. Retyped /\ LookInv'
  BY DEF BudgetSpent, WindowCloses, Good, Types, Retyped, LookInv, raceVars, poolVars,
         resultVars, pullVars, Ordinary
<1> QED BY <1>1, <1>2 DEF Effect, BudgetSpent, WindowCloses, raceVars

LEMMA OpenHanded ==
  ASSUME Types, NEW n, NEW q \in Rankings(n), NEW h \in BOOLEAN, NEW w \in Nat,
         lane' = Open(lane, q, h, w)
  PROVE  Grows /\ Handed
  BY OpenGrown DEF Grows, Handed

LEMMA OpenSentHanded ==
  ASSUME Types, NEW n, NEW q \in Rankings(n), NEW h \in BOOLEAN, NEW w \in Nat,
         shown' \in Opened, initial = NoLane, initial' = NoLane,
         lane' = [Open(lane, q, h, w) EXCEPT ![shown'].sent = 1]
  PROVE  Grows /\ Handed
<1> DEFINE L == Open(lane, q, h, w)
<1>1. /\ Grown(L, q) /\ IsInjective(q)
      /\ \E k \in Nat : q \in [1 .. k -> Models]
      /\ \A m \in Models : L[m].sent \in {0, lane[m].sent}
  BY OpenGrown
<1> HIDE DEF L
<1>2. lane' = [L EXCEPT ![shown'].sent = 1]
  BY DEF L
<1>3. Grown(lane', q) /\ \A m \in Models \ {shown'} : lane'[m].sent = L[m].sent
  <2> DEFINE x == shown'
  <2> DEFINE M == lane'
  <2>1. x \in Opened /\ Delivered(M, L, x) /\ Grown(L, q) /\ Lanes
    BY <1>1, <1>2 DEF Delivered, Types
  <2> HIDE DEF x, M
  <2>2. Grown(M, q) /\ \A m \in Models \ {x} : M[m].sent = L[m].sent
    BY ONLY <2>1, SentGrown
  <2> QED BY <2>2 DEF x, M
<1> QED BY <1>1, <1>3 DEF Grows, Handed

LEMMA RefillEffect ==
  ASSUME Good, Refill
  PROVE  Effect
<1>1. Len(waves) \in Nat
  BY DEF Good, Types
<1>2. Grows /\ Handed
  BY <1>1, KeptHanded, OpenHanded DEF Refill, Good, Types
<1>3. Retyped /\ LookInv'
  BY DEF Refill, Good, Types, Retyped, LookInv, raceVars, poolVars, resultVars, Ordinary
<1> QED BY <1>2, <1>3 DEF Effect, Refill, raceVars

LEMMA SearchEffect ==
  ASSUME Good, Search
  PROVE  Effect
<1>1. Grows /\ Handed
  BY KeptHanded, AbsorbedKept DEF Search, Good, Types
<1>2. Retyped /\ LookInv'
  BY RefillStarts DEF Search, Good, Types, Retyped, LookInv, raceVars, poolVars, resultVars,
     Ordinary
<1> QED BY <1>1, <1>2 DEF Effect, Search, raceVars

LEMMA RaiseLeaves ==
  ASSUME NEW k, Raise(k)
  PROVE  /\ pull' = "idle" /\ back' = back /\ target' = target /\ answers' = answers
         /\ receipt' = receipt /\ terminal' = terminal /\ closing' = "cancelling"
  BY DEF Raise

LEMMA ListenEffect ==
  ASSUME Good, Listen
  PROVE  Effect
<1>1. pull = "look" /\ initial = NoLane /\ initial' = NoLane /\ shown = NoLane
  BY DEF Listen, goal, Good, LookInv
<1>2. CASE Commit(lane) /\ UNCHANGED <<answers, terminal, raised, target, closing>>
  <2>1. CASE FirstToSpeak = NoLane
    <3>1. Grows /\ Handed
      BY <1>2, <2>1, KeptHanded DEF Commit, Good, Types
    <3>2. Retyped /\ LookInv' /\ shown' = shown
      BY <1>1, <1>2, <2>1 DEF Commit, Listen, Good, Types, Retyped, LookInv, poolVars, Ordinary
    <3> QED BY <3>1, <3>2 DEF Effect
  <2>2. CASE FirstToSpeak # NoLane
    <3>1. shown' = FirstToSpeak /\ FirstToSpeak \in Models
      BY <1>2, <2>2, FirstToSpeakIs DEF Commit, Expose, Good, Types
    <3>2. KeptBut(lane', shown')
      BY <1>2, <2>2, <3>1, SentKept, AbsorbedKept DEF Commit, Good, Types
    <3>3. Grows /\ Handed
      BY <1>1, <3>2, KeptHanded DEF Good, Types
    <3>4. (pull' = "idle" /\ back' = back) \/ (pull' = "refill" /\ back' = "idle")
      BY <1>2, <2>2, RefillStarts DEF Commit
    <3>5. receipt' = [receipt EXCEPT !.lane = FirstToSpeak]
      BY <1>2, <2>2 DEF Commit, Expose
    <3>6. Retyped /\ LookInv'
      BY <1>1, <1>2, <3>1, <3>4, <3>5 DEF Listen, Good, Types, Retyped, LookInv, poolVars, Ordinary
    <3> QED BY <1>1, <3>3, <3>6 DEF Effect
  <2> QED BY <2>1, <2>2
<1>3. CASE /\ Raise(InitialFault(lane, "timeout"))
           /\ UNCHANGED <<lane, lent, shown>>
  <2>1. Grows /\ Handed
    BY <1>3, KeptHanded DEF Good, Types
  <2>2. Retyped /\ LookInv'
    BY <1>1, <1>3, RaiseLeaves DEF Listen, Good, Types, Retyped, LookInv, poolVars, Ordinary
  <2> QED BY <1>3, <2>1, <2>2 DEF Effect
<1>4. CASE /\ pull' = "acquire"
           /\ UNCHANGED <<lane, lent, shown, resultVars, back, needed, target, closing>>
  <2>1. Grows /\ Handed
    BY <1>4, KeptHanded DEF Good, Types
  <2>2. Retyped /\ LookInv'
    BY <1>1, <1>4 DEF Listen, Good, Types, Retyped, LookInv, poolVars, resultVars, Ordinary
  <2> QED BY <1>4, <2>1, <2>2 DEF Effect
<1> QED BY <1>2, <1>3, <1>4 DEF Listen

LEMMA CompleteLeaves ==
  ASSUME Types, NEW m \in Models, CompleteInitial(m)
  PROVE  /\ initial' = m /\ answers' = Append(answers, m) /\ answers' \in Seq(Models)
         /\ pull' = "idle" /\ back' = back
         /\ receipt' = [lane |-> m, settled |-> lane[m].settled]
         /\ receipt' \in [lane : Models \cup {NoLane}, settled : BOOLEAN]
<1>1. lane[m].settled \in BOOLEAN
  BY DEF Types, Lanes, LaneRecs
<1> QED BY <1>1 DEF CompleteInitial, Publish, Types

LEMMA ReadEffect ==
  ASSUME Good, Read
  PROVE  Effect
<1>1. initial = NoLane /\ shown # NoLane /\ shown \in Models
  BY DEF Read, goal, Good, Types
<1>2. CASE Lend(shown) /\ UNCHANGED <<initial, resultVars, closing>>
  <2>1. shown' = shown /\ KeptBut(lane', shown)
    BY <1>2, AbsorbedKept, SentKept DEF Lend, Read, Good, Types
  <2>2. Grows /\ Handed
    BY <1>1, <1>2, <2>1, KeptHanded DEF Good, Types
  <2>3. (pull' = "idle" /\ back' = back) \/ (pull' = "refill" /\ back' = "idle")
    BY <1>2, RefillStarts DEF Lend
  <2>4. Retyped /\ LookInv'
    BY <1>1, <1>2, <2>1, <2>3 DEF Read, Good, Types, Retyped, LookInv, poolVars, resultVars,
       Ordinary
  <2> QED BY <2>1, <2>2, <2>4 DEF Effect
<1>3. CASE /\ UNCHANGED <<lane, lent, initial, resultVars, closing>>
           /\ StartRefill("pause")
  <2>1. Grows /\ Handed
    BY <1>3, KeptHanded DEF Good, Types
  <2>2. (pull' = "pause" /\ back' = back) \/ (pull' = "refill" /\ back' = "pause")
    BY <1>3, RefillStarts
  <2>3. Retyped /\ LookInv'
    BY <1>1, <1>3, <2>2 DEF Read, Good, Types, Retyped, LookInv, poolVars, resultVars, Ordinary
  <2> QED BY <2>1, <2>3 DEF Effect, Read
<1>4. CASE CompleteInitial(shown) /\ UNCHANGED <<terminal, raised, closing>> /\ UNCHANGED <<lane, lent>>
  <2>1. Grows /\ Handed
    BY <1>4, KeptHanded DEF Good, Types
  <2>2. Retyped /\ LookInv'
    BY <1>1, <1>4, CompleteLeaves DEF Read, Good, Types, Retyped, LookInv, poolVars
  <2> QED BY <2>1, <2>2 DEF Effect, Read
<1>5. CASE Raise("lane") /\ UNCHANGED initial /\ UNCHANGED <<lane, lent>>
  <2>1. Grows /\ Handed
    BY <1>5, KeptHanded DEF Good, Types
  <2>2. Retyped /\ LookInv'
    BY <1>1, <1>5, RaiseLeaves DEF Read, Good, Types, Retyped, LookInv, poolVars
  <2> QED BY <2>1, <2>2 DEF Effect, Read
<1> QED BY <1>2, <1>3, <1>4, <1>5 DEF Read

LEMMA ResumeEffect ==
  ASSUME Good, Resume
  PROVE  Effect
<1>1. Grows /\ Handed
  BY KeptHanded DEF Resume, Good, Types
<1>2. Retyped /\ LookInv'
  BY DEF Resume, Good, Types, Retyped, LookInv, raceVars, poolVars, resultVars
<1> QED BY <1>1, <1>2 DEF Effect, Resume, raceVars

LEMMA NothingLeftEffect ==
  ASSUME Good, NothingLeft
  PROVE  Effect
<1>1. Grows /\ Handed
  BY KeptHanded DEF NothingLeft, Good, Types
<1>2. CASE UNCHANGED <<resultVars, pullVars, closing>> /\ eligible' = Models
  <2>1. Retyped /\ LookInv'
    BY <1>2 DEF NothingLeft, Good, Types, Retyped, LookInv, raceVars, poolVars, resultVars,
       pullVars, Ordinary
  <2> QED BY <1>1, <2>1 DEF Effect, NothingLeft, raceVars
<1>3. ASSUME NEW k, Raise(k), UNCHANGED <<eligible, refreshed>>
      PROVE  Effect
  <2>1. Retyped /\ LookInv'
    BY <1>3, RaiseLeaves DEF NothingLeft, Good, Types, Retyped, LookInv, raceVars
  <2> QED BY <1>1, <2>1 DEF Effect, NothingLeft, raceVars
<1>4. CASE /\ goal = "another" /\ pull' = "idle" /\ UNCHANGED <<eligible, refreshed>>
           /\ UNCHANGED <<answers, receipt, raised, back, needed, target, closing>>
  <2>1. Retyped /\ LookInv'
    BY <1>4 DEF NothingLeft, Good, Types, Retyped, LookInv, raceVars
  <2> QED BY <1>1, <2>1 DEF Effect, NothingLeft, raceVars
<1> QED BY <1>2, <1>3, <1>4 DEF NothingLeft

LEMMA ContinueEffect ==
  ASSUME Good, Continue
  PROVE  Effect
<1>1. Grows /\ Handed
  BY KeptHanded, AbsorbedKept DEF Continue, Good, Types
<1>2. initial # NoLane /\ initial' = initial
  BY DEF Continue, goal
<1>3. CASE Buffered # {} /\ target' = FirstBuffered /\ pull' = "settle" /\ UNCHANGED <<back, needed>>
  <2>1. target' \in Models
    BY <1>3, FirstBufferedIs, CompletedAreOpened DEF Good, Types
  <2>2. Retyped /\ LookInv'
    BY <1>2, <1>3, <2>1 DEF Continue, Good, Types, Retyped, LookInv, poolVars, resultVars
  <2> QED BY <1>1, <2>2 DEF Effect, Continue
<1>4. CASE StartRefill("look") /\ UNCHANGED target
  <2>1. (pull' = "look" /\ back' = back) \/ (pull' = "refill" /\ back' = "look")
    BY <1>4, RefillStarts
  <2>2. Retyped /\ LookInv'
    BY <1>2, <1>4, <2>1 DEF Continue, Good, Types, Retyped, LookInv, poolVars, resultVars
  <2> QED BY <1>1, <2>2 DEF Effect, Continue
<1> QED BY <1>3, <1>4 DEF Continue

LEMMA AnswerEffect ==
  ASSUME Good, Answer
  PROVE  Effect
<1>1. Grows /\ Handed
  BY KeptHanded DEF Answer, Good, Types
<1>2. answers' \in Seq(Models)
  BY DEF Answer, Good, Types
<1>3. Retyped /\ LookInv'
  BY <1>2 DEF Answer, Good, Types, Retyped, LookInv, raceVars, poolVars
<1> QED BY <1>1, <1>3 DEF Effect, Answer, raceVars

LEMMA SeekEffect ==
  ASSUME Good, Seek
  PROVE  Effect
<1>1. Grows /\ Handed
  BY KeptHanded DEF Seek, Good, Types
<1>2. initial # NoLane /\ initial' = initial /\ shown' = shown
  BY DEF Seek, goal, raceVars
<1>3. pull' \in {"run", "pause", "acquire", "idle"} /\ UNCHANGED <<answers, receipt>>
  BY DEF Seek, resultVars
<1>4. Retyped /\ LookInv'
  BY <1>2, <1>3 DEF Seek, Good, Types, Retyped, LookInv, raceVars, poolVars
<1> QED BY <1>1, <1>2, <1>4 DEF Effect

LEMMA CloseLanesEffect ==
  ASSUME Good, CloseLanes
  PROVE  Effect
<1>1. Grows /\ Handed
  BY KeptHanded, MarkedKept DEF CloseLanes, Good, Types
<1>2. Settled \in Models \cup {NoLane}
  BY WinnerTyped, CompletedAreOpened DEF Settled, Good, Types
<1>3. Retyped /\ LookInv'
  BY <1>2 DEF CloseLanes, Good, Types, Retyped, LookInv, raceVars, poolVars, resultVars
<1> QED BY <1>1, <1>3 DEF Effect, CloseLanes, raceVars

LEMMA CloseEndsEffect ==
  ASSUME Good, CloseEnds
  PROVE  Effect
<1>1. Grows /\ Handed
  BY KeptHanded DEF CloseEnds, Good, Types
<1>2. receipt' \in [lane : Models \cup {NoLane}, settled : BOOLEAN]
  <2>1. CASE target # NoLane
    <3>1. receipt' = [lane |-> target, settled |-> lane[target].settled]
      BY <2>1 DEF CloseEnds, Publish
    <3>2. target \in Models /\ lane[target].settled \in BOOLEAN
      BY <2>1 DEF Good, Types, Lanes, LaneRecs
    <3> QED BY <3>1, <3>2
  <2>2. CASE target = NoLane
    BY <2>2 DEF CloseEnds, Good, Types
  <2> QED BY <2>1, <2>2
<1>3. Retyped /\ LookInv'
  BY <1>2 DEF CloseEnds, Good, Types, Retyped, LookInv, raceVars, poolVars, pullVars, Ordinary
<1> QED BY <1>1, <1>3 DEF Effect, CloseEnds, raceVars

LEMMA RaceEffect ==
  ASSUME Good, Race
  PROVE  Effect
<1> DEFINE absorb == Absorbed
<1> DEFINE seen == Visible
<1>1. /\ initial = NoLane /\ ~Ordinary /\ asked' = asked /\ waves' = waves /\ eligible' = eligible
      /\ early' = early /\ ~(Ordinary)'
  BY DEF Race, goal, poolVars, Ordinary
<1>2. Kept(absorb)
  BY AbsorbedKept DEF Good, Types
<1>3. Won => Winner \in Models
  BY WinnerTyped, CompletedAreOpened DEF Won, Good, Types
<1>4. seen \in Models \cup {NoLane} /\ (seen # shown => shown = NoLane)
  BY VisibleIs DEF Good, Visible
<1> HIDE DEF absorb, seen
<1>5. CASE /\ Won /\ shown \in {NoLane, Winner}
           /\ Expose(Winner)
           /\ lane' = [absorb EXCEPT ![Winner].sent = @ + 1]
           /\ pull' = "idle"
           /\ UNCHANGED <<initial, answers, terminal, raised, back, needed, target, closing>>
  <2>1. shown' = Winner /\ receipt' = [receipt EXCEPT !.lane = Winner]
    BY <1>5 DEF Expose
  <2>2. KeptBut(lane', shown')
    BY <1>2, <1>5, <2>1, SentKept
  <2>3. Grows /\ Handed
    BY <1>1, <1>5, <2>2, KeptHanded DEF Good, Types
  <2>4. Retyped /\ LookInv'
    BY <1>1, <1>3, <1>5, <2>1 DEF Good, Types, Retyped, LookInv
  <2> QED BY <1>1, <1>5, <2>1, <2>3, <2>4 DEF Effect
<1>6. CASE /\ Won
           /\ CompleteInitial(Winner)
           /\ lane' = absorb
           /\ UNCHANGED <<shown, terminal, raised, target, closing>>
  <2>1. Grows /\ Handed
    BY <1>2, <1>6, KeptHanded DEF Good, Types
  <2>2. Retyped /\ LookInv'
    BY <1>1, <1>3, <1>6, CompleteLeaves DEF Good, Types, Retyped, LookInv
  <2> QED BY <1>6, <2>1, <2>2 DEF Effect
<1>7. ASSUME NEW k, lane' = absorb, Raise(k), UNCHANGED <<shown, initial>>
      PROVE  Effect
  <2>1. Grows /\ Handed
    BY <1>2, <1>7, KeptHanded DEF Good, Types
  <2>2. Retyped /\ LookInv'
    BY <1>1, <1>7, RaiseLeaves DEF Good, Types, Retyped, LookInv
  <2> QED BY <1>7, <2>1, <2>2 DEF Effect
<1>8. CASE /\ lane' = absorb /\ pull' = "acquire"
           /\ UNCHANGED <<shown, initial, resultVars, back, needed, target, closing>>
  <2>1. Grows /\ Handed
    BY <1>2, <1>8, KeptHanded DEF Good, Types
  <2>2. Retyped /\ LookInv'
    BY <1>1, <1>8 DEF Good, Types, Retyped, LookInv, resultVars
  <2> QED BY <1>8, <2>1, <2>2 DEF Effect
<1>9. CASE /\ IF seen # shown THEN Expose(seen) ELSE UNCHANGED <<shown, receipt>>
           /\ IF seen # NoLane /\ lane[seen].sent < lane[seen].got
              THEN /\ lane' = [absorb EXCEPT ![seen].sent = @ + 1]
                   /\ pull' = "idle"
                   /\ UNCHANGED <<back, needed>>
              ELSE /\ lane' = absorb
                   /\ StartRefill("pause")
           /\ UNCHANGED <<initial, answers, terminal, raised, target, closing>>
  <2>1. /\ shown' = seen /\ (shown' # shown => shown = NoLane)
        /\ receipt' \in [lane : Models \cup {NoLane}, settled : BOOLEAN]
        /\ initial' = initial
    <3>1. receipt \in [lane : Models \cup {NoLane}, settled : BOOLEAN]
      BY DEF Good, Types
    <3> QED BY <3>1, <1>4, <1>9 DEF Expose
  <2>2. CASE lane' = [absorb EXCEPT ![seen].sent = @ + 1]
             /\ pull' = "idle" /\ UNCHANGED <<back, needed>>
    <3>1. KeptBut(lane', shown')
      BY <1>2, <2>1, <2>2, SentKept
    <3>2. Grows /\ Handed
      BY <1>1, <2>1, <3>1, KeptHanded DEF Good, Types
    <3>3. Retyped /\ LookInv'
      BY <1>1, <1>4, <1>9, <2>1, <2>2 DEF Good, Types, Retyped, LookInv
    <3> QED BY <1>1, <2>1, <3>2, <3>3 DEF Effect
  <2>3. CASE lane' = absorb /\ StartRefill("pause")
    <3>1. Grows /\ Handed
      BY <1>2, <2>3, KeptHanded DEF Good, Types
    <3>2. (pull' = "pause" /\ back' = back) \/ (pull' = "refill" /\ back' = "pause")
      BY <2>3, RefillStarts
    <3>3. Retyped /\ LookInv'
      BY <1>1, <1>4, <1>9, <2>1, <3>2 DEF Good, Types, Retyped, LookInv
    <3> QED BY <1>1, <2>1, <3>1, <3>3 DEF Effect
  <2> QED BY <1>9, <2>2, <2>3
<1> QED BY <1>5, <1>6, <1>7, <1>8, <1>9 DEF Race, absorb, seen

LEMMA AcquireEffect ==
  ASSUME Good, Acquire
  PROVE  Effect
<1>1. PICK q \in Rankings(Max({asked.width, 2})) :
        LET opened == Open(lane, q, Ordinary /\ goal = "initial", Len(waves) + 1)
            first  == goal = "initial" /\ ~Ordinary
        IN  /\ waves' = Append(waves, Max({asked.width, Len(q)}))
            /\ window' = (window \/ first)
            /\ early' = (early \/ (first /\ \E m \in Spoken : lane[m].pos = 1))
            /\ IF goal = "initial" /\ Ordinary
               THEN IF FirstToSpeak = NoLane
                    THEN /\ lane' = opened
                         /\ pull' = "pause"
                         /\ UNCHANGED <<lent, shown, receipt>>
                    ELSE /\ lane' = [opened EXCEPT ![FirstToSpeak].sent = 1]
                         /\ Expose(FirstToSpeak)
                         /\ lent' = TRUE
                         /\ pull' = "idle"
               ELSE /\ lane' = opened
                    /\ pull' = "run"
                    /\ UNCHANGED <<lent, shown, receipt>>
  BY DEF Acquire
<1> DEFINE h == Ordinary /\ goal = "initial"
<1> DEFINE w == Len(waves) + 1
<1>2. h \in BOOLEAN /\ w \in Nat
  BY DEF Good, Types
<1>3. /\ pull = "acquire" /\ asked' = asked /\ initial' = initial /\ eligible' = eligible
      /\ answers' = answers /\ back' = back /\ target' = target
  BY DEF Acquire
<1>4. Max({asked.width, Len(q)}) \in Nat
  <2>1. Len(q) \in Nat
    BY <1>2, OpenGrown DEF Good, Types
  <2>2. asked.width \in Nat
    BY StreamAssumption DEF StreamAssumption, Good, Types
  <2> QED BY <2>1, <2>2, MaxOfTwo
<1>5. waves' \in Seq(Nat)
  BY <1>1, <1>4 DEF Good, Types
<1>6. early' => early \/ \E m \in Opened : lane[m].pos = 1
  BY <1>1, CompletedAreOpened DEF Good, Types
<1> HIDE DEF h, w
<1>7. CASE lane' = Open(lane, q, h, w) /\ pull' \in {"pause", "run"} /\ UNCHANGED <<shown, receipt>>
  <2>1. Grows /\ Handed
    BY <1>2, <1>7, OpenHanded DEF Good, Types
  <2>2. Retyped /\ LookInv'
    BY <1>3, <1>5, <1>6, <1>7 DEF Good, Types, Retyped, LookInv
  <2> QED BY <1>7, <2>1, <2>2 DEF Effect
<1>8. CASE /\ goal = "initial" /\ Ordinary /\ FirstToSpeak # NoLane
           /\ lane' = [Open(lane, q, h, w) EXCEPT ![FirstToSpeak].sent = 1]
           /\ Expose(FirstToSpeak) /\ pull' = "idle"
  <2>1. FirstToSpeak \in Opened /\ FirstToSpeak \in Models
    BY <1>8, FirstToSpeakIs, CompletedAreOpened DEF Good, Types
  <2>2. /\ initial = NoLane /\ shown = NoLane
        /\ shown' = FirstToSpeak /\ receipt' = [receipt EXCEPT !.lane = FirstToSpeak]
    BY <1>3, <1>8 DEF goal, Good, LookInv, Expose
  <2>3. Grows /\ Handed
    <3>1. lane' = [Open(lane, q, h, w) EXCEPT ![shown'].sent = 1]
      BY <1>8, <2>2
    <3> QED BY <1>2, <1>3, <2>1, <2>2, <3>1, OpenSentHanded DEF Good, Types
  <2>4. Retyped /\ LookInv'
    BY <1>3, <1>5, <1>6, <1>8, <2>1, <2>2 DEF Good, Types, Retyped, LookInv
  <2> QED BY <2>2, <2>3, <2>4 DEF Effect
<1> QED BY <1>1, <1>7, <1>8 DEF h, w

-----------------------------------------------------------------------------
(* Types and ranks are kept. *)

LEMMA GrowsKeepsLanes ==
  ASSUME Lanes, Grows
  PROVE  Lanes'
<1>1. PICK k \in Nat : \E q \in [1 .. k -> Models] : IsInjective(q) /\ Grown(lane', q)
  BY DEF Grows
<1>2. PICK q \in [1 .. k -> Models] : Grown(lane', q)
  BY <1>1
<1>3. ASSUME NEW m \in Models
      PROVE  LaneOK(lane'[m])
  <2>1. CASE m \in Range(q)
    BY <2>1, <1>2 DEF Range, Grown, Opens
  <2>2. CASE m \notin Range(q)
    BY <2>2, <1>2, SameIsOK DEF Grown, Lanes
  <2> QED BY <2>1, <2>2
<1> QED BY <1>2, <1>3 DEF Grown, Lanes

LEMMA GrowsKeepsRanks ==
  ASSUME Lanes, Ranked, Grows, early' => early \/ \E m \in Opened : lane[m].pos = 1
  PROVE  Ranked'
<1>1. PICK k \in Nat : \E q \in [1 .. k -> Models] : IsInjective(q) /\ Grown(lane', q)
  BY DEF Grows
<1>2. PICK q \in [1 .. k -> Models] : IsInjective(q) /\ Grown(lane', q)
  BY <1>1
<1> DEFINE c == Cardinality(Opened)
<1>3. IsFiniteSet(Opened) /\ c \in Nat /\ Opened \subseteq Models
  BY CompletedAreOpened, FS_CardinalityType
<1>4. Opened' = Opened \cup Range(q) /\ Opened \cap Range(q) = {}
  <2>1. ASSUME NEW m \in Models
        PROVE  /\ m \in Opened' <=> m \in Opened \/ m \in Range(q)
               /\ ~(m \in Opened /\ m \in Range(q))
    <3>1. CASE m \in Range(q)
      BY <3>1, <1>2 DEF Range, Grown, Opens, Opened
    <3>2. CASE m \notin Range(q)
      BY <3>2, <1>2 DEF Grown, Same, Opened
    <3> QED BY <3>1, <3>2
  <2>2. Opened \subseteq Models /\ Opened' \subseteq Models /\ Range(q) \subseteq Models
    BY DEF Opened, Range
  <2> QED BY <2>1, <2>2
<1>5. Cardinality(Opened') = c + k
  <2>1. IsFiniteSet(1 .. k) /\ Cardinality(1 .. k) = k
    BY FS_Interval
  <2>2. q \in Surjection(1 .. k, Range(q)) /\ q \in Injection(1 .. k, Range(q))
    BY <1>2 DEF Surjection, Injection, IsInjective, Range
  <2>3. IsFiniteSet(Range(q)) /\ Cardinality(Range(q)) = k
    BY <2>1, <2>2, FS_Surjection
  <2>4. Cardinality(Opened \cup Range(q)) = c + k - Cardinality(Opened \cap Range(q))
    BY <1>3, <2>3, FS_Union
  <2>5. Cardinality(Opened \cap Range(q)) = 0
    BY <1>4, FS_EmptySet
  <2> QED BY <1>3, <1>4, <2>4, <2>5
<1>6. \A m \in Opened : lane'[m].pos = lane[m].pos
  BY <1>2, <1>3, <1>4 DEF Grown, Same
<1>7. \A i \in 1 .. k : lane'[q[i]].pos = c + i
  BY <1>2 DEF Grown
<1>8. \A m \in Range(q) : \E i \in 1 .. k : m = q[i]
  BY DEF Range
<1>9. \A m \in Opened : lane[m].pos \in Nat /\ lane[m].pos <= c
  BY <1>3, CompletedAreOpened DEF Ranked
<1>10. \A m, n \in Opened : lane[m].pos = lane[n].pos => m = n
  BY DEF Ranked
<1> HIDE DEF c
<1>11. ASSUME NEW m \in Opened', NEW n \in Opened', lane'[m].pos = lane'[n].pos
       PROVE  m = n
  <2>1. CASE m \in Opened /\ n \in Opened
    BY <2>1, <1>6, <1>10, <1>11
  <2>2. CASE m \in Range(q) /\ n \in Range(q)
    <3>1. PICK i \in 1 .. k : m = q[i]
      BY <1>8, <2>2
    <3>2. PICK j \in 1 .. k : n = q[j]
      BY <1>8, <2>2
    <3>3. i = j
      BY <1>3, <1>7, <1>11, <3>1, <3>2
    <3> QED BY <3>1, <3>2, <3>3
  <2>3. CASE m \in Opened /\ n \in Range(q)
    <3>1. PICK j \in 1 .. k : n = q[j]
      BY <1>8, <2>3
    <3> QED BY <1>3, <1>6, <1>7, <1>9, <1>11, <2>3, <3>1
  <2>4. CASE m \in Range(q) /\ n \in Opened
    <3>1. PICK i \in 1 .. k : m = q[i]
      BY <1>8, <2>4
    <3> QED BY <1>3, <1>6, <1>7, <1>9, <1>11, <2>4, <3>1
  <2> QED BY <1>4, <1>11, <2>1, <2>2, <2>3, <2>4
<1>12. ASSUME NEW m \in Opened'
       PROVE  lane'[m].pos <= Cardinality(Opened')
  <2>1. CASE m \in Opened
    BY <1>3, <1>5, <1>6, <1>9, <2>1
  <2>2. CASE m \in Range(q)
    <3>1. PICK i \in 1 .. k : m = q[i]
      BY <1>8, <2>2
    <3> QED BY <1>3, <1>5, <1>7, <3>1
  <2> QED BY <1>4, <1>12, <2>1, <2>2
<1>13. early' => \E m \in Opened' : lane'[m].pos = 1
  BY <1>4, <1>6 DEF Ranked
<1> QED BY <1>11, <1>12, <1>13 DEF Ranked

LEMMA EffectIsGood ==
  ASSUME Good, Effect
  PROVE  Good'
<1>1. Lanes' /\ Ranked'
  BY GrowsKeepsLanes, GrowsKeepsRanks DEF Good, Types, Effect, Retyped
<1>2. Types'
  BY <1>1 DEF Good, Types, Effect, Retyped
<1> QED BY <1>1, <1>2 DEF Good, Effect

LEMMA BecomesIsGood ==
  ASSUME Good, NEW m \in Models, NEW s, Becomes(m, s)
  PROVE  Good'
<1>1. /\ lane' = [lane EXCEPT ![m] = s] /\ LaneOK(s) /\ Goes(lane[m], s)
      /\ lane \in [Models -> LaneRecs]
  BY DEF Good, Types, Lanes, Becomes
<1>2. lane'[m] = s /\ \A n \in Models \ {m} : lane'[n] = lane[n]
  BY <1>1
<1>3. Lanes'
  BY <1>1, <1>2 DEF Good, Types, Lanes, LaneOK
<1>4. Opened' = Opened /\ \A n \in Opened : lane'[n].pos = lane[n].pos
  BY <1>1, <1>2 DEF Opened, Goes
<1>5. Ranked'
  <2>1. early' => early \/ (s.pos = 1 /\ s.first # 0)
    BY DEF Becomes
  <2>2. m \in Opened
    BY <1>1 DEF Goes, Opened
  <2>3. early' => \E n \in Opened : lane'[n].pos = 1
    BY <1>2, <1>4, <2>1, <2>2 DEF Good, Ranked
  <2> QED BY <1>4, <2>3 DEF Good, Ranked
<1>6. Types' /\ LookInv'
  BY <1>3 DEF Good, Types, Becomes, LookInv, poolVars, resultVars, pullVars, Ordinary
<1> QED BY <1>5, <1>6 DEF Good

LEMMA EffectOfOthers ==
  ASSUME Good, Owner \/ Caller \/ BudgetSpent \/ WindowCloses
  PROVE  Effect
  BY RefillEffect, SearchEffect, ListenEffect, ReadEffect, RaceEffect, ResumeEffect,
     AcquireEffect, NothingLeftEffect, ContinueEffect, AnswerEffect, SeekEffect,
     CloseLanesEffect, CloseEndsEffect, PullEffect, AnotherEffect, CloseEffect, ClockEffect
  DEF Owner, Caller

LEMMA GoodInit ==
  ASSUME Init
  PROVE  Good
<1>1. lane = [m \in Models |-> Unopened]
  BY DEF Init
<1>2. Lanes
  BY <1>1, UnopenedIsOK DEF Lanes, LaneOK
<1>3. Opened = {} /\ early = FALSE
  BY <1>1, UnopenedIsOK DEF Opened, Init
<1>4. Ranked
  BY <1>3 DEF Ranked
<1>5. Types /\ LookInv
  BY <1>2 DEF Init, Types, LookInv
<1> QED BY <1>4, <1>5 DEF Good

LEMMA GoodStep ==
  ASSUME Good, [Next]_vars
  PROVE  Good'
<1>1. CASE Owner \/ Caller \/ BudgetSpent \/ WindowCloses
  BY <1>1, EffectOfOthers, EffectIsGood
<1>2. CASE \E m \in Models : LaneStep(m)
  BY <1>2, LaneStepDoes, BecomesIsGood DEF Good, Types
<1>3. CASE UNCHANGED vars
  BY <1>3 DEF vars, Good, Types, Lanes, Ranked, LookInv, Opened, raceVars, poolVars, resultVars,
     pullVars, Ordinary
<1> QED BY <1>1, <1>2, <1>3 DEF Next, Running

LEMMA AlwaysGood == Spec => []Good
<1>1. Init => Good
  BY GoodInit
<1>2. Good /\ [Next]_vars => Good'
  BY GoodStep
<1> QED BY <1>1, <1>2, PTL DEF Spec

-----------------------------------------------------------------------------
(* The end of every lane. *)

(* Nothing is pulled once the lanes are being cut, none runs after it.      *)
ClosedInv ==
  /\ closing \in {"stopping", "closed"} => pull = "idle"
  /\ closing = "closed" => Live = {}

(* The owner works between an await it stands at and the next, or closes.   *)
LEMMA OwnerAwaits ==
  ASSUME Owner
  PROVE  \/ CloseLanes \/ CloseEnds
         \/ pull # "idle" /\ closing' \in {closing, "cancelling"}
  BY DEF Owner, Refill, Search, Listen, Read, Race, Resume, Acquire, NothingLeft, Continue,
         Answer, Seek, Raise, pullVars

LEMMA LaneStepIsLive ==
  ASSUME Good, NEW m \in Models, LaneStep(m)
  PROVE  Live # {} /\ UNCHANGED <<closing, pull>>
<1>1. PICK s : Becomes(m, s)
  BY LaneStepDoes DEF Good, Types
<1>2. m \in Live
  BY <1>1 DEF Becomes, Goes, Live, Opened, Finished
<1> QED BY <1>1, <1>2 DEF Becomes, pullVars

LEMMA ClosedStep ==
  ASSUME Good, ClosedInv, [Next]_vars
  PROVE  ClosedInv'
<1>1. CASE CloseLanes
  BY <1>1 DEF CloseLanes, ClosedInv
<1>2. CASE CloseEnds
  BY <1>2 DEF CloseEnds, ClosedInv, pullVars, Live, Opened, Finished
<1>3. CASE pull # "idle" /\ closing' \in {closing, "cancelling"}
  BY <1>3 DEF ClosedInv
<1>4. CASE Caller
  BY <1>4 DEF ClosedInv, Caller, Pull, Another, Close
<1>5. CASE BudgetSpent \/ WindowCloses \/ UNCHANGED vars
  BY <1>5 DEF ClosedInv, BudgetSpent, WindowCloses, vars, pullVars, Live, Opened, Finished
<1>6. CASE \E m \in Models : LaneStep(m)
  BY <1>6, LaneStepIsLive DEF ClosedInv
<1> QED BY <1>1, <1>2, <1>3, <1>4, <1>5, <1>6, OwnerAwaits DEF Next, Running

LEMMA AlwaysClosed == Spec => [](Good /\ ClosedInv)
<1>1. Init => ClosedInv
  BY DEF Init, ClosedInv
<1>2. Good /\ ClosedInv /\ [Next]_vars => ClosedInv'
  BY ClosedStep
<1> QED BY <1>1, <1>2, AlwaysGood, PTL DEF Spec

(* The slot of a lane goes back exactly once, however the lane ends, and    *)
(* every slot is back when a close returns (_close, _stop, stream_attempt). *)
THEOREM EverySlotComesBack == Spec => []SlotsComeBack
<1>1. Good /\ ClosedInv => SlotsComeBack
  BY DEF Good, Types, Lanes, LaneOK, ClosedInv, SlotsComeBack
<1> QED BY <1>1, AlwaysClosed, PTL

(* An attempt leaves one row, the OK row of a complete answer included when *)
(* the close finds it still settling (stream_attempt).                      *)
THEOREM EveryAttemptHasOneRow == Spec => []OneRowEach
<1>1. Good => OneRowEach
  <2>1. ASSUME Good, NEW m \in Models
        PROVE  /\ Len(lane[m].rows) <= 1
               /\ Finished(m) /\ lane[m].completedAt # 0 => lane[m].rows = <<"ok">>
               /\ Finished(m) /\ lane[m].verdict \notin {"none", "keyless"} => Len(lane[m].rows) = 1
    <3> DEFINE r == lane[m]
    <3>1. LaneOK(r)
      BY <2>1 DEF Good, Types, Lanes
    <3>2. Row("answered") = "ok"
      BY DEF Row
    <3> HIDE DEF r
    <3>3. /\ Len(r.rows) <= 1
          /\ r.step = "done" /\ r.completedAt # 0 => r.rows = <<"ok">>
          /\ r.step = "done" /\ r.verdict \notin {"none", "keyless"} => Len(r.rows) = 1
      <4>1. r.rows = IF r.step \in {"journaled", "done"} /\ r.verdict \notin {"none", "keyless"}
                     THEN <<Row(r.verdict)>> ELSE <<>>
        BY <3>1 DEF LaneOK
      <4>2. Len(<<>>) = 0 /\ Len(<<Row(r.verdict)>>) = 1
        OBVIOUS
      <4>3. Len(r.rows) <= 1
        BY <4>1, <4>2
      <4>4. r.step = "done" /\ r.completedAt # 0 => r.rows = <<"ok">>
        BY <3>1, <3>2, <4>1 DEF LaneOK
      <4>5. r.step = "done" /\ r.verdict \notin {"none", "keyless"} => Len(r.rows) = 1
        BY <4>1, <4>2
      <4> QED BY <4>3, <4>4, <4>5
    <3> QED BY <3>3 DEF r, Finished
  <2> QED BY <2>1 DEF OneRowEach
<1> QED BY <1>1, AlwaysGood, PTL

-----------------------------------------------------------------------------
(* The answers. *)

(* The initial answer is completed with lane m: the lane the caller read to *)
(* its end, or the winner of a race, read to its end or not at all.         *)
Completes(m) ==
  /\ m \in Completed /\ Finished(m) /\ initial = NoLane /\ pull # "idle" /\ shown # NoLane
  /\ CompleteInitial(m) /\ Kept(lane') /\ shown' = shown
  /\ UNCHANGED <<terminal, closing, target>>
  /\ m = shown => lane[m].sent = lane[m].got
  /\ m # shown => /\ ~Ordinary
                  /\ \/ lane[shown].completedAt = 0
                     \/ lane[m].completedAt < lane[shown].completedAt

(* The handle says whose text it was given. *)
Exposes ==
  pull # "idle" /\ initial = NoLane /\ \E m : receipt' = [receipt EXCEPT !.lane = m] /\ shown' = m

(* The results a step of the owner may touch. *)
Touches ==
  \/ \E m \in Models : Completes(m)
  \/ /\ initial' = initial
     /\ answers' = answers \/ Answer
     /\ \/ receipt' = receipt /\ shown' = shown
        \/ CloseEnds
        \/ Exposes /\ closing' = closing

LEMMA ReadTouches ==
  ASSUME Good, Read
  PROVE  Touches
<1>1. CASE /\ lane[shown].sent = lane[shown].got /\ Finished(shown)
           /\ lane[shown].verdict = "answered" /\ CompleteInitial(shown)
           /\ UNCHANGED <<terminal, raised, closing>> /\ UNCHANGED <<lane, lent>>
  <2>1. shown \in Models /\ shown # NoLane /\ initial = NoLane
    BY DEF Read, goal, Good, Types
  <2>2. shown \in Completed
    BY <1>1, <2>1 DEF Good, Types, Lanes, LaneOK, Completed
  <2>3. Kept(lane')
    BY <1>1, AbsorbedKept DEF Good, Types
  <2>4. pull # "idle" /\ shown' = shown /\ target' = target
    BY DEF Read
  <2>5. Completes(shown)
    BY <1>1, <2>1, <2>2, <2>3, <2>4 DEF Completes
  <2> QED BY <2>1, <2>5 DEF Touches
<1>2. CASE UNCHANGED <<initial, answers, receipt, shown>>
  BY <1>2 DEF Touches
<1> QED BY <1>1, <1>2 DEF Read, Raise, resultVars

LEMMA RaceTouches ==
  ASSUME Good, Race, \A m \in Models : lane[m].sent > 0 => m = shown
  PROVE  Touches
<1>1. initial = NoLane /\ ~Ordinary /\ pull # "idle" /\ pull = "run"
  BY DEF Race, goal
<1>2. CASE /\ Won /\ (shown \notin {NoLane, Winner} \/ lane[Winner].sent = lane[Winner].got)
           /\ CompleteInitial(Winner)
           /\ lane' = Absorbed
           /\ UNCHANGED <<shown, terminal, raised, target, closing>>
  <2>1. /\ Completed # {} /\ Winner \in Completed /\ Finished(Winner) /\ Winner \in Models
        /\ Winner # NoLane
    BY <1>2, WinnerTyped, CompletedAreOpened DEF Won, Good, Types
  <2>2. lane[Winner].got > 0 /\ lane[Winner].got \in Nat /\ lane[Winner].sent \in Nat
    BY <2>1 DEF Good, Types, Lanes, LaneOK, LaneRecs, Completed
  <2>3. shown # NoLane
    <3>1. CASE shown = NoLane
      <4>1. lane[Winner].sent = lane[Winner].got
        BY <1>2, <3>1
      <4>2. Winner = shown
        BY <2>1, <2>2, <4>1
      <4> QED BY <2>1, <3>1, <4>2
    <3> QED BY <3>1
  <2>4. Kept(lane')
    BY <1>2, AbsorbedKept DEF Good, Types
  <2>5. ASSUME Winner # shown
        PROVE  \/ lane[shown].completedAt = 0
               \/ lane[Winner].completedAt < lane[shown].completedAt
    <3>1. shown \in Models
      BY <2>3 DEF Good, Types
    <3>2. CASE shown \in Completed
      <4>1. lane[Winner].completedAt <= lane[shown].completedAt
            /\ lane[Winner].completedAt # lane[shown].completedAt
        BY <2>1, <2>5, <3>2, WinnerIs DEF Good
      <4>2. lane[Winner].completedAt \in Nat /\ lane[shown].completedAt \in Nat
        BY <2>1, <3>1, CompletedAreOpened DEF Good, Types
      <4> QED BY <4>1, <4>2
    <3>3. CASE shown \notin Completed
      BY <3>1, <3>3 DEF Completed
    <3> QED BY <3>2, <3>3
  <2>6. Winner = shown => lane[Winner].sent = lane[Winner].got
    BY <1>2
  <2> DEFINE x == Winner
  <2> HIDE DEF x
  <2>7. Completes(x)
    BY <1>1, <1>2, <2>1, <2>3, <2>4, <2>5, <2>6 DEF Completes, x
  <2> QED BY <2>1, <2>7 DEF Touches, x
<1>3. CASE UNCHANGED <<initial, answers, receipt, shown>>
  BY <1>3 DEF Touches
<1>4. ASSUME NEW m, Expose(m), UNCHANGED <<initial, answers, closing>>
      PROVE  Touches
  BY <1>1, <1>4 DEF Touches, Exposes, Expose
<1> QED BY <1>2, <1>3, <1>4 DEF Race, Raise, resultVars

LEMMA ListenTouches ==
  ASSUME Listen
  PROVE  Touches
<1>1. initial = NoLane /\ pull # "idle" /\ initial' = initial
  BY DEF Listen, goal
<1>2. ASSUME NEW m, Expose(m), UNCHANGED <<answers, closing>>
      PROVE  Touches
  BY <1>1, <1>2 DEF Touches, Exposes, Expose
<1>3. CASE UNCHANGED <<answers, receipt, shown>>
  BY <1>1, <1>3 DEF Touches
<1> QED BY <1>2, <1>3 DEF Listen, Commit, Raise, resultVars

LEMMA AcquireTouches ==
  ASSUME Acquire
  PROVE  Touches
<1>1. pull # "idle" /\ initial' = initial /\ answers' = answers /\ closing' = closing
  BY DEF Acquire
<1>2. ASSUME NEW m, Expose(m), initial = NoLane
      PROVE  Touches
  BY <1>1, <1>2 DEF Touches, Exposes, Expose
<1>3. CASE UNCHANGED <<receipt, shown>>
  BY <1>1, <1>3 DEF Touches
<1> QED BY <1>2, <1>3 DEF Acquire, goal

LEMMA OthersTouch ==
  ASSUME Good, \A m \in Models : lane[m].sent > 0 => m = shown,
         Owner \/ Caller \/ BudgetSpent \/ WindowCloses
  PROVE  Touches
<1>1. CASE Refill \/ Search \/ Resume \/ NothingLeft \/ Continue \/ Seek \/ CloseLanes
  BY <1>1 DEF Refill, Search, Resume, NothingLeft, Continue, Seek, CloseLanes, Raise,
         Touches, raceVars, resultVars
<1>2. CASE Answer \/ CloseEnds
  BY <1>2 DEF Answer, CloseEnds, Touches, raceVars
<1>3. CASE Caller \/ BudgetSpent \/ WindowCloses
  BY <1>3 DEF Caller, Pull, Another, Close, BudgetSpent, WindowCloses, Touches, raceVars,
         resultVars
<1> QED BY <1>1, <1>2, <1>3, ReadTouches, RaceTouches, ListenTouches, AcquireTouches DEF Owner

(* What is opened keeps what it has, whatever else is opened. *)
LEMMA GrowsKeeps ==
  ASSUME Lanes, Grows
  PROVE  /\ \A m \in Models : lane'[m].completedAt = lane[m].completedAt
         /\ \A m \in Opened : Same(lane[m], lane'[m])
         /\ \A m \in Models \ Opened : lane'[m].step \in {"unopened", "begun"}
         /\ Completed' = Completed
<1>1. PICK k \in Nat : \E q \in [1 .. k -> Models] : Grown(lane', q)
  BY DEF Grows
<1>2. PICK q \in [1 .. k -> Models] : Grown(lane', q)
  BY <1>1
<1>3. ASSUME NEW m \in Models
      PROVE  /\ lane'[m].completedAt = lane[m].completedAt
             /\ m \in Opened => Same(lane[m], lane'[m])
             /\ m \notin Opened => lane'[m].step \in {"unopened", "begun"}
  <2>1. CASE m \in Range(q)
    <3>1. Opens(lane[m], lane'[m])
      BY <2>1, <1>2 DEF Range, Grown
    <3>2. lane[m].completedAt = 0
      BY <3>1 DEF Opens, Lanes, LaneOK
    <3> QED BY <3>1, <3>2 DEF Opens, Opened
  <2>2. CASE m \notin Range(q)
    BY <2>2, <1>2 DEF Grown, Same, Opened
  <2> QED BY <2>1, <2>2
<1> QED BY <1>3 DEF Opened, Completed

LEMMA BecomesKeeps ==
  ASSUME Good, NEW m \in Models, NEW s, Becomes(m, s)
  PROVE  /\ lane'[m] = s /\ \A n \in Models \ {m} : lane'[n] = lane[n]
         /\ \A n \in Models : Finished(n) => n # m /\ lane'[n] = lane[n]
         /\ \A n \in Models : lane'[n].sent = lane[n].sent
         /\ \A n \in Completed : lane'[n].completedAt = lane[n].completedAt
         /\ m \in Live
         /\ UNCHANGED <<shown, initial, answers, receipt, terminal, pull, back, target, closing, asked>>
<1>1. /\ lane' = [lane EXCEPT ![m] = s] /\ Goes(lane[m], s)
      /\ lane \in [Models -> LaneRecs]
  BY DEF Good, Types, Lanes, Becomes
<1>2. lane'[m] = s /\ \A n \in Models \ {m} : lane'[n] = lane[n]
  BY <1>1
<1> QED BY <1>1, <1>2 DEF Becomes, Goes, Finished, Completed, Live, Opened, resultVars, pullVars

(* The text is one lane's, and the whole of it once that lane has answered. *)
SpliceInv ==
  /\ \A m \in Models : lane[m].sent > 0 => m = shown
  /\ initial # NoLane => /\ initial \in Completed /\ Finished(initial) /\ shown # NoLane
                         /\ lane[initial].sent > 0 => lane[initial].sent = lane[initial].got

LEMMA SpliceStep ==
  ASSUME Good, SpliceInv, [Next]_vars
  PROVE  SpliceInv'
<1>1. CASE Owner \/ Caller \/ BudgetSpent \/ WindowCloses
  <2>1. Effect /\ Touches
    BY <1>1, EffectOfOthers, OthersTouch DEF SpliceInv
  <2>2. /\ \A m \in Models : lane'[m].completedAt = lane[m].completedAt
        /\ \A m \in Opened : Same(lane[m], lane'[m])
        /\ Completed' = Completed /\ Completed \subseteq Opened
    BY <2>1, GrowsKeeps, CompletedAreOpened DEF Effect, Good, Types
  <2>3. ASSUME NEW m \in Models, lane'[m].sent > 0
        PROVE  m = shown'
    <3>1. NoLane \notin Models
      BY StreamAssumption DEF StreamAssumption
    <3>2. CASE lane'[m].sent \in {0, lane[m].sent}
      <4>1. lane[m].sent > 0
        BY <2>3, <3>2
      <4>2. m = shown
        BY <4>1 DEF SpliceInv
      <4> QED BY <2>1, <3>1, <4>2 DEF Effect
    <3>3. CASE m = shown'
      BY <3>3
    <3> QED BY <2>1, <3>2, <3>3 DEF Effect, Handed
  <2>4. CASE initial' = initial /\ initial # NoLane
    <3>1. /\ initial \in Completed /\ Finished(initial) /\ shown # NoLane
          /\ lane[initial].sent > 0 => lane[initial].sent = lane[initial].got
      BY <2>4 DEF SpliceInv
    <3>2. Same(lane[initial], lane'[initial]) /\ initial \in Models
      BY <2>2, <3>1 DEF Completed
    <3>3. lane'[initial].sent \in {0, lane[initial].sent}
      BY <2>1, <2>4, <3>2 DEF Effect, Handed
    <3>4. shown' = shown
      BY <2>1, <2>4 DEF Effect
    <3>5. Finished(initial)' /\ lane'[initial].got = lane[initial].got
      BY <2>4, <3>1, <3>2 DEF Finished, Same
    <3> QED BY <2>2, <2>3, <2>4, <3>1, <3>3, <3>4, <3>5 DEF SpliceInv
  <2>5. CASE initial' = initial /\ initial = NoLane
    BY <2>3, <2>5 DEF SpliceInv
  <2>6. ASSUME NEW m \in Models, Completes(m)
        PROVE  SpliceInv'
    <3>1. initial' = m /\ shown' = shown /\ shown # NoLane /\ m \in Completed /\ Finished(m)
      BY <2>6 DEF Completes, CompleteInitial
    <3>2. Same(lane[m], lane'[m]) /\ lane'[m].sent = lane[m].sent
      BY <2>6 DEF Completes, Kept, Noted
    <3>3. Finished(m)' /\ lane'[m].got = lane[m].got
      BY <3>1, <3>2 DEF Finished, Same
    <3>4. lane'[m].sent > 0 => lane'[m].sent = lane'[m].got
      BY <2>6, <3>2, <3>3 DEF Completes, SpliceInv
    <3>5. Finished(initial)'
      BY <3>1, <3>3 DEF Finished
    <3> QED BY <2>2, <2>3, <3>1, <3>4, <3>5 DEF SpliceInv
  <2> QED BY <2>1, <2>4, <2>5, <2>6 DEF Touches
<1>2. CASE \E m \in Models : LaneStep(m)
  <2>1. PICK m \in Models : LaneStep(m)
    BY <1>2
  <2>2. PICK s : Becomes(m, s)
    BY <2>1, LaneStepDoes DEF Good, Types
  <2>3. /\ \A n \in Models : Finished(n) => n # m /\ lane'[n] = lane[n]
        /\ \A n \in Models : lane'[n].sent = lane[n].sent
        /\ UNCHANGED <<shown, initial>>
    BY <2>2, BecomesKeeps
  <2>4. initial # NoLane => initial \in Models
    BY DEF Good, Types
  <2> QED BY <2>3, <2>4 DEF SpliceInv, Finished, Completed
<1>3. CASE UNCHANGED vars
  BY <1>3 DEF vars, raceVars, SpliceInv, Finished, Completed
<1> QED BY <1>1, <1>2, <1>3 DEF Next, Running

LEMMA AlwaysSpliced == Spec => [](Good /\ ClosedInv /\ SpliceInv)
<1>1. Init => SpliceInv
  BY UnopenedIsOK DEF Init, SpliceInv
<1>2. Good /\ SpliceInv /\ [Next]_vars => SpliceInv'
  BY SpliceStep
<1> QED BY <1>1, <1>2, AlwaysClosed, PTL DEF Spec

(* All the text the reader was given comes from one lane, in full when the  *)
(* initial answer ends with it (_ordinary_initial, _explicit_initial).      *)
THEOREM NoSplicing == Spec => []NeverSpliced
<1>1. Good /\ SpliceInv => NeverSpliced
  <2> SUFFICES ASSUME Good, SpliceInv PROVE NeverSpliced
    OBVIOUS
  <2> DEFINE S == {m \in Models : lane[m].sent > 0}
  <2>1. S \subseteq {shown}
    BY DEF SpliceInv
  <2>2. Cardinality(S) <= 1
    <3> HIDE DEF S
    <3>1. IsFiniteSet({shown}) /\ Cardinality({shown}) = 1
      BY FS_Singleton
    <3>2. IsFiniteSet(S) /\ Cardinality(S) <= 1
      BY <2>1, <3>1, FS_Subset
    <3> QED BY <3>2
  <2>3. \A m \in Models : lane[m].sent > 0 =>
          m = shown /\ (initial = m => lane[m].sent = lane[m].got)
    BY CompletedAreOpened DEF SpliceInv, Good, Types
  <2> QED BY <2>2, <2>3 DEF NeverSpliced
<1> QED BY <1>1, AlwaysSpliced, PTL

(* The text being read is withdrawn only in a race, and only where it was   *)
(* not completed as early as the answer (StreamRace.winner).                *)
THEOREM WithdrawnForAnEarlierAnswer == Spec => WithdrawnOnlyForAnEarlierAnswer
<1> DEFINE W == initial' # initial /\ initial' # shown' =>
                  /\ ~Ordinary
                  /\ \/ lane[shown].completedAt = 0
                     \/ lane[initial'].completedAt < lane[shown].completedAt
<1>1. ASSUME Good, SpliceInv, [Next]_vars
      PROVE  W
  <2>1. CASE Owner \/ Caller \/ BudgetSpent \/ WindowCloses
    <3>1. Touches
      BY <1>1, <2>1, OthersTouch DEF SpliceInv
    <3>2. ASSUME NEW m \in Models, Completes(m)
          PROVE  W
      BY <3>2 DEF Completes, CompleteInitial
    <3> QED BY <3>1, <3>2 DEF Touches
  <2>2. CASE \E m \in Models : LaneStep(m)
    BY <1>1, <2>2, LaneStepDoes DEF Good, Types, Becomes
  <2>3. CASE UNCHANGED vars
    BY <2>3 DEF vars, raceVars
  <2> QED BY <1>1, <2>1, <2>2, <2>3 DEF Next, Running
<1>2. Good /\ SpliceInv /\ [Next]_vars => [W]_vars
  BY <1>1
<1> HIDE DEF W
<1>3. Spec => [][W]_vars
  BY <1>2, AlwaysSpliced, PTL DEF Spec
<1> QED BY <1>3 DEF W, WithdrawnOnlyForAnEarlierAnswer

(* Behind the initial answer lanes are acquired, and the stream ends, only  *)
(* where nothing runs and no complete answer waits.                         *)
TerminalInv ==
  /\ pull = "acquire" /\ initial # NoLane => Live = {} /\ Buffered = {}
  /\ terminal => initial # NoLane /\ pull = "idle" /\ Live = {} /\ Buffered = {}

LEMMA NotedKeepsLive ==
  ASSUME Noted(lane')
  PROVE  Live' = Live /\ Completed' = Completed
  BY DEF Noted, Same, Live, Opened, Finished, Completed

LEMMA OwnerAcquires ==
  ASSUME Good,
         Refill \/ Search \/ Listen \/ Read \/ Race \/ Resume \/ Acquire \/ Continue \/ Answer
  PROVE  pull # "idle" /\ terminal' = terminal /\ (pull' = "acquire" => initial' = NoLane)
<1>1. back \notin {"acquire"}
  BY DEF Good, Types
<1>2. CASE Refill \/ Resume \/ Answer \/ Acquire
  BY <1>1, <1>2 DEF Refill, Resume, Answer, Acquire, resultVars
<1>3. CASE Search
  BY <1>3, RefillStarts DEF Search, resultVars
<1>4. CASE Listen
  BY <1>4, RefillStarts DEF Listen, Commit, Raise, resultVars, goal
<1>5. CASE Read
  BY <1>5, RefillStarts DEF Read, Lend, CompleteInitial, Raise, resultVars, goal
<1>6. CASE Race
  BY <1>6, RefillStarts DEF Race, CompleteInitial, Raise, resultVars, goal
<1>7. CASE Continue
  BY <1>7, RefillStarts DEF Continue, resultVars
<1> QED BY <1>2, <1>3, <1>4, <1>5, <1>6, <1>7

LEMMA TerminalStep ==
  ASSUME Good, TerminalInv, [Next]_vars
  PROVE  TerminalInv'
<1>1. CASE Refill \/ Search \/ Listen \/ Read \/ Race \/ Resume \/ Acquire \/ Continue \/ Answer
  BY <1>1, OwnerAcquires DEF TerminalInv
<1>2. CASE NothingLeft
  <2>1. /\ lane' = lane /\ answers' = answers /\ initial' = initial /\ pull = "acquire"
        /\ Live' = Live /\ Buffered' = Buffered
    BY <1>2 DEF NothingLeft, resultVars, raceVars, Raise, Live, Opened, Finished, Buffered, Completed
  <2>2. /\ pull' = "acquire" => goal = "initial"
        /\ terminal' # terminal => goal = "another" /\ pull' = "idle"
    BY <1>2 DEF NothingLeft, resultVars, Raise
  <2> QED BY <2>1, <2>2 DEF TerminalInv, goal
<1>3. CASE Seek
  <2>1. /\ lane' = lane /\ answers' = answers /\ initial' = initial /\ initial # NoLane
        /\ Live' = Live /\ Buffered' = Buffered
    BY <1>3 DEF Seek, goal, resultVars, raceVars, Live, Opened, Finished, Buffered, Completed
  <2>2. /\ pull' = "acquire" => Buffered = {} /\ Live = {}
        /\ terminal' # terminal => Buffered = {} /\ Live = {} /\ pull' = "idle"
        /\ pull = "look"
    BY <1>3 DEF Seek, Outstanding, resultVars
  <2> QED BY <2>1, <2>2 DEF TerminalInv
<1>4. CASE CloseLanes
  <2>1. Noted(lane')
    BY <1>4, MarkedKept DEF CloseLanes, Kept, Good, Types
  <2>2. Live' = Live /\ Buffered' = Buffered
    BY <1>4, <2>1, NotedKeepsLive DEF CloseLanes, Buffered, resultVars
  <2> QED BY <1>4, <2>2 DEF CloseLanes, TerminalInv, resultVars, raceVars
<1>5. CASE Pull \/ Another
  BY <1>5 DEF Pull, Another, TerminalInv, resultVars
<1>6. CASE CloseEnds \/ Close \/ BudgetSpent \/ WindowCloses \/ UNCHANGED vars
  <2>1. UNCHANGED <<lane, pull, initial, terminal, answers>>
    BY <1>6 DEF CloseEnds, Close, BudgetSpent, WindowCloses, vars, raceVars, pullVars, resultVars
  <2>2. Live' = Live /\ Buffered' = Buffered
    BY <2>1 DEF Live, Opened, Finished, Buffered, Completed
  <2> QED BY <2>1, <2>2 DEF TerminalInv
<1>7. CASE \E m \in Models : LaneStep(m)
  <2>1. PICK m \in Models : LaneStep(m)
    BY <1>7
  <2>2. PICK s : Becomes(m, s)
    BY <2>1, LaneStepDoes DEF Good, Types
  <2> QED BY <2>2, BecomesKeeps DEF TerminalInv
<1> QED BY <1>1, <1>2, <1>3, <1>4, <1>5, <1>6, <1>7 DEF Next, Running, Owner, Caller

LEMMA AlwaysTerminal == Spec => [](Good /\ TerminalInv)
<1>1. Init => TerminalInv
  BY DEF Init, TerminalInv
<1>2. Good /\ TerminalInv /\ [Next]_vars => TerminalInv'
  BY TerminalStep
<1> QED BY <1>1, <1>2, AlwaysGood, PTL DEF Spec

(* None of another() means that no complete answer is left behind.          *)
THEOREM NothingLeftBehind == Spec => []NoAnswerLeftBehind
<1>1. TerminalInv => NoAnswerLeftBehind
  BY DEF TerminalInv, NoAnswerLeftBehind, Buffered
<1> QED BY <1>1, AlwaysTerminal, PTL

(* The answers handed over, and the ones that wait behind them.             *)
OrderInv ==
  /\ initial = NoLane => answers = <<>>
  /\ Range(answers) \subseteq Completed
  /\ IsInjective(answers)
  /\ \A i, j \in 2 .. Len(answers) :
       i < j => lane[answers[i]].completedAt <= lane[answers[j]].completedAt
  /\ \A i \in 2 .. Len(answers), n \in Buffered :
       lane[answers[i]].completedAt <= lane[n].completedAt
  /\ pull = "settle" => /\ initial # NoLane /\ target \in Buffered
                        /\ \A n \in Buffered : lane[target].completedAt <= lane[n].completedAt

(* All an order depends on: what is complete, and when it was completed.    *)
LEMMA OrderIsKept ==
  ASSUME Lanes, answers \in Seq(Models), OrderInv, answers' = answers, initial' = NoLane => initial = NoLane,
         Completed \subseteq Completed',
         \A m \in Completed : lane'[m].completedAt = lane[m].completedAt,
         \A m \in Completed' \ Completed : \A n \in Completed :
            lane[n].completedAt <= lane'[m].completedAt
  PROVE  /\ Range(answers') \subseteq Completed' /\ IsInjective(answers')
         /\ initial' = NoLane => answers' = <<>>
         /\ \A i, j \in 2 .. Len(answers') :
              i < j => lane'[answers'[i]].completedAt <= lane'[answers'[j]].completedAt
         /\ \A i \in 2 .. Len(answers'), n \in Buffered' :
              lane'[answers'[i]].completedAt <= lane'[n].completedAt
         /\ target \in Buffered /\ (\A n \in Buffered : lane[target].completedAt <= lane[n].completedAt)
              => target \in Buffered' /\ \A n \in Buffered' : lane'[target].completedAt <= lane'[n].completedAt
<1>1. \A n \in Buffered' : n \in Buffered \/ n \in Completed' \ Completed
  BY DEF Buffered
<1>2. \A m \in Buffered : m \in Completed /\ m \in Buffered'
  BY DEF Buffered
<1>3. \A i \in 2 .. Len(answers) : answers[i] \in Completed
  <2>1. \A i \in 2 .. Len(answers) : i \in DOMAIN answers
    OBVIOUS
  <2> QED BY <2>1 DEF OrderInv, Range
<1> QED BY <1>1, <1>2, <1>3 DEF OrderInv

LEMMA SettleIsAwaited ==
  ASSUME Good, Owner \/ Caller \/ BudgetSpent \/ WindowCloses, pull' = "settle"
  PROVE  /\ initial' = initial
         /\ \/ pull = "settle" /\ target' = target
            \/ initial # NoLane /\ Buffered # {} /\ target' = FirstBuffered
<1>1. back # "settle"
  BY DEF Good, Types
<1>2. CASE Refill \/ Resume \/ Answer \/ Acquire
  BY <1>1, <1>2 DEF Refill, Resume, Answer, Acquire
<1>3. CASE Search
  BY <1>3, RefillStarts DEF Search
<1>4. CASE Listen
  BY <1>4, RefillStarts DEF Listen, Commit, Raise
<1>5. CASE Read
  BY <1>5, RefillStarts DEF Read, Lend, CompleteInitial, Raise
<1>6. CASE Race
  BY <1>6, RefillStarts DEF Race, CompleteInitial, Raise
<1>7. CASE NothingLeft \/ Seek \/ CloseLanes
  BY <1>7 DEF NothingLeft, Seek, CloseLanes, Raise, pullVars
<1>8. CASE Continue
  BY <1>8, RefillStarts DEF Continue, goal
<1>9. CASE CloseEnds \/ Caller \/ BudgetSpent \/ WindowCloses
  BY <1>9 DEF CloseEnds, Caller, Pull, Another, Close, BudgetSpent, WindowCloses, pullVars, raceVars
<1> QED BY <1>2, <1>3, <1>4, <1>5, <1>6, <1>7, <1>8, <1>9 DEF Owner

LEMMA AnswerKeepsOrder ==
  ASSUME Good, OrderInv, Answer
  PROVE  OrderInv'
<1> DEFINE k == Len(answers)
<1>1. /\ answers' = Append(answers, target) /\ pull' = "idle" /\ lane' = lane /\ initial' = initial
      /\ pull = "settle"
  BY DEF Answer, raceVars
<1>2. /\ initial # NoLane /\ target \in Buffered /\ target \in Completed /\ target \notin Range(answers)
      /\ \A n \in Buffered : lane[target].completedAt <= lane[n].completedAt
  BY <1>1 DEF OrderInv, Buffered
<1>3. answers \in Seq(Models) /\ k \in Nat /\ target \in Models
  BY <1>2 DEF Good, Types, Completed
<1>4. /\ Len(answers') = k + 1 /\ DOMAIN answers' = 1 .. k + 1 /\ DOMAIN answers = 1 .. k
      /\ answers'[k + 1] = target /\ \A i \in 1 .. k : answers'[i] = answers[i]
  BY <1>1, <1>3
<1> HIDE DEF k
<1>5. Completed' = Completed /\ Range(answers') = Range(answers) \cup {target}
  <2>1. Completed' = Completed
    BY <1>1 DEF Completed
  <2>2. \A x : x \in Range(answers') <=> x \in Range(answers) \/ x = target
    BY <1>3, <1>4 DEF Range
  <2> QED BY <2>1, <2>2
<1>6. Buffered' \subseteq Buffered
  BY <1>5 DEF Buffered
<1>7. IsInjective(answers')
  <2>1. \A i \in 1 .. k : answers[i] \in Range(answers)
    BY <1>4 DEF Range
  <2>2. \A i, j \in 1 .. k : answers[i] = answers[j] => i = j
    BY <1>4 DEF OrderInv, IsInjective
  <2>3. \A i, j \in 1 .. k + 1 : answers'[i] = answers'[j] => i = j
    BY <1>2, <1>3, <1>4, <2>1, <2>2
  <2> QED BY <1>4, <2>3 DEF IsInjective
<1>8. ASSUME NEW i \in 2 .. k + 1, NEW j \in 2 .. k + 1, i < j
      PROVE  lane'[answers'[i]].completedAt <= lane'[answers'[j]].completedAt
  <2>1. i \in 2 .. Len(answers) /\ i \in 1 .. k
    BY <1>3, <1>8 DEF k
  <2>2. CASE j = k + 1
    BY <1>1, <1>2, <1>4, <2>1, <2>2 DEF OrderInv
  <2>3. CASE j # k + 1
    <3>1. j \in 2 .. Len(answers) /\ j \in 1 .. k
      BY <1>3, <2>3 DEF k
    <3>2. lane[answers[i]].completedAt <= lane[answers[j]].completedAt
      BY <1>8, <2>1, <3>1 DEF OrderInv
    <3> QED BY <1>1, <1>4, <2>1, <3>1, <3>2
  <2> QED BY <2>2, <2>3
<1>9. ASSUME NEW i \in 2 .. k + 1, NEW n \in Buffered'
      PROVE  lane'[answers'[i]].completedAt <= lane'[n].completedAt
  <2>1. CASE i = k + 1
    BY <1>1, <1>2, <1>4, <1>6, <2>1
  <2>2. CASE i # k + 1
    <3>1. i \in 2 .. Len(answers) /\ i \in 1 .. k
      BY <1>3, <2>2 DEF k
    <3> QED BY <1>1, <1>4, <1>6, <3>1 DEF OrderInv
  <2> QED BY <2>1, <2>2
<1>10. Range(answers') \subseteq Completed'
  BY <1>2, <1>5 DEF OrderInv
<1> QED BY <1>1, <1>2, <1>4, <1>7, <1>8, <1>9, <1>10 DEF OrderInv

LEMMA OrderStep ==
  ASSUME Good, SpliceInv, OrderInv, [Next]_vars
  PROVE  OrderInv'
<1>1. CASE Owner \/ Caller \/ BudgetSpent \/ WindowCloses
  <2>1. Effect /\ Touches
    BY <1>1, EffectOfOthers, OthersTouch DEF SpliceInv
  <2>2. /\ \A m \in Models : lane'[m].completedAt = lane[m].completedAt
        /\ Completed' = Completed /\ Completed \subseteq Models
    BY <2>1, GrowsKeeps DEF Effect, Good, Types, Completed
  <2>3. CASE initial' = initial /\ answers' = answers
    <3>1. Lanes /\ answers \in Seq(Models)
      BY DEF Good, Types
    <3>2. /\ Range(answers') \subseteq Completed' /\ IsInjective(answers')
          /\ initial' = NoLane => answers' = <<>>
          /\ \A i, j \in 2 .. Len(answers') :
               i < j => lane'[answers'[i]].completedAt <= lane'[answers'[j]].completedAt
          /\ \A i \in 2 .. Len(answers'), n \in Buffered' :
               lane'[answers'[i]].completedAt <= lane'[n].completedAt
      BY <2>2, <2>3, <3>1, OrderIsKept
    <3>3. Buffered' = Buffered /\ Buffered \subseteq Models
      BY <2>2, <2>3 DEF Buffered
    <3>4. pull' = "settle" => /\ initial' # NoLane /\ target' \in Buffered'
                              /\ \A n \in Buffered' : lane'[target'].completedAt <= lane'[n].completedAt
      BY <1>1, <2>2, <3>3, SettleIsAwaited, FirstBufferedIs DEF OrderInv, Good
    <3> QED BY <3>2, <3>4 DEF OrderInv
  <2>4. ASSUME NEW m \in Models, Completes(m)
        PROVE  OrderInv'
    <3>1. /\ initial' = m /\ answers' = Append(answers, m) /\ pull' = "idle" /\ initial = NoLane
          /\ m \in Completed
      BY <2>4 DEF Completes, CompleteInitial
    <3>2. answers' = <<m>>
      BY <3>1 DEF OrderInv
    <3>3. Range(answers') = {m} /\ IsInjective(answers') /\ Len(answers') = 1
      BY <3>2 DEF Range, IsInjective
    <3>4. initial' # NoLane
      BY <3>1, StreamAssumption DEF StreamAssumption
    <3> QED BY <2>2, <3>1, <3>3, <3>4 DEF OrderInv
  <2>5. CASE Answer
    BY <2>5, AnswerKeepsOrder
  <2> QED BY <2>1, <2>3, <2>4, <2>5 DEF Touches
<1>2. CASE \E m \in Models : LaneStep(m)
  <2>1. PICK m \in Models : LaneStep(m)
    BY <1>2
  <2>2. PICK s : Becomes(m, s)
    BY <2>1, LaneStepDoes DEF Good, Types
  <2>3. /\ lane'[m] = s /\ \A n \in Models \ {m} : lane'[n] = lane[n]
        /\ \A n \in Completed : lane'[n].completedAt = lane[n].completedAt
        /\ UNCHANGED <<initial, answers, pull, target>>
    BY <2>2, BecomesKeeps
  <2>4. Completed \subseteq Completed' /\ Completed' \subseteq Completed \cup {m}
    BY <2>3 DEF Completed
  <2>5. \A n \in Completed' \ Completed : \A o \in Completed : lane[o].completedAt <= lane'[n].completedAt
    BY <2>2, <2>3, <2>4 DEF Becomes, Completed
  <2>6. Lanes /\ answers \in Seq(Models)
    BY DEF Good, Types
  <2>7. /\ Range(answers') \subseteq Completed' /\ IsInjective(answers')
        /\ initial' = NoLane => answers' = <<>>
        /\ \A i, j \in 2 .. Len(answers') :
             i < j => lane'[answers'[i]].completedAt <= lane'[answers'[j]].completedAt
        /\ \A i \in 2 .. Len(answers'), n \in Buffered' :
             lane'[answers'[i]].completedAt <= lane'[n].completedAt
        /\ pull = "settle" =>
             target \in Buffered' /\ \A n \in Buffered' : lane'[target].completedAt <= lane'[n].completedAt
    BY <2>3, <2>4, <2>5, <2>6, OrderIsKept DEF OrderInv
  <2> QED BY <2>3, <2>7 DEF OrderInv
<1>3. CASE UNCHANGED vars
  BY <1>3 DEF vars, raceVars, resultVars, pullVars, OrderInv, Buffered, Completed
<1> QED BY <1>1, <1>2, <1>3 DEF Next, Running

LEMMA AlwaysOrdered == Spec => [](Good /\ SpliceInv /\ OrderInv)
<1>1. Init => OrderInv
  <2>1. Range(<<>>) = {} /\ IsInjective(<<>>) /\ Len(<<>>) = 0
    BY DEF Range, IsInjective
  <2> QED BY <2>1 DEF Init, OrderInv
<1>2. Good /\ SpliceInv /\ OrderInv /\ [Next]_vars => OrderInv'
  BY OrderStep
<1> QED BY <1>1, <1>2, AlwaysSpliced, PTL DEF Spec

(* Complete answers are handed over once each and, after the initial one,   *)
(* in the order they were completed (_buffered_lane).                       *)
THEOREM AnswersComeInOrder == Spec => []AnswersInOrder
<1>1. OrderInv => AnswersInOrder
  BY DEF OrderInv, AnswersInOrder
<1> QED BY <1>1, AlwaysOrdered, PTL

(* A handle that can be rated names a lane whose receipt is marked; it is   *)
(* named for the text being read until the initial answer or the close.     *)
ReceiptInv ==
  /\ receipt.settled => receipt.lane \in Opened /\ lane[receipt.lane].settled
  /\ initial # NoLane => receipt.settled
  /\ initial = NoLane /\ closing # "closed" => ~receipt.settled /\ receipt.lane = shown
  /\ closing = "stopping" => IF initial = NoLane THEN target = NoLane => receipt.lane = NoLane
                                                 ELSE target = NoLane
  /\ closing = "closed" /\ receipt.lane # NoLane /\ lane[receipt.lane].rows = <<"ok">> =>
       receipt.settled
  /\ \A m \in Range(answers) : lane[m].settled

(* The row of a lane and the receipt it marks. *)
LEMMA RowAndReceipt ==
  ASSUME Lanes, NEW m \in Models
  PROVE  /\ lane[m].settled => m \in Opened /\ Finished(m) /\ lane[m].rows = <<"ok">>
         /\ lane[m].rows = <<"ok">> /\ Live = {} => lane[m].settled
         /\ Finished(m) /\ lane[m].completedAt # 0 => lane[m].settled
<1>1. LaneOK(lane[m])
  BY DEF Lanes
<1>2. <<"ok">> # <<>> /\ \A v : <<Row(v)>> = <<"ok">> <=> Row(v) = "ok"
  OBVIOUS
<1>3. \A v : Row(v) = "ok" <=> v \in Rateable
  BY DEF Row, Rateable
<1>4. lane[m].settled => m \in Opened /\ Finished(m) /\ lane[m].rows = <<"ok">>
  BY <1>1, <1>3 DEF LaneOK, Rateable, Opened, Finished
<1>5. lane[m].rows = <<"ok">> => /\ m \in Opened /\ lane[m].verdict \in Rateable
                                 /\ Finished(m) => lane[m].settled
  BY <1>1, <1>2, <1>3 DEF LaneOK, Opened, Finished
<1>6. Finished(m) /\ lane[m].completedAt # 0 => lane[m].settled
  BY <1>1 DEF LaneOK, Rateable, Finished
<1> QED BY <1>4, <1>5, <1>6 DEF Live

(* Once the lanes are being stopped, only the end of the close is left.     *)
LEMMA StoppedStands ==
  ASSUME ClosedInv, closing \in {"stopping", "closed"}, ~CloseEnds,
         Owner \/ Caller \/ BudgetSpent \/ WindowCloses
  PROVE  UNCHANGED <<lane, initial, receipt, shown, target, closing, answers>>
<1>1. BudgetSpent \/ WindowCloses
  BY OwnerAwaits DEF ClosedInv, Caller, Pull, Another, Close, CloseLanes
<1> QED BY <1>1 DEF BudgetSpent, WindowCloses, raceVars, resultVars, pullVars

LEMMA StopsInOrder ==
  ASSUME closing \notin {"stopping", "closed"}, Owner \/ Caller \/ BudgetSpent \/ WindowCloses
  PROVE  /\ ~CloseEnds /\ closing' # "closed"
         /\ closing' = "stopping" => CloseLanes
  BY OwnerAwaits DEF Caller, Pull, Another, Close, BudgetSpent, WindowCloses, CloseLanes, CloseEnds

LEMMA CloseEndsReceipt ==
  ASSUME Good, ReceiptInv, CloseEnds
  PROVE  ReceiptInv'
<1>1. /\ closing = "stopping" /\ Live = {} /\ closing' = "closed"
      /\ UNCHANGED <<initial, lane, shown, answers>>
  BY DEF CloseEnds, raceVars
<1>2. Lanes /\ NoLane \notin Models /\ Opened' = Opened /\ Opened \subseteq Models
  BY <1>1, CompletedAreOpened DEF Good, Types, Opened
<1>3. CASE target # NoLane
  <2>1. /\ receipt' = [lane |-> target, settled |-> lane[target].settled]
        /\ target \in Models /\ initial = NoLane
    BY <1>1, <1>3 DEF CloseEnds, Publish, Good, Types, ReceiptInv
  <2>2. (receipt')["lane"] = target /\ (receipt')["settled"] = lane[target].settled
    BY <2>1
  <2>3. lane[target].settled => target \in Opened
    BY <1>2, <2>1, RowAndReceipt
  <2>4. lane[target].rows = <<"ok">> => lane[target].settled
    BY <1>1, <1>2, <2>1, RowAndReceipt
  <2> QED BY <1>1, <1>2, <2>1, <2>2, <2>3, <2>4 DEF ReceiptInv
<1>4. CASE target = NoLane
  <2>1. receipt' = receipt
    BY <1>4 DEF CloseEnds
  <2> QED BY <1>1, <1>2, <1>4, <2>1 DEF ReceiptInv
<1> QED BY <1>3, <1>4

(* The receipts of the answers: what is handed over has settled.            *)
LEMMA AnswersAreSettled ==
  ASSUME Good, SpliceInv, OrderInv, ReceiptInv, Owner \/ Caller \/ BudgetSpent \/ WindowCloses
  PROVE  \A m \in Range(answers') : lane[m].settled
<1>1. Touches /\ Lanes
  BY OthersTouch DEF SpliceInv, Good, Types
<1>2. ASSUME NEW x \in Models, answers' = Append(answers, x), Finished(x), x \in Completed
      PROVE  \A m \in Range(answers') : lane[m].settled
  <2>1. answers \in Seq(Models) /\ Len(answers) \in Nat
    BY DEF Good, Types
  <2>2. /\ Len(answers') = Len(answers) + 1 /\ DOMAIN answers' = 1 .. Len(answers) + 1
        /\ DOMAIN answers = 1 .. Len(answers) /\ answers'[Len(answers) + 1] = x
        /\ \A i \in 1 .. Len(answers) : answers'[i] = answers[i]
    BY <1>2, <2>1
  <2>3. \A m : m \in Range(answers') => m \in Range(answers) \/ m = x
    BY <2>1, <2>2 DEF Range
  <2>4. lane[x].settled
    BY <1>1, <1>2, RowAndReceipt DEF Completed
  <2> QED BY <2>3, <2>4 DEF ReceiptInv
<1>3. CASE answers' = answers
  BY <1>3 DEF ReceiptInv
<1>4. CASE Answer
  <2>1. answers' = Append(answers, target) /\ Finished(target) /\ target \in Completed
    BY <1>4 DEF Answer, OrderInv, Buffered
  <2>2. target \in Models
    BY <2>1 DEF Completed
  <2> QED BY <1>2, <2>1, <2>2
<1>5. ASSUME NEW m \in Models, Completes(m)
      PROVE  \A n \in Range(answers') : lane[n].settled
  BY <1>2, <1>5 DEF Completes, CompleteInitial
<1> QED BY <1>1, <1>3, <1>4, <1>5 DEF Touches

LEMMA ReceiptStep ==
  ASSUME Good, ClosedInv, SpliceInv, OrderInv, ReceiptInv, [Next]_vars
  PROVE  ReceiptInv'
<1>0. Lanes /\ NoLane \notin Models
  BY CompletedAreOpened DEF Good, Types
<1>1. CASE Owner \/ Caller \/ BudgetSpent \/ WindowCloses
  <2>1. Effect /\ Touches
    BY <1>1, EffectOfOthers, OthersTouch DEF SpliceInv
  <2>2. \A m \in Models : lane[m].settled => m \in Opened' /\ lane'[m].settled
    <3>1. \A m \in Opened : Same(lane[m], lane'[m])
      BY <2>1, GrowsKeeps DEF Effect, Good, Types
    <3> QED BY <1>0, <3>1, RowAndReceipt DEF Same, Opened
  <2>3. \A m \in Range(answers') : lane'[m].settled
    <3>1. \A m \in Range(answers') : m \in Models
      BY <2>1 DEF Effect, Retyped, Range
    <3> QED BY <1>1, <2>2, <3>1, AnswersAreSettled
  <2>4. CASE CloseEnds
    BY <2>4, CloseEndsReceipt
  <2>5. CASE closing \in {"stopping", "closed"} /\ ~CloseEnds
    BY <1>1, <2>5, StoppedStands DEF ReceiptInv, Opened
  <2>6. CASE closing \notin {"stopping", "closed"}
    <3>1. closing' # "closed" /\ (closing' = "stopping" => CloseLanes) /\ ~CloseEnds
      BY <1>1, <2>6, StopsInOrder
    <3>2. receipt.settled => receipt.lane \in Models /\ lane[receipt.lane].settled
      BY CompletedAreOpened DEF ReceiptInv, Good, Types
    <3>3. CASE UNCHANGED <<initial, receipt, shown>>
      <4>1. CASE CloseLanes
        <5>1. target' = IF initial = NoLane THEN Settled ELSE NoLane
          BY <4>1 DEF CloseLanes
        <5>2. initial = NoLane /\ Settled = NoLane => shown = NoLane
          BY DEF Settled
        <5> QED BY <2>2, <2>3, <2>6, <3>1, <3>2, <3>3, <5>1, <5>2 DEF ReceiptInv
      <4> QED BY <2>2, <2>3, <2>6, <3>1, <3>2, <3>3, <4>1 DEF ReceiptInv
    <3>4. CASE Exposes /\ closing' = closing /\ initial' = initial
      <4>1. PICK m : receipt' = [receipt EXCEPT !.lane = m] /\ shown' = m /\ initial = NoLane
        BY <3>4 DEF Exposes
      <4>2. receipt \in [lane : Models \cup {NoLane}, settled : BOOLEAN]
        BY DEF Good, Types
      <4>3. (receipt')["lane"] = m /\ (receipt')["settled"] = receipt.settled
        BY <4>1, <4>2
      <4> QED BY <2>3, <2>6, <3>1, <3>4, <4>1, <4>3 DEF ReceiptInv
    <3>5. ASSUME NEW m \in Models, Completes(m)
          PROVE  ReceiptInv'
      <4>1. /\ receipt' = [lane |-> m, settled |-> lane[m].settled] /\ initial' = m
            /\ closing' = closing /\ Finished(m) /\ m \in Completed
        BY <3>5 DEF Completes, CompleteInitial, Publish
      <4>2. lane[m].settled
        BY <1>0, <4>1, RowAndReceipt DEF Completed
      <4>3. (receipt')["lane"] = m /\ (receipt')["settled"] = TRUE /\ m # NoLane
        BY <1>0, <4>1, <4>2
      <4> QED BY <2>2, <2>3, <2>6, <4>1, <4>2, <4>3 DEF ReceiptInv
    <3> QED BY <2>1, <3>1, <3>3, <3>4, <3>5 DEF Touches
  <2> QED BY <2>4, <2>5, <2>6
<1>2. CASE \E m \in Models : LaneStep(m)
  <2>1. PICK m \in Models : LaneStep(m)
    BY <1>2
  <2>2. PICK s : Becomes(m, s)
    BY <2>1, LaneStepDoes DEF Good, Types
  <2>3. /\ \A n \in Models : Finished(n) => n # m /\ lane'[n] = lane[n]
        /\ UNCHANGED <<receipt, initial, shown, target, closing, answers>>
    BY <2>2, BecomesKeeps
  <2>4. \A n \in Models : lane[n].settled => n \in Opened' /\ lane'[n].settled
    BY <1>0, <2>3, RowAndReceipt DEF Opened
  <2>5. closing # "closed"
    BY <2>1, LaneStepIsLive DEF ClosedInv
  <2>6. receipt.settled => receipt.lane \in Models /\ lane[receipt.lane].settled
    BY CompletedAreOpened DEF ReceiptInv, Good, Types
  <2>7. \A n \in Range(answers) : n \in Models
    BY DEF Good, Types, Range
  <2> QED BY <2>3, <2>4, <2>5, <2>6, <2>7 DEF ReceiptInv
<1>3. CASE UNCHANGED vars
  BY <1>3 DEF vars, raceVars, resultVars, pullVars, ReceiptInv, Opened
<1> QED BY <1>1, <1>2, <1>3 DEF Next, Running

LEMMA AlwaysReceipted == Spec => [](Good /\ ClosedInv /\ ReceiptInv)
<1>1. Init => ReceiptInv
  <2>1. Range(<<>>) = {}
    BY DEF Range
  <2> QED BY <2>1 DEF Init, ReceiptInv
<1>2. Good /\ ClosedInv /\ SpliceInv /\ OrderInv /\ ReceiptInv /\ [Next]_vars => ReceiptInv'
  BY ReceiptStep
<1> QED BY <1>1, <1>2, AlwaysClosed, AlwaysOrdered, PTL DEF Spec

(* No rating precedes the row it rates, through a lane's receipt, an answer *)
(* or the handle, and the handle can be rated once its answer has ended or  *)
(* its stream is closed over a lane with its row (settle, _publish).        *)
THEOREM NoRatingBeforeTheRow == Spec => []RateableOnceJournaled
<1>1. ASSUME Good, ReceiptInv
      PROVE  RateableOnceJournaled
  <2>1. \A m \in Models : lane[m].settled => lane[m].rows = <<"ok">>
    BY <1>1, RowAndReceipt DEF Good, Types
  <2>2. NoLane \notin Models /\ Opened \subseteq Models
    BY <1>1, CompletedAreOpened DEF Good, Types
  <2>3. \A m \in Models : m \in Range(answers) => lane[m].settled
    BY <1>1 DEF ReceiptInv
  <2> QED BY <1>1, <2>1, <2>2, <2>3 DEF ReceiptInv, RateableOnceJournaled
<1> QED BY <1>1, AlwaysReceipted, PTL

-----------------------------------------------------------------------------
(* The width of the waves. *)

(* The lanes of wave w, in table L, that owe an answer or hold one.         *)
Filled(L, w) ==
  {m \in Models : /\ L[m].step # "unopened" /\ L[m].wave = w
                  /\ L[m].step # "done" \/ L[m].completedAt # 0}

(* What a refill has counted is still missing when it opens its lanes: a    *)
(* place may fall free before, and none is taken.                           *)
WaveInv ==
  /\ \A m \in Opened : lane[m].wave \in DOMAIN waves
  /\ \A w \in DOMAIN waves : Cardinality(Filled(lane, w)) <= waves[w]
  /\ pull = "refill" =>
       /\ waves # <<>> /\ needed \in Nat
       /\ Cardinality(Filled(lane, Len(waves))) + needed <= waves[Len(waves)]

LEMMA FilledIsFinite ==
  ASSUME NEW L, NEW w
  PROVE  IsFiniteSet(Filled(L, w)) /\ Cardinality(Filled(L, w)) \in Nat
<1>1. Filled(L, w) \subseteq Models /\ IsFiniteSet(Models)
  BY StreamAssumption DEF Filled, StreamAssumption
<1>2. IsFiniteSet(Filled(L, w))
  BY <1>1, FS_Subset
<1> QED BY <1>2, FS_CardinalityType

LEMMA FewerFilled ==
  ASSUME NEW L, NEW M, NEW w, Filled(M, w) \subseteq Filled(L, w)
  PROVE  Cardinality(Filled(M, w)) <= Cardinality(Filled(L, w))
  BY FilledIsFinite, FS_Subset

(* An answer handed over keeps its place.                                   *)
LEMMA FilledIs ==
  ASSUME OrderInv, NEW w
  PROVE  Filled(lane, w) =
           {m \in Opened : lane[m].wave = w /\ (Pending(m) \/ m \in Range(answers))}
<1>1. \A m \in Range(answers) : lane[m].completedAt # 0
  BY DEF OrderInv, Completed
<1> QED BY <1>1 DEF Filled, Opened, Pending, Finished

LEMMA MissingIs ==
  ASSUME Good, OrderInv
  PROVE  Missing = waves[Len(waves)] - Cardinality(Filled(lane, Len(waves)))
<1> DEFINE w == Len(waves)
<1>1. {m \in {n \in Opened : lane[n].wave = w} : Pending(m) \/ m \in Range(answers)}
        = {m \in Opened : lane[m].wave = w /\ (Pending(m) \/ m \in Range(answers))}
  OBVIOUS
<1> QED BY <1>1, FilledIs DEF Missing

(* What a refill opens at most, while it waits. *)
RefillAwaits ==
  pull' = "refill" => \/ pull = "refill" /\ needed' = needed
                      \/ waves # <<>> /\ Missing > 0 /\ needed' = Missing

LEMMA RefillNeeds ==
  ASSUME NEW next, StartRefill(next), Good, OrderInv, next # "refill"
  PROVE  RefillAwaits
<1>1. CASE waves = <<>>
  BY <1>1 DEF StartRefill, RefillAwaits
<1>2. CASE waves # <<>>
  <2>1. waves[Len(waves)] \in Nat
    BY <1>2 DEF Good, Types
  <2>2. Missing \in Int
    BY <2>1, MissingIs, FilledIsFinite
  <2> QED BY <1>2, <2>2 DEF StartRefill, RefillAwaits
<1> QED BY <1>1, <1>2

(* A step that opens no lane, and leaves no finished one with an answer.    *)
LEMMA WavesStay ==
  ASSUME Good, OrderInv, WaveInv, waves' = waves, RefillAwaits,
         \A m \in Opened' : m \in Opened /\ lane'[m].wave = lane[m].wave,
         \A w : Filled(lane', w) \subseteq Filled(lane, w)
  PROVE  WaveInv'
<1>1. \A m \in Opened' : lane'[m].wave \in DOMAIN waves
  BY DEF WaveInv
<1>2. \A w : /\ Cardinality(Filled(lane', w)) <= Cardinality(Filled(lane, w))
             /\ Cardinality(Filled(lane', w)) \in Nat /\ Cardinality(Filled(lane, w)) \in Nat
  BY FewerFilled, FilledIsFinite
<1>3. \A w \in DOMAIN waves : waves[w] \in Nat
  BY DEF Good, Types
<1>4. \A w \in DOMAIN waves : Cardinality(Filled(lane', w)) <= waves[w]
  BY <1>2, <1>3 DEF WaveInv
<1>5. ASSUME pull' = "refill"
      PROVE  /\ waves # <<>> /\ needed' \in Nat
             /\ Cardinality(Filled(lane', Len(waves))) + needed' <= waves[Len(waves)]
  <2>1. CASE pull = "refill" /\ needed' = needed
    <3>1. /\ waves # <<>> /\ needed \in Nat
          /\ Cardinality(Filled(lane, Len(waves))) + needed <= waves[Len(waves)]
      BY <2>1 DEF WaveInv
    <3>2. waves[Len(waves)] \in Nat
      BY <3>1 DEF Good, Types
    <3> QED BY <1>2, <2>1, <3>1, <3>2
  <2>2. CASE waves # <<>> /\ Missing > 0 /\ needed' = Missing
    <3>1. waves[Len(waves)] \in Nat
      BY <2>2 DEF Good, Types
    <3> QED BY <1>2, <2>2, <3>1, MissingIs
  <2> QED BY <1>5, <2>1, <2>2 DEF RefillAwaits
<1> QED BY <1>1, <1>4, <1>5 DEF WaveInv

(* The lanes of q, none of them open before, are opened in wave w.          *)
OpensIn(L, q, w) == Grown(L, q) /\ \A m \in Range(q) : L[m].wave = w

LEMMA RankingIs ==
  ASSUME NEW n \in Nat, NEW q \in Rankings(n)
  PROVE  /\ IsFiniteSet(Range(q)) /\ Cardinality(Range(q)) = Len(q)
         /\ Len(q) \in Nat /\ Len(q) <= n /\ Range(q) \subseteq Untried
<1>1. PICK k \in 1 .. n : q \in [1 .. k -> Untried] /\ IsInjective(q)
  BY DEF Rankings
<1>2. k \in Nat /\ Len(q) = k /\ k <= n
  BY <1>1
<1>3. IsFiniteSet(1 .. k) /\ Cardinality(1 .. k) = k
  BY <1>2, FS_Interval
<1>4. q \in Surjection(1 .. k, Range(q)) /\ q \in Injection(1 .. k, Range(q))
  BY <1>1 DEF Surjection, Injection, IsInjective, Range
<1>5. IsFiniteSet(Range(q)) /\ Cardinality(Range(q)) = k
  BY <1>3, <1>4, FS_Surjection
<1> QED BY <1>1, <1>2, <1>5 DEF Range

LEMMA OpenOpensIn ==
  ASSUME Types, NEW n \in Nat, NEW q \in Rankings(n), NEW h \in BOOLEAN, NEW w \in Nat,
         NEW L, L = Open(lane, q, h, w)
  PROVE  OpensIn(L, q, w)
<1>1. Grown(L, q)
  BY OpenGrown
<1>2. ASSUME NEW m \in Range(q)
      PROVE  L[m].wave = w
  <2>1. m \in Models
    BY RankingIs DEF Untried, Types
  <2> DEFINE p == Cardinality(Opened) + (CHOOSE i \in DOMAIN q : q[i] = m)
  <2>2. L[m] = [Unopened EXCEPT !.step = "begun", !.hold = h, !.wave = w, !.pos = p]
    BY <1>2, <2>1 DEF Open
  <2> HIDE DEF p
  <2> QED BY <2>2 DEF Unopened
<1> QED BY <1>1, <1>2 DEF OpensIn

LEMMA SentOpensIn ==
  ASSUME Lanes, NEW q, NEW L, NEW w, OpensIn(L, q, w), NEW x \in Opened,
         NEW M, Delivered(M, L, x)
  PROVE  OpensIn(M, q, w)
<1>1. Grown(L, q) /\ Grown(M, q)
  BY SentGrown DEF OpensIn
<1>2. x \notin Range(q)
  BY <1>1 DEF Grown, Range, Opens, Opened
<1>3. \A m \in Range(q) : M[m].wave = L[m].wave
  <2>1. L \in [Models -> LaneRecs]
    BY <1>1 DEF Grown
  <2>2. \A m \in Range(q) : M[m] = L[m]
    BY <1>2, <2>1 DEF Delivered
  <2> QED BY <2>2
<1> QED BY <1>1, <1>3 DEF OpensIn

LEMMA OpeningFills ==
  ASSUME Lanes, NEW q, NEW L, NEW w, OpensIn(L, q, w)
  PROVE  /\ \A v : v # w => Filled(L, v) \subseteq Filled(lane, v)
         /\ Filled(L, w) \subseteq Filled(lane, w) \cup Range(q)
         /\ \A m \in Models : L[m].step # "unopened" =>
              (m \in Range(q) /\ L[m].wave = w) \/ (m \in Opened /\ L[m].wave = lane[m].wave)
<1>1. \A m \in Models : m \notin Range(q) => Same(lane[m], L[m])
  BY DEF OpensIn, Grown
<1>2. \A m \in Range(q) : L[m].wave = w
  BY DEF OpensIn
<1>3. \A m \in Models : m \notin Range(q) =>
        /\ L[m].step = lane[m].step /\ L[m].wave = lane[m].wave
        /\ L[m].completedAt = lane[m].completedAt
  BY <1>1 DEF Same
<1>4. ASSUME NEW v, v # w
      PROVE  Filled(L, v) \subseteq Filled(lane, v)
  <2>1. \A m \in Filled(L, v) : m \notin Range(q)
    BY <1>2, <1>4 DEF Filled
  <2> QED BY <1>3, <2>1 DEF Filled
<1>5. Filled(L, w) \subseteq Filled(lane, w) \cup Range(q)
  BY <1>3 DEF Filled
<1>6. \A m \in Models : L[m].step # "unopened" =>
        (m \in Range(q) /\ L[m].wave = w) \/ (m \in Opened /\ L[m].wave = lane[m].wave)
  <2> TAKE m \in Models
  <2>1. CASE m \in Range(q)
    BY <1>2, <2>1
  <2>2. CASE m \notin Range(q)
    BY <1>3, <2>2 DEF Opened
  <2> QED BY <2>1, <2>2
<1> QED BY <1>4, <1>5, <1>6

LEMMA NotedWavesStay ==
  ASSUME Good, OrderInv, WaveInv, Noted(lane'), waves' = waves, RefillAwaits
  PROVE  WaveInv'
<1>1. \A m \in Models : /\ lane'[m].step = lane[m].step /\ lane'[m].wave = lane[m].wave
                        /\ lane'[m].completedAt = lane[m].completedAt
  BY DEF Noted, Same
<1>2. \A m \in Opened' : m \in Opened /\ lane'[m].wave = lane[m].wave
  BY <1>1 DEF Opened
<1>3. \A w : Filled(lane', w) \subseteq Filled(lane, w)
  BY <1>1 DEF Filled
<1> QED BY <1>2, <1>3, WavesStay

LEMMA ListenWaves ==
  ASSUME Good, OrderInv, Listen
  PROVE  Noted(lane') /\ waves' = waves /\ RefillAwaits
<1>1. waves' = waves
  BY DEF Listen, poolVars
<1>2. Kept(lane)
  BY AbsorbedKept DEF Good, Types
<1>3. CASE Commit(lane)
  <2>1. CASE FirstToSpeak = NoLane
    BY <1>1, <1>2, <1>3, <2>1 DEF Commit, Kept, RefillAwaits
  <2>2. CASE FirstToSpeak # NoLane
    <3>1. KeptBut(lane', FirstToSpeak)
      BY <1>2, <1>3, <2>2, SentKept DEF Commit
    <3>2. RefillAwaits
      BY <1>3, <2>2, RefillNeeds DEF Commit
    <3> QED BY <1>1, <3>1, <3>2 DEF KeptBut
  <2> QED BY <2>1, <2>2
<1>4. CASE lane' = lane /\ pull' # "refill"
  BY <1>1, <1>2, <1>4 DEF Kept, RefillAwaits
<1> QED BY <1>3, <1>4, RaiseLeaves DEF Listen

LEMMA ReadWaves ==
  ASSUME Good, OrderInv, Read
  PROVE  Noted(lane') /\ waves' = waves /\ RefillAwaits
<1>1. waves' = waves
  BY DEF Read, poolVars
<1>2. Kept(lane)
  BY AbsorbedKept DEF Good, Types
<1>3. CASE Lend(shown)
  <2>1. KeptBut(lane', shown)
    BY <1>2, <1>3, SentKept DEF Lend
  <2>2. RefillAwaits
    BY <1>3, RefillNeeds DEF Lend
  <2> QED BY <1>1, <2>1, <2>2 DEF KeptBut
<1>4. CASE lane' = lane /\ StartRefill("pause")
  BY <1>1, <1>2, <1>4, RefillNeeds DEF Kept
<1>5. CASE lane' = lane /\ pull' # "refill"
  BY <1>1, <1>2, <1>5 DEF Kept, RefillAwaits
<1> QED BY <1>3, <1>4, <1>5, RaiseLeaves DEF Read, CompleteInitial

LEMMA RaceWaves ==
  ASSUME Good, OrderInv, Race
  PROVE  Noted(lane') /\ waves' = waves /\ RefillAwaits
<1> DEFINE absorb == Absorbed
<1>1. waves' = waves
  BY DEF Race, poolVars
<1>2. Kept(absorb)
  BY AbsorbedKept DEF Good, Types
<1> HIDE DEF absorb
<1>3. ASSUME NEW x, lane' = [absorb EXCEPT ![x].sent = @ + 1], pull' = "idle"
      PROVE  Noted(lane') /\ waves' = waves /\ RefillAwaits
  <2>1. KeptBut(lane', x)
    BY <1>2, <1>3, SentKept
  <2> QED BY <1>1, <1>3, <2>1 DEF KeptBut, RefillAwaits
<1>4. CASE lane' = absorb /\ StartRefill("pause")
  BY <1>1, <1>2, <1>4, RefillNeeds DEF Kept
<1>5. CASE lane' = absorb /\ pull' # "refill"
  BY <1>1, <1>2, <1>5 DEF Kept, RefillAwaits
<1> QED BY <1>3, <1>4, <1>5, RaiseLeaves DEF Race, CompleteInitial, absorb

(* Whatever opens no lane. *)
LEMMA OthersKeepWaves ==
  ASSUME Good, OrderInv, Owner \/ Caller \/ BudgetSpent \/ WindowCloses, ~Refill, ~Acquire
  PROVE  Noted(lane') /\ waves' = waves /\ RefillAwaits
<1>1. Kept(lane) /\ Kept(Absorbed)
  BY AbsorbedKept DEF Good, Types
<1>2. CASE Search
  BY <1>1, <1>2, RefillNeeds DEF Search, poolVars, Kept
<1>3. CASE Resume \/ NothingLeft \/ Answer \/ Seek
  BY <1>1, <1>3 DEF Resume, NothingLeft, Answer, Seek, Raise, poolVars, pullVars, Kept, RefillAwaits
<1>4. CASE Continue
  BY <1>1, <1>4, RefillNeeds DEF Continue, poolVars, Kept, RefillAwaits
<1>5. CASE CloseLanes
  BY <1>5, MarkedKept DEF CloseLanes, poolVars, Kept, RefillAwaits, Good, Types
<1>6. CASE CloseEnds \/ Caller \/ BudgetSpent \/ WindowCloses
  BY <1>1, <1>6 DEF CloseEnds, Caller, Pull, Another, Close, BudgetSpent, WindowCloses,
     poolVars, pullVars, Kept, RefillAwaits
<1> QED BY <1>2, <1>3, <1>4, <1>5, <1>6, ListenWaves, ReadWaves, RaceWaves DEF Owner

LEMMA RefillWaves ==
  ASSUME Good, OrderInv, WaveInv, Refill
  PROVE  WaveInv'
<1> DEFINE v == Len(waves)
<1>1. /\ waves' = waves /\ pull' # "refill" /\ RefillAwaits
      /\ waves # <<>> /\ needed \in Nat /\ v \in DOMAIN waves /\ v \in Nat /\ waves[v] \in Nat
      /\ Cardinality(Filled(lane, v)) + needed <= waves[v]
  <2>1. waves' = waves /\ pull = "refill" /\ pull' = back /\ back # "refill"
    BY DEF Refill, poolVars, Good, Types
  <2> QED BY <2>1 DEF WaveInv, RefillAwaits, Good, Types
<1>2. CASE lane' = lane
  BY <1>1, <1>2, AbsorbedKept, NotedWavesStay DEF Kept, Good, Types
<1>3. CASE \E q \in Rankings(needed) : lane' = Open(lane, q, FALSE, v)
  <2>1. PICK q \in Rankings(needed) : lane' = Open(lane, q, FALSE, v)
    BY <1>3
  <2> HIDE DEF v
  <2>2. OpensIn(lane', q, v)
    BY <1>1, <2>1, OpenOpensIn DEF Good, Types
  <2>3. /\ \A u : u # v => Filled(lane', u) \subseteq Filled(lane, u)
        /\ Filled(lane', v) \subseteq Filled(lane, v) \cup Range(q)
        /\ \A m \in Models : lane'[m].step # "unopened" =>
             (m \in Range(q) /\ lane'[m].wave = v) \/ (m \in Opened /\ lane'[m].wave = lane[m].wave)
    BY <2>2, OpeningFills DEF Good, Types
  <2>4. Cardinality(Filled(lane', v)) <= waves[v]
    <3>1. /\ IsFiniteSet(Range(q)) /\ Cardinality(Range(q)) \in Nat
          /\ Cardinality(Range(q)) <= needed
      BY <1>1, RankingIs
    <3>2. Cardinality(Filled(lane, v) \cup Range(q))
            <= Cardinality(Filled(lane, v)) + Cardinality(Range(q))
      <4>1. Cardinality(Filled(lane, v) \cap Range(q)) \in Nat
        BY <3>1, FS_CardinalityType, FS_Intersection
      <4> QED BY <3>1, <4>1, FilledIsFinite, FS_Union
    <3>3. /\ IsFiniteSet(Filled(lane, v) \cup Range(q))
          /\ Cardinality(Filled(lane, v) \cup Range(q)) \in Nat
      BY <3>1, FilledIsFinite, FS_Union, FS_CardinalityType
    <3>4. Cardinality(Filled(lane', v)) <= Cardinality(Filled(lane, v) \cup Range(q))
      BY <2>3, <3>3, FS_Subset
    <3> QED BY <1>1, <3>1, <3>2, <3>3, <3>4, FilledIsFinite
  <2>5. \A w \in DOMAIN waves : w # v => Cardinality(Filled(lane', w)) <= waves[w]
    <3>1. \A w \in DOMAIN waves : waves[w] \in Nat
      BY DEF Good, Types
    <3>2. \A w : w # v => Cardinality(Filled(lane', w)) <= Cardinality(Filled(lane, w))
      BY <2>3, FewerFilled
    <3> QED BY <3>1, <3>2, FilledIsFinite DEF WaveInv
  <2>6. \A m \in Opened' : lane'[m].wave \in DOMAIN waves
    BY <1>1, <2>3 DEF Opened, WaveInv
  <2> QED BY <1>1, <2>4, <2>5, <2>6 DEF WaveInv
<1> QED BY <1>2, <1>3 DEF Refill

(* A wave is at least as wide as it has lanes, and no lane was in it.       *)
LEMMA AcquireWaves ==
  ASSUME Good, OrderInv, WaveInv, Acquire
  PROVE  WaveInv'
<1> DEFINE n == Max({asked.width, 2})
<1> DEFINE v == Len(waves) + 1
<1>1. PICK q \in Rankings(n) :
        \E h \in BOOLEAN :
           /\ waves' = Append(waves, Max({asked.width, Len(q)}))
           /\ \/ lane' = Open(lane, q, h, v)
              \/ /\ FirstToSpeak # NoLane
                 /\ lane' = [Open(lane, q, h, v) EXCEPT ![FirstToSpeak].sent = 1]
           /\ pull' # "refill"
  BY DEF Acquire
<1>2. PICK h \in BOOLEAN :
        /\ waves' = Append(waves, Max({asked.width, Len(q)}))
        /\ \/ lane' = Open(lane, q, h, v)
           \/ /\ FirstToSpeak # NoLane
              /\ lane' = [Open(lane, q, h, v) EXCEPT ![FirstToSpeak].sent = 1]
        /\ pull' # "refill"
  BY <1>1
<1>3. asked.width \in Nat /\ waves \in Seq(Nat) /\ v \in Nat /\ Lanes
  <2>1. waves \in Seq(Nat) /\ Lanes
    BY DEF Good, Types
  <2>2. asked.width \in Nat
    BY StreamAssumption DEF StreamAssumption, Good, Types
  <2> QED BY <2>1, <2>2
<1>4. n \in Nat
  BY <1>3, MaxOfTwo
<1> HIDE DEF n
<1>5. /\ IsFiniteSet(Range(q)) /\ Cardinality(Range(q)) = Len(q) /\ Len(q) \in Nat
  BY <1>4, RankingIs
<1> DEFINE width == Max({asked.width, Len(q)})
<1>6. width \in Nat /\ Len(q) <= width
  BY <1>3, <1>5, MaxOfTwo
<1> HIDE DEF width
<1>7. /\ waves' = Append(waves, width) /\ DOMAIN waves' = DOMAIN waves \cup {v}
      /\ waves'[v] = width /\ v \notin DOMAIN waves
      /\ \A w \in DOMAIN waves : waves'[w] = waves[w] /\ waves[w] \in Nat
  BY <1>2, <1>3, <1>6 DEF width
<1> HIDE DEF v
<1>8. OpensIn(lane', q, v)
  <2> DEFINE L == Open(lane, q, h, v)
  <2>1. OpensIn(L, q, v)
    BY <1>3, <1>4, OpenOpensIn DEF Good
  <2> HIDE DEF L
  <2>2. CASE lane' = L
    BY <2>1, <2>2
  <2>3. CASE FirstToSpeak # NoLane /\ lane' = [L EXCEPT ![FirstToSpeak].sent = 1]
    <3> DEFINE x == FirstToSpeak
    <3> DEFINE M == lane'
    <3>1. x \in Opened /\ Delivered(M, L, x) /\ Lanes
      BY <1>3, <2>3, FirstToSpeakIs, CompletedAreOpened DEF Delivered
    <3> HIDE DEF x, M
    <3>2. OpensIn(M, q, v)
      BY <2>1, <3>1, SentOpensIn
    <3> QED BY <3>2 DEF M
  <2> QED BY <1>2, <2>2, <2>3 DEF L
<1>9. /\ \A u : u # v => Filled(lane', u) \subseteq Filled(lane, u)
      /\ Filled(lane', v) \subseteq Filled(lane, v) \cup Range(q)
      /\ \A m \in Models : lane'[m].step # "unopened" =>
           (m \in Range(q) /\ lane'[m].wave = v) \/ (m \in Opened /\ lane'[m].wave = lane[m].wave)
  BY <1>3, <1>8, OpeningFills
<1>10. Cardinality(Filled(lane', v)) <= waves'[v]
  <2>1. Filled(lane, v) = {}
    BY <1>7 DEF Filled, WaveInv, Opened
  <2>2. Cardinality(Filled(lane', v)) <= Cardinality(Range(q))
    BY <1>5, <1>9, <2>1, FS_Subset
  <2> QED BY <1>5, <1>6, <1>7, <2>2, FilledIsFinite
<1>11. \A w \in DOMAIN waves : Cardinality(Filled(lane', w)) <= waves'[w]
  <2>1. \A w \in DOMAIN waves : Cardinality(Filled(lane', w)) <= Cardinality(Filled(lane, w))
    BY <1>7, <1>9, FewerFilled
  <2> QED BY <1>7, <2>1, FilledIsFinite DEF WaveInv
<1>12. \A m \in Opened' : lane'[m].wave \in DOMAIN waves'
  BY <1>7, <1>9 DEF Opened, WaveInv
<1> QED BY <1>2, <1>7, <1>10, <1>11, <1>12 DEF WaveInv

(* A lane's own step never takes a place it had given up. *)
LEMMA LaneWaves ==
  ASSUME Good, OrderInv, WaveInv, NEW m \in Models, NEW s, Becomes(m, s)
  PROVE  WaveInv'
<1>1. lane'[m] = s /\ \A n \in Models \ {m} : lane'[n] = lane[n]
  BY BecomesKeeps
<1>2. /\ lane[m].step \notin {"unopened", "done"} /\ s.step # "unopened" /\ s.wave = lane[m].wave
      /\ waves' = waves /\ pull' = pull /\ needed' = needed
  BY DEF Becomes, Goes, poolVars, pullVars
<1>3. \A n \in Opened' : n \in Opened /\ lane'[n].wave = lane[n].wave
  BY <1>1, <1>2 DEF Opened
<1>4. \A w : Filled(lane', w) \subseteq Filled(lane, w)
  BY <1>1, <1>2 DEF Filled
<1>5. RefillAwaits
  BY <1>2 DEF RefillAwaits
<1> QED BY <1>2, <1>3, <1>4, <1>5, WavesStay

LEMMA WaveStep ==
  ASSUME Good, OrderInv, WaveInv, [Next]_vars
  PROVE  WaveInv'
<1>1. CASE Refill
  BY <1>1, RefillWaves
<1>2. CASE Acquire
  BY <1>2, AcquireWaves
<1>3. CASE (Owner \/ Caller \/ BudgetSpent \/ WindowCloses) /\ ~Refill /\ ~Acquire
  BY <1>3, OthersKeepWaves, NotedWavesStay
<1>4. CASE \E m \in Models : LaneStep(m)
  BY <1>4, LaneStepDoes, LaneWaves DEF Good, Types
<1>5. CASE UNCHANGED vars
  BY <1>5 DEF vars, poolVars, pullVars, WaveInv, Filled, Opened
<1> QED BY <1>1, <1>2, <1>3, <1>4, <1>5 DEF Next, Running

LEMMA AlwaysInWaves == Spec => [](OrderInv /\ WaveInv)
<1>1. Init => WaveInv
  BY UnopenedIsOK DEF Init, WaveInv, Opened
<1>2. Good /\ OrderInv /\ WaveInv /\ [Next]_vars => WaveInv'
  BY WaveStep
<1> QED BY <1>1, <1>2, AlwaysOrdered, PTL DEF Spec

(* The lanes of a wave that owe or hold an answer never exceed its width,   *)
(* although a refill counts them before an await and opens after it         *)
(* (_refill_free).                                                          *)
THEOREM NoWaveOverflows == Spec => []WithinTheWave
<1>1. OrderInv /\ WaveInv => WithinTheWave
  BY FilledIs DEF WaveInv, WithinTheWave
<1> QED BY <1>1, AlwaysInWaves, PTL
-----------------------------------------------------------------------------
(* Who wakes the owner. *)

(* The text read so far, and the lane it is read from.                      *)
TextInv ==
  /\ \A m \in Models : lane[m].sent <= lane[m].got
  /\ \A m \in Models : lane[m].step = "held" => Ordinary
  /\ shown # NoLane => shown \in Opened
  /\ Ordinary /\ initial # NoLane => shown = initial

(* A delta is lent to the reader of the initial answer between its pulls;   *)
(* a shown lane that is held although all of it was read has been told so,  *)
(* or will be by the next pull.                                             *)
LentInv ==
  /\ lent => initial = NoLane /\ (pull = "idle" \/ (pull = "refill" /\ back = "idle"))
  /\ shown # NoLane /\ lane[shown].step = "held" /\ lane[shown].sent = lane[shown].got
       => pulled \/ lent

(* Nothing is cut before the close has stopped the owner's pull. *)
MarkInv == closing \notin {"stopping", "closed"} => \A m \in Models : lane[m].mark = "none"

(* Standing at the pause, or about to once the refill is over.              *)
Paused == pull = "pause" \/ (pull = "refill" /\ back = "pause")

(* What the owner saw when it cleared the event, and sees until it is set.  *)
Awaiting ==
  /\ Live # {}
  /\ initial = NoLane /\ Ordinary =>
       IF shown = NoLane THEN Spoken = {}
       ELSE shown \in Live /\ lane[shown].sent = lane[shown].got

PauseInv == Paused /\ ~wake => Awaiting

WakeInv == TextInv /\ LentInv /\ MarkInv /\ PauseInv

(* What a step of lane m leaves of it, and of the pace of its reader.       *)
Paces(m) ==
  /\ \A n \in Models \ {m} : lane'[n] = lane[n]
  /\ lane'[m].sent = lane[m].sent /\ lane'[m].mark = lane[m].mark
  /\ lane'[m].got \in {lane[m].got, lane[m].got + 1}
  /\ lane'[m].step = "held" => Ordinary /\ lane'[m].got = lane[m].got + 1
  /\ \/ wake'
     \/ lane[m].mark # "none"
     \/ /\ wake' = wake /\ lane'[m].step \notin {"unopened", "done"}
        /\ lane'[m].first = lane[m].first /\ lane'[m].got = lane[m].got
  /\ pulled => pulled' \/ (shown = m /\ lane'[m].step # "held")
  /\ lent' = lent

LEMMA LaneStepPaces ==
  ASSUME Good, NEW m \in Models, LaneStep(m)
  PROVE  Paces(m)
<1>1. lane \in [Models -> LaneRecs] /\ lane[m] \in LaneRecs
  BY DEF Good, Types, Lanes
<1>2. ASSUME NEW v, Dispose(m, v), UNCHANGED <<budgetVars, raceVars>>
      PROVE  Paces(m)
  <2>1. lane' = [lane EXCEPT ![m] = [lane[m] EXCEPT !.step = "settling", !.verdict = v,
                                                    !.freed = @ + 1]]
    BY <1>1, <1>2 DEF Dispose
  <2> QED BY <1>1, <1>2, <2>1 DEF Paces, LaneRecs, budgetVars, raceVars
<1>3. ASSUME lane' = [lane EXCEPT ![m].step = "asking"], UNCHANGED <<lent, wake, pulled>>
      PROVE  Paces(m)
  <2>1. lane' = [lane EXCEPT ![m] = [lane[m] EXCEPT !.step = "asking"]]
    BY <1>1, <1>3
  <2> QED BY <1>1, <1>3, <2>1 DEF Paces, LaneRecs
<1>4. CASE Begin(m)
  BY <1>2, <1>3, <1>4 DEF Begin, budgetVars, raceVars
<1>5. CASE KeyGone(m)
  <2>1. lane' = [lane EXCEPT ![m] = [lane[m] EXCEPT !.step = "done", !.verdict = "keyless",
                                                    !.freed = @ + 1]]
    BY <1>1, <1>5 DEF KeyGone
  <2> QED BY <1>1, <1>5, <2>1 DEF Paces, LaneRecs, budgetVars, KeyGone
<1>6. CASE Delta(m)
  <2> DEFINE n == Stamp([o \in Models |-> lane[o].first])
  <2> DEFINE k == IF lane[m].first = 0 THEN n ELSE lane[m].first
  <2> DEFINE x == IF Holds(m) THEN "held" ELSE "asking"
  <2>1. lane' = [lane EXCEPT ![m] = [lane[m] EXCEPT !.got = @ + 1, !.first = k, !.step = x]]
    BY <1>1, <1>6 DEF Delta
  <2>2. x = "held" => Ordinary
    BY DEF Holds
  <2>3. wake' /\ UNCHANGED <<pulled, lent>>
    BY <1>6 DEF Delta, budgetVars
  <2> HIDE DEF n, k, x
  <2> QED BY <1>1, <2>1, <2>2, <2>3 DEF Paces, LaneRecs
<1>7. CASE ReadOn(m)
  <2>1. lane' = [lane EXCEPT ![m] = [lane[m] EXCEPT !.step = "asking"]]
    BY <1>1, <1>7 DEF ReadOn
  <2>2. pulled => pulled' \/ shown = m
    BY <1>7, Zenon DEF ReadOn
  <2>3. UNCHANGED <<lent, wake>>
    BY <1>7 DEF ReadOn, raceVars
  <2> QED BY <1>1, <2>1, <2>2, <2>3 DEF Paces, LaneRecs
<1>8. CASE Complete(m)
  <2>1. PICK at : lane' = [lane EXCEPT ![m].step = "settling", ![m].verdict = "answered",
                                       ![m].freed = @ + 1, ![m].completedAt = at]
    BY <1>8 DEF Complete
  <2>2. lane' = [lane EXCEPT ![m] = [lane[m] EXCEPT !.step = "settling", !.verdict = "answered",
                                                    !.freed = @ + 1, !.completedAt = at]]
    BY <1>1, <2>1
  <2> QED BY <1>1, <1>8, <2>2 DEF Paces, LaneRecs, budgetVars, raceVars, Complete
<1>9. CASE Fail(m) \/ Expire(m)
  BY <1>2, <1>9 DEF Fail, Expire
<1>10. CASE Record(m)
  <2> DEFINE x == IF lane[m].verdict \in Rateable THEN "journaled" ELSE "done"
  <2>1. lane' = [lane EXCEPT ![m] = [lane[m] EXCEPT !.step = x,
                                                    !.rows = Append(@, Row(lane[m].verdict))]]
    BY <1>1, <1>10 DEF Record
  <2>2. (x = "journaled" /\ wake' = wake) \/ (x = "done" /\ wake')
    <3>1. CASE lane[m].verdict \in Rateable
      BY <1>10, <3>1 DEF Record
    <3>2. CASE lane[m].verdict \notin Rateable
      BY <1>10, <3>2 DEF Record
    <3> QED BY <3>1, <3>2
  <2>3. UNCHANGED <<lent, pulled>>
    BY <1>10 DEF Record, budgetVars
  <2> HIDE DEF x
  <2> QED BY <1>1, <2>1, <2>2, <2>3 DEF Paces, LaneRecs
<1>12. CASE Settle(m)
  <2>1. lane' = [lane EXCEPT ![m] = [lane[m] EXCEPT !.step = "done", !.settled = TRUE]]
    BY <1>1, <1>12 DEF Settle
  <2> QED BY <1>1, <1>12, <2>1 DEF Paces, LaneRecs, budgetVars, Settle
<1>11. CASE Cut(m)
  <2>1. CASE lane' = [lane EXCEPT ![m].step = "done", ![m].freed = @ + 1]
    <3>1. lane' = [lane EXCEPT ![m] = [lane[m] EXCEPT !.step = "done", !.freed = @ + 1]]
      BY <1>1, <2>1
    <3> QED BY <1>1, <1>11, <3>1 DEF Paces, LaneRecs, budgetVars, raceVars, Cut
  <2> QED BY <1>2, <1>11, <2>1 DEF Cut
<1> QED BY <1>4, <1>5, <1>6, <1>7, <1>8, <1>9, <1>10, <1>11, <1>12 DEF LaneStep

LEMMA LaneStepWakes ==
  ASSUME Good, ClosedInv, WakeInv, NEW m \in Models, LaneStep(m)
  PROVE  WakeInv'
<1>1. PICK s : Becomes(m, s)
  BY LaneStepDoes DEF Good, Types
<1>2. /\ Paces(m) /\ Lanes /\ NoLane \notin Models
      /\ UNCHANGED <<asked, shown, initial, pull, back, closing>>
  BY <1>1, LaneStepPaces, StreamAssumption DEF Becomes, pullVars, Good, Types, StreamAssumption
<1>3. m \in Live /\ lane'[m].step # "unopened" /\ Opened' = Opened /\ lane' \in [Models -> LaneRecs]
  <2>1. lane'[m] = s /\ s \in LaneRecs
    BY <1>1 DEF Becomes, Good, Types, Lanes, LaneOK
  <2>2. lane'[m].step # "unopened" /\ lane[m].step # "unopened"
    BY <1>1, <2>1 DEF Becomes, Goes
  <2>3. m \in Live
    BY <1>1, BecomesKeeps
  <2>4. lane' \in [Models -> LaneRecs]
    BY <1>1, <1>2, <2>1 DEF Becomes, Lanes
  <2> QED BY <1>2, <2>2, <2>3, <2>4 DEF Opened, Paces
<1>4. \A n \in Models : lane[n].got \in Nat /\ lane[n].sent \in Nat
  BY <1>2, CompletedAreOpened
<1>5. TextInv'
  <2>1. \A n \in Models : lane'[n].sent <= lane'[n].got
    BY <1>2, <1>4 DEF Paces, WakeInv, TextInv
  <2>2. \A n \in Models : lane'[n].step = "held" => Ordinary
    BY <1>2 DEF Paces, WakeInv, TextInv
  <2> QED BY <1>2, <1>3, <2>1, <2>2 DEF WakeInv, TextInv, Ordinary
<1>6. LentInv'
  <2>1. lent' = lent
    BY <1>2 DEF Paces
  <2>2. ASSUME shown # NoLane, lane'[shown].step = "held", lane'[shown].sent = lane'[shown].got
        PROVE  pulled' \/ lent
    <3>1. shown \in Models
      BY <2>2 DEF Good, Types
    <3>2. CASE shown = m
      BY <1>2, <1>4, <2>2, <3>2 DEF Paces, WakeInv, TextInv
    <3>3. CASE shown # m
      BY <1>2, <2>2, <3>1, <3>3 DEF Paces, WakeInv, LentInv
    <3> QED BY <3>2, <3>3
  <2> QED BY <1>2, <2>1, <2>2 DEF WakeInv, LentInv
<1>7. MarkInv'
  BY <1>2 DEF Paces, WakeInv, MarkInv
<1>8. ASSUME Paused, ~wake'
      PROVE  Awaiting'
  <2>1. closing \notin {"stopping", "closed"}
    BY <1>8 DEF Paused, ClosedInv
  <2>3. lane[m].mark = "none"
    BY <2>1 DEF WakeInv, MarkInv
  <2>4. /\ ~wake /\ lane'[m].step \notin {"unopened", "done"}
        /\ lane'[m].first = lane[m].first /\ lane'[m].got = lane[m].got /\ lane'[m].sent = lane[m].sent
        /\ \A n \in Models \ {m} : lane'[n] = lane[n]
    BY <1>2, <1>8, <2>3 DEF Paces
  <2>5. Awaiting
    BY <1>8, <2>4 DEF WakeInv, PauseInv
  <2>6. Live' = Live
    BY <1>3, <2>4 DEF Live, Opened, Finished
  <2>7. Spoken' = Spoken
    BY <2>4 DEF Spoken
  <2>8. \A n \in Models : lane'[n].sent = lane[n].sent /\ lane'[n].got = lane[n].got
    BY <2>4
  <2>9. Live \subseteq Models
    BY DEF Live, Opened
  <2> QED BY <1>2, <2>5, <2>6, <2>7, <2>8, <2>9 DEF Awaiting, Ordinary
<1> QED BY <1>2, <1>5, <1>6, <1>7, <1>8 DEF WakeInv, PauseInv, Paused
(* What a step of the owner, its caller or the clock does to the text.      *)
Tells ==
  /\ \A m \in Models : \/ lane'[m].sent \in {0, lane[m].sent}
                       \/ /\ m = shown' /\ m \in Opened /\ lane'[m].sent <= lane[m].got
                          /\ Ordinary => lent'
  /\ shown' # shown => shown' \in Opened /\ (Ordinary => lent')
  /\ Ordinary /\ initial' # initial => initial' = shown'
  /\ lent' => initial' = NoLane /\ (pull' = "idle" \/ (pull' = "refill" /\ back' = "idle"))
  /\ lent => lent' \/ pulled'
  /\ pulled => pulled'

LEMMA TellsKeeps ==
  ASSUME Good, Effect, TextInv, LentInv, Tells
  PROVE  TextInv' /\ LentInv'
<1>1. /\ Lanes /\ Lanes' /\ asked' = asked /\ NoLane \notin Models
      /\ shown' \in Models \cup {NoLane} /\ Opened \subseteq Models
  BY GrowsKeepsLanes, CompletedAreOpened DEF Good, Types, Effect, Retyped
<1>2. /\ \A m \in Opened : Same(lane[m], lane'[m])
      /\ \A m \in Models \ Opened : lane'[m].step \in {"unopened", "begun"}
  BY <1>1, GrowsKeeps DEF Effect
<1>3. \A m \in Models : /\ lane[m].got \in Nat /\ lane[m].sent \in Nat
                        /\ lane'[m].got \in Nat /\ lane'[m].sent \in Nat
  BY <1>1 DEF Lanes, LaneRecs
<1>4. \A m \in Models \ Opened : lane[m].got = 0 /\ lane'[m].got = 0
  BY <1>1, <1>2 DEF Lanes, LaneOK, Opened
<1>5. \A m \in Opened : lane'[m].got = lane[m].got /\ lane'[m].step = lane[m].step /\ m \in Opened'
  BY <1>1, <1>2 DEF Same, Opened
<1>6. ASSUME NEW m \in Models
      PROVE  lane'[m].sent <= lane'[m].got
  <2>1. lane[m].sent <= lane[m].got
    BY DEF TextInv
  <2> QED BY <1>3, <1>4, <1>5, <2>1 DEF Tells
<1>7. \A m \in Models : lane'[m].step = "held" => Ordinary /\ m \in Opened
  BY <1>1, <1>2, <1>5 DEF TextInv
<1>8. Ordinary' = Ordinary
  BY <1>1 DEF Ordinary
<1>9. shown' # NoLane => shown' \in Opened'
  BY <1>5 DEF Tells, TextInv
<1>10. Ordinary /\ initial' # NoLane => shown' = initial'
  BY <1>1 DEF Tells, TextInv, Effect
<1>11. TextInv'
  BY <1>6, <1>7, <1>8, <1>9, <1>10 DEF TextInv
<1>12. ASSUME shown' # NoLane, lane'[shown'].step = "held", lane'[shown'].sent = lane'[shown'].got
       PROVE  pulled' \/ lent'
  <2> DEFINE x == shown'
  <2>1. x \in Models /\ x \in Opened /\ Ordinary /\ lane[x].step = "held"
        /\ lane'[x].got = lane[x].got
    BY <1>1, <1>5, <1>7, <1>12
  <2>2. lane[x].got > 0
    BY <1>1, <2>1 DEF Lanes, LaneOK
  <2>3. CASE lane'[x].sent = lane[x].sent /\ shown' = shown
    <3>1. pulled \/ lent
      BY <1>12, <2>1, <2>3 DEF LentInv
    <3> QED BY <3>1 DEF Tells
  <2>4. CASE shown' # shown
    BY <2>1, <2>4 DEF Tells
  <2>5. CASE ~(lane'[x].sent \in {0, lane[x].sent})
    BY <2>1, <2>5 DEF Tells
  <2>6. lane'[x].sent # 0
    BY <1>3, <1>12, <2>1, <2>2
  <2> QED BY <2>3, <2>4, <2>5, <2>6
<1> QED BY <1>11, <1>12 DEF LentInv, Tells

LEMMA QuietTells ==
  ASSUME LentInv, UNCHANGED <<shown, initial, lent, pulled>>,
         \A m \in Models : lane'[m].sent \in {0, lane[m].sent},
         lent => pull' = "idle" \/ (pull' = "refill" /\ back' = "idle")
  PROVE  Tells
  BY DEF Tells, LentInv

LEMMA OthersTell ==
  ASSUME Good, LentInv, Owner \/ Caller \/ BudgetSpent \/ WindowCloses,
         ~Listen, ~Read, ~Race, ~Acquire
  PROVE  Tells
<1>1. Kept(lane) /\ Kept(Absorbed)
  BY AbsorbedKept DEF Good, Types
<1>2. CASE Refill
  <2>1. \A m \in Models : lane'[m].sent \in {0, lane[m].sent}
    <3>1. Len(waves) \in Nat /\ Types
      BY DEF Good, Types
    <3> QED BY <1>2, <3>1, OpenGrown DEF Refill
  <2>2. lent => pull' = "idle"
    BY <1>2 DEF Refill, LentInv
  <2> QED BY <1>2, <2>1, <2>2, QuietTells DEF Refill, raceVars, budgetVars
<1>3. CASE Search \/ Continue
  <2>1. Kept(lane') /\ ~lent
    BY <1>1, <1>3 DEF Search, Continue, LentInv
  <2> QED BY <1>3, <2>1, QuietTells DEF Search, Continue, budgetVars, Kept
<1>4. CASE Resume \/ NothingLeft \/ Answer \/ Seek
  <2>1. lane' = lane /\ ~lent
    BY <1>4 DEF Resume, NothingLeft, Answer, Seek, LentInv
  <2> QED BY <1>4, <2>1, QuietTells DEF Resume, NothingLeft, Answer, Seek, raceVars, budgetVars
<1>5. CASE CloseLanes
  <2>1. Kept(lane')
    BY <1>5, MarkedKept DEF CloseLanes, Good, Types
  <2> QED BY <1>5, <2>1, QuietTells DEF CloseLanes, Kept, raceVars, budgetVars
<1>6. CASE CloseEnds \/ Close \/ BudgetSpent \/ WindowCloses
  <2>1. UNCHANGED <<lane, shown, initial, lent, pulled, pull, back>>
    BY <1>6 DEF CloseEnds, Close, BudgetSpent, WindowCloses, raceVars, budgetVars, pullVars
  <2>2. lent => pull' = "idle" \/ (pull' = "refill" /\ back' = "idle")
    BY <2>1 DEF LentInv
  <2> QED BY <2>1, <2>2, QuietTells
<1>7. CASE Another
  <2>1. lane' = lane /\ ~lent
    BY <1>7 DEF Another, LentInv
  <2> QED BY <1>7, <2>1, QuietTells DEF Another, raceVars, budgetVars
<1>8. CASE Pull
  <2>1. UNCHANGED <<lane, shown, initial>>
    BY <1>8 DEF Pull, raceVars
  <2>2. ~lent' /\ (lent => pulled') /\ (pulled => pulled')
    BY <1>8, Zenon DEF Pull
  <2> QED BY <2>1, <2>2 DEF Tells
<1> QED BY <1>2, <1>3, <1>4, <1>5, <1>6, <1>7, <1>8 DEF Owner, Caller

(* One more delta of x is handed over. *)
LEMMA SentOne ==
  ASSUME NEW L, Kept(L), NEW x \in Models
  PROVE  [L EXCEPT ![x].sent = @ + 1][x].sent = lane[x].sent + 1
<1>1. L \in [Models -> LaneRecs] /\ L[x] \in LaneRecs /\ L[x].sent = lane[x].sent
  BY DEF Kept, Noted
<1> QED BY <1>1 DEF LaneRecs

LEMMA HandsOver ==
  ASSUME Good, NEW L, Kept(L), NEW x \in Opened, lane' = [L EXCEPT ![x].sent = @ + 1],
         lane[x].sent < lane[x].got, shown' = x, initial' = initial,
         Ordinary => lent' /\ initial = NoLane /\ (pull' = "idle" \/ (pull' = "refill" /\ back' = "idle")),
         ~Ordinary => ~lent', ~lent, pulled' = pulled
  PROVE  Tells
<1>1. x \in Models /\ lane[x].sent \in Nat /\ lane[x].got \in Nat
  BY CompletedAreOpened DEF Good, Types
<1>2. \A m \in Models \ {x} : lane'[m].sent = lane[m].sent
  BY SentKept DEF KeptBut
<1>3. lane'[x].sent = lane[x].sent + 1
  BY <1>1, SentOne
<1> QED BY <1>1, <1>2, <1>3 DEF Tells

LEMMA ListenTells ==
  ASSUME Good, SpliceInv, TextInv, LentInv, Listen
  PROVE  Tells
<1>1. /\ pull = "look" /\ initial = NoLane /\ shown = NoLane /\ ~lent /\ Ordinary
      /\ initial' = initial /\ pulled' = pulled
  BY DEF Listen, goal, Good, LookInv, LentInv
<1>2. Kept(lane)
  BY AbsorbedKept DEF Good, Types
<1>3. CASE Commit(lane) /\ FirstToSpeak # NoLane
  <2> DEFINE x == FirstToSpeak
  <2>1. x \in Spoken /\ x \in Opened /\ x \in Models /\ NoLane \notin Models
    BY <1>3, FirstToSpeakIs, CompletedAreOpened DEF Good, Types
  <2>2. lane[x].sent = 0 /\ lane[x].got > 0
    <3>1. lane[x].sent \in Nat /\ lane[x].got > 0
      BY <2>1 DEF Good, Types, Lanes, LaneOK, LaneRecs, Spoken
    <3>2. ~(lane[x].sent > 0)
      BY <1>1, <2>1 DEF SpliceInv
    <3> QED BY <3>1, <3>2
  <2>3. lane' = [lane EXCEPT ![x].sent = @ + 1] /\ shown' = x /\ lent'
    BY <1>3 DEF Commit, Expose
  <2>4. pull' = "idle" \/ (pull' = "refill" /\ back' = "idle")
    BY <1>3, RefillStarts DEF Commit
  <2>5. lane[x].sent < lane[x].got
    BY <2>2
  <2> HIDE DEF x
  <2> QED BY <1>1, <1>2, <2>1, <2>3, <2>4, <2>5, HandsOver
<1>4. CASE UNCHANGED <<lane, lent, shown>>
  BY <1>1, <1>4, QuietTells
<1> QED BY <1>3, <1>4 DEF Listen, Commit

LEMMA ReadTells ==
  ASSUME Good, TextInv, LentInv, Read
  PROVE  Tells
<1>1. /\ pull = "run" /\ initial = NoLane /\ shown # NoLane /\ shown' = shown /\ ~lent
      /\ Ordinary /\ pulled' = pulled /\ shown \in Opened
  BY DEF Read, goal, LentInv, TextInv
<1>2. Kept(lane)
  BY AbsorbedKept DEF Good, Types
<1>3. CASE Lend(shown) /\ lane[shown].sent < lane[shown].got /\ initial' = initial
  <2>1. pull' = "idle" \/ (pull' = "refill" /\ back' = "idle")
    BY <1>3, RefillStarts DEF Lend
  <2> DEFINE x == shown
  <2>2. /\ x \in Opened /\ lane' = [lane EXCEPT ![x].sent = @ + 1] /\ lent' /\ shown' = x
        /\ lane[x].sent < lane[x].got
    BY <1>1, <1>3 DEF Lend
  <2> HIDE DEF x
  <2> QED BY <1>1, <1>2, <1>3, <2>1, <2>2, HandsOver
<1>4. CASE UNCHANGED <<lane, lent>> /\ initial' = initial
  BY <1>1, <1>4, QuietTells
<1>5. CASE UNCHANGED <<lane, lent>> /\ initial' = shown
  BY <1>1, <1>5 DEF Tells
<1> QED BY <1>3, <1>4, <1>5 DEF Read, CompleteInitial

LEMMA VisibleIsOpened ==
  ASSUME Good, TextInv
  PROVE  Visible \in Opened \cup {NoLane}
<1>1. early => Preferred \in Opened
  <2>1. \A n \in Models \ Opened : lane[n].pos = 0
    BY DEF Opened, Good, Types, Lanes, LaneOK
  <2>2. early => \E m \in Models : lane[m].pos = 1
    BY DEF Good, Ranked, Opened
  <2> QED BY <2>1, <2>2 DEF Preferred
<1>2. FirstToSpeak \in Opened \cup {NoLane}
  BY FirstToSpeakIs, CompletedAreOpened DEF Good, Types
<1> QED BY <1>1, <1>2 DEF Visible, Select, TextInv
LEMMA RaceTells ==
  ASSUME Good, TextInv, LentInv, Race
  PROVE  Tells
<1> DEFINE absorb == Absorbed
<1> DEFINE seen == Visible
<1>1. initial = NoLane /\ ~Ordinary /\ ~lent /\ ~lent' /\ pulled' = pulled
  <2>1. initial = NoLane /\ ~Ordinary /\ pull = "run"
    BY DEF Race, goal
  <2>2. ~lent
    BY <2>1 DEF LentInv
  <2> QED BY <2>1, <2>2, Zenon DEF Race, budgetVars
<1>2. Kept(absorb)
  BY AbsorbedKept DEF Good, Types
<1>3. Won => Winner \in Opened
  BY WinnerTyped, CompletedAreOpened DEF Won, Good, Types
<1>4. seen \in Opened \cup {NoLane} /\ (seen # shown => shown = NoLane)
  BY VisibleIsOpened DEF Visible
<1>5. \A m \in Models : absorb[m].sent = lane[m].sent
  BY <1>2 DEF Kept
<1> HIDE DEF absorb, seen
<1>6. CASE /\ Won /\ lane[Winner].sent < lane[Winner].got
           /\ Expose(Winner)
           /\ lane' = [absorb EXCEPT ![Winner].sent = @ + 1]
           /\ initial' = initial
  BY <1>1, <1>2, <1>3, <1>6, HandsOver DEF Expose
<1>7. CASE lane' = absorb /\ shown' = shown
  BY <1>1, <1>5, <1>7 DEF Tells
<1>8. CASE /\ IF seen # shown THEN Expose(seen) ELSE UNCHANGED <<shown, receipt>>
           /\ IF seen # NoLane /\ lane[seen].sent < lane[seen].got
              THEN lane' = [absorb EXCEPT ![seen].sent = @ + 1]
              ELSE lane' = absorb
           /\ initial' = initial
  <2>1. shown' = seen
    BY <1>8 DEF Expose
  <2>2. CASE /\ seen # NoLane /\ lane[seen].sent < lane[seen].got
             /\ lane' = [absorb EXCEPT ![seen].sent = @ + 1]
    BY <1>1, <1>2, <1>4, <1>8, <2>1, <2>2, HandsOver
  <2>3. CASE lane' = absorb
    <3>1. shown' # shown => shown' \in Opened
      BY <1>4, <2>1
    <3> QED BY <1>1, <1>5, <1>8, <2>3, <3>1 DEF Tells
  <2> QED BY <1>8, <2>2, <2>3
<1> QED BY <1>6, <1>7, <1>8 DEF Race, absorb, seen

(* What an acquisition does to the lanes and to the reader.                 *)
Acquires(q) ==
  /\ q \in Rankings(Max({asked.width, 2}))
  /\ LET opened == Open(lane, q, Ordinary /\ goal = "initial", Len(waves) + 1)
     IN  \/ /\ lane' = opened /\ UNCHANGED <<lent, shown>>
            /\ pull' = "run" \/ (/\ pull' = "pause" /\ goal = "initial" /\ Ordinary
                                 /\ FirstToSpeak = NoLane)
         \/ /\ goal = "initial" /\ Ordinary /\ FirstToSpeak # NoLane
            /\ Delivered(lane', opened, FirstToSpeak)
            /\ shown' = FirstToSpeak /\ lent' /\ pull' = "idle"

LEMMA AcquireIs ==
  ASSUME Acquire
  PROVE  \E q : Acquires(q)
  BY DEF Acquire, Acquires, Delivered, Expose

LEMMA AcquireTells ==
  ASSUME Good, SpliceInv, TextInv, LentInv, Acquire
  PROVE  Tells
<1>1. PICK q : Acquires(q)
  BY AcquireIs
<1> DEFINE h == Ordinary /\ goal = "initial"
<1> DEFINE w == Len(waves) + 1
<1> DEFINE opened == Open(lane, q, h, w)
<1>2. h \in BOOLEAN /\ w \in Nat
  BY DEF Good, Types
<1>3. pull = "acquire" /\ initial' = initial /\ pulled' = pulled
  BY DEF Acquire
<1>4. Grown(opened, q) /\ \A m \in Models : opened[m].sent \in {0, lane[m].sent}
  <2> HIDE DEF h, w
  <2> QED BY <1>1, <1>2, OpenGrown DEF Good, Types, Acquires
<1>5. ~lent
  BY <1>3 DEF LentInv
<1> HIDE DEF h, w, opened
<1>6. CASE lane' = opened /\ UNCHANGED <<lent, shown>>
  BY <1>3, <1>4, <1>5, <1>6, QuietTells
<1>7. CASE /\ goal = "initial" /\ Ordinary /\ FirstToSpeak # NoLane
           /\ Delivered(lane', opened, FirstToSpeak)
           /\ shown' = FirstToSpeak /\ lent' /\ pull' = "idle"
  <2> DEFINE x == FirstToSpeak
  <2>1. x \in Spoken /\ x \in Opened /\ x \in Models
    BY <1>7, FirstToSpeakIs, CompletedAreOpened DEF Good, Types
  <2>2. lane[x].got > 0 /\ lane[x].got \in Nat
    BY <2>1 DEF Good, Types, Lanes, LaneOK, LaneRecs, Spoken
  <2>3. shown' = x /\ Delivered(lane', opened, x) /\ initial = NoLane
    BY <1>7 DEF goal
  <2> HIDE DEF x
  <2>4. \A m \in Models \ {x} : lane'[m].sent = opened[m].sent
    BY <1>4, <2>1, <2>3, SentGrown DEF Good, Types
  <2>5. lane'[x].sent = 1
    BY <1>4, <2>1, <2>3 DEF Grown, Delivered, LaneRecs
  <2>6. lane'[x].sent <= lane[x].got
    BY <2>2, <2>5
  <2> QED BY <1>3, <1>4, <1>5, <1>7, <2>1, <2>3, <2>4, <2>6 DEF Tells
<1> QED BY <1>1, <1>6, <1>7 DEF Acquires, opened, h, w

LEMMA StepTells ==
  ASSUME Good, SpliceInv, TextInv, LentInv, Owner \/ Caller \/ BudgetSpent \/ WindowCloses
  PROVE  Tells
  BY OthersTell, ListenTells, ReadTells, RaceTells, AcquireTells

(* The reader has been handed k deltas of x.                                *)
Sent(L, x, k) == [L EXCEPT ![x].sent = k]

(* The owner marks no lane but to cut it.                                   *)
Unmarked(L) == \A m \in Models : L[m].mark = "none"

LEMMA UnmarkedStays ==
  ASSUME Lanes, Unmarked(lane)
  PROVE  /\ Unmarked(Absorbed)
         /\ \A L : Kept(L) /\ Unmarked(L) =>
              \A x : \A k : Unmarked([L EXCEPT ![x].sent = k])
         /\ \A q, h, w : Unmarked(Open(lane, q, h, w))
<1>1. ASSUME NEW r \in LaneRecs
      PROVE  /\ \A b : [r EXCEPT !.absorbed = b].mark = r.mark
             /\ \A k : [r EXCEPT !.sent = k].mark = r.mark
  BY DEF LaneRecs
<1>2. \A m \in Models : lane[m] \in LaneRecs
  BY DEF Lanes
<1>3. Unmarked(Absorbed)
  BY <1>1, <1>2 DEF Absorbed, Unmarked
<1>4. ASSUME NEW L, Kept(L), Unmarked(L), NEW x, NEW k
      PROVE  Unmarked([L EXCEPT ![x].sent = k])
  <2>1. L \in [Models -> LaneRecs]
    BY <1>4 DEF Kept, Noted
  <2>2. ASSUME NEW m \in Models
        PROVE  [L EXCEPT ![x].sent = k][m].mark = "none"
    <3>1. L[m] \in LaneRecs /\ L[m].mark = "none"
      BY <1>4, <2>1 DEF Unmarked
    <3>2. CASE m = x
      BY <1>1, <2>1, <3>1, <3>2
    <3>3. CASE m # x
      BY <2>1, <3>1, <3>3
    <3> QED BY <3>2, <3>3
  <2> QED BY <2>2 DEF Unmarked
<1>5. ASSUME NEW q, NEW h, NEW w
      PROVE  Unmarked(Open(lane, q, h, w))
  <2>1. ASSUME NEW m \in Models
        PROVE  Open(lane, q, h, w)[m].mark = "none"
    <3> DEFINE p == Cardinality(Opened) + (CHOOSE i \in DOMAIN q : q[i] = m)
    <3>1. Open(lane, q, h, w)[m] =
            IF m \notin Range(q) THEN lane[m]
            ELSE [Unopened EXCEPT !.step = "begun", !.hold = h, !.wave = w, !.pos = p]
      BY DEF Open
    <3> HIDE DEF p
    <3> QED BY <3>1 DEF Unopened, Unmarked
  <2> QED BY <2>1 DEF Unmarked
<1> QED BY <1>3, <1>4, <1>5
LEMMA MarksStay ==
  ASSUME Good, ClosedInv, MarkInv, Owner \/ Caller \/ BudgetSpent \/ WindowCloses
  PROVE  MarkInv'
<1> SUFFICES ASSUME closing' \notin {"stopping", "closed"}
             PROVE  Unmarked(lane')
  BY DEF MarkInv, Unmarked
<1>1. closing \notin {"stopping", "closed"} /\ ~CloseLanes /\ ~CloseEnds
  <2>1. ~CloseLanes /\ ~CloseEnds
    BY DEF CloseLanes, CloseEnds
  <2> QED BY <2>1, OwnerAwaits DEF ClosedInv, Caller, Pull, Another, Close, BudgetSpent, WindowCloses
<1>2. Lanes /\ Unmarked(lane)
  BY <1>1 DEF Good, Types, MarkInv, Unmarked
<1>3. Kept(lane) /\ Kept(Absorbed) /\ Unmarked(Absorbed)
  BY <1>2, AbsorbedKept, UnmarkedStays
<1>4. \A x, k : Unmarked(Sent(lane, x, k)) /\ Unmarked(Sent(Absorbed, x, k))
  BY <1>2, <1>3, UnmarkedStays DEF Sent
<1>5. CASE Refill
  BY <1>2, <1>5, UnmarkedStays DEF Refill
<1>6. CASE Search \/ Continue
  BY <1>3, <1>6 DEF Search, Continue
<1>7. CASE Listen
  <2>1. \/ lane' = lane
        \/ lane' = Sent(lane, FirstToSpeak, lane[FirstToSpeak].sent + 1)
    BY <1>7 DEF Listen, Commit, Sent
  <2> QED BY <1>2, <1>4, <2>1
<1>8. CASE Read
  <2>1. \/ lane' = lane
        \/ lane' = Sent(lane, shown, lane[shown].sent + 1)
    BY <1>8 DEF Read, Lend, Sent
  <2> QED BY <1>2, <1>4, <2>1
<1>9. CASE Race
  <2>1. \/ lane' = Absorbed
        \/ \E x : lane' = Sent(Absorbed, x, Absorbed[x].sent + 1)
    BY <1>9 DEF Race, Sent
  <2> QED BY <1>3, <1>4, <2>1
<1>10. CASE Acquire
  <2>1. PICK q : Acquires(q)
    BY <1>10, AcquireIs
  <2> DEFINE h == Ordinary /\ goal = "initial"
  <2> DEFINE w == Len(waves) + 1
  <2> DEFINE opened == Open(lane, q, h, w)
  <2>2. Unmarked(opened)
    BY <1>2, UnmarkedStays
  <2>3. lane' = opened \/ Delivered(lane', opened, FirstToSpeak)
    BY <2>1 DEF Acquires
  <2>4. h \in BOOLEAN /\ w \in Nat
    BY DEF Good, Types
  <2> HIDE DEF h, w
  <2>6. opened \in [Models -> LaneRecs]
    BY <2>1, <2>4, OpenGrown DEF Acquires, Grown, Good, Types
  <2> HIDE DEF opened
  <2>5. CASE Delivered(lane', opened, FirstToSpeak)
    <3>1. \A m \in Models : lane'[m].mark = opened[m].mark
      BY <2>5, <2>6 DEF Delivered, LaneRecs
    <3> QED BY <2>2, <3>1 DEF Unmarked
  <2> QED BY <2>2, <2>3, <2>5
<1>11. CASE Resume \/ NothingLeft \/ Answer \/ Seek \/ Caller \/ BudgetSpent \/ WindowCloses
  BY <1>2, <1>11 DEF Resume, NothingLeft, Answer, Seek, Caller, Pull, Another, Close, BudgetSpent,
     WindowCloses
<1> QED BY <1>1, <1>5, <1>6, <1>7, <1>8, <1>9, <1>10, <1>11 DEF Owner

LEMMA SilentAtFirst ==
  ASSUME NEW r, LaneOK(r), r.step \in {"unopened", "begun"}
  PROVE  r.first = 0
  BY DEF LaneOK, LaneRecs

(* Opening lanes, or noting something of them, leaves the owner awaiting.   *)
LEMMA AwaitingStays ==
  ASSUME Good, TextInv, Grows, Lanes', Awaiting, UNCHANGED <<shown, initial, asked>>,
         shown # NoLane => lane'[shown].sent = lane[shown].sent
  PROVE  Awaiting'
<1>1. /\ \A m \in Opened : Same(lane[m], lane'[m])
      /\ \A m \in Models \ Opened : lane'[m].step \in {"unopened", "begun"}
      /\ Opened \subseteq Models
  BY GrowsKeeps, CompletedAreOpened DEF Good, Types
<1>2. Live \subseteq Live'
  BY <1>1 DEF Live, Opened, Finished, Same
<1>3. ASSUME NEW m \in Models \ Opened
      PROVE  lane'[m].first = 0
  <2>1. LaneOK(lane'[m])
    BY DEF Lanes
  <2> QED BY <1>1, <2>1, SilentAtFirst
<1>4. Spoken = {} => Spoken' = {}
  BY <1>1, <1>3 DEF Spoken, Same
<1>5. shown # NoLane => lane'[shown].got = lane[shown].got
  BY <1>1 DEF TextInv, Same
<1> QED BY <1>2, <1>4, <1>5 DEF Awaiting, Ordinary

LEMMA RefillAwaiting ==
  ASSUME Good, TextInv, Awaiting, Refill, Effect, Lanes'
  PROVE  Awaiting'
<1>1. shown # NoLane => lane'[shown].sent = lane[shown].sent
  <2>1. CASE lane' = lane
    BY <2>1
  <2>2. ASSUME NEW q \in Rankings(needed), lane' = Open(lane, q, FALSE, Len(waves)), shown # NoLane
        PROVE  lane'[shown].sent = lane[shown].sent
    <3>1. shown \in Opened /\ shown \in Models
      BY <2>2 DEF TextInv, Opened
    <3>2. shown \notin Range(q)
      BY <3>1 DEF Rankings, Untried, Range
    <3> QED BY <2>2, <3>1, <3>2 DEF Open
  <2> QED BY <2>1, <2>2 DEF Refill
<1>2. UNCHANGED <<shown, initial, asked>>
  BY DEF Refill, raceVars
<1> QED BY <1>1, <1>2, AwaitingStays DEF Effect

LEMMA AcquireAwaiting ==
  ASSUME Good, Acquire, Paused', Effect, Lanes'
  PROVE  Awaiting'
<1>1. PICK q : Acquires(q)
  BY AcquireIs
<1>2. pull' = "pause" /\ initial = NoLane /\ Ordinary /\ shown = NoLane /\ FirstToSpeak = NoLane
      /\ shown' = shown
  <2>1. pull = "acquire"
    BY DEF Acquire
  <2> QED BY <1>1, <2>1 DEF Acquires, Paused, goal, Good, LookInv
<1>3. Spoken = {}
  BY <1>2, FirstToSpeakIs DEF Good, Types
<1>4. /\ \A m \in Opened : Same(lane[m], lane'[m])
      /\ \A m \in Models \ Opened : lane'[m].step \in {"unopened", "begun"}
      /\ Opened \subseteq Models
  BY GrowsKeeps, CompletedAreOpened DEF Good, Types, Effect
<1>5. Spoken' = {}
  <2>1. ASSUME NEW m \in Models \ Opened
        PROVE  lane'[m].first = 0
    <3>1. LaneOK(lane'[m])
      BY DEF Lanes
    <3> QED BY <1>4, <3>1, SilentAtFirst
  <2> QED BY <1>3, <1>4, <2>1 DEF Spoken, Same
<1>6. Live' # {}
  <2> DEFINE h == Ordinary /\ goal = "initial"
  <2> DEFINE w == Len(waves) + 1
  <2>1. h \in BOOLEAN /\ w \in Nat /\ lane' = Open(lane, q, h, w)
    BY <1>1, <1>2 DEF Good, Types, Acquires
  <2> HIDE DEF h, w
  <2>2. Grown(lane', q)
    BY <1>1, <2>1, OpenGrown DEF Good, Types, Acquires
  <2>3. 1 \in DOMAIN q /\ q[1] \in Models
    <3>1. PICK k \in 1 .. Max({asked.width, 2}) : q \in [1 .. k -> Untried]
      BY <1>1 DEF Acquires, Rankings
    <3>2. Max({asked.width, 2}) \in Nat
      <4>1. asked.width \in Nat
        BY StreamAssumption DEF StreamAssumption, Good, Types
      <4> QED BY <4>1, MaxOfTwo
    <3>3. 1 \in 1 .. k
      BY <3>1, <3>2
    <3> QED BY <3>1, <3>3 DEF Untried, Good, Types
  <2>4. lane'[q[1]].step = "begun"
    BY <2>2, <2>3 DEF Grown, Opens
  <2>5. q[1] \in Live'
    BY <2>3, <2>4 DEF Live, Opened, Finished
  <2> QED BY <2>5
<1>7. Ordinary' = Ordinary /\ initial' = initial
  BY DEF Acquire, Ordinary
<1> QED BY <1>2, <1>5, <1>6, <1>7 DEF Awaiting

LEMMA ReadAwaiting ==
  ASSUME Good, TextInv, Read, Paused'
  PROVE  Awaiting'
<1>1. /\ initial = NoLane /\ Ordinary /\ shown # NoLane /\ shown \in Opened
      /\ UNCHANGED <<shown, asked>>
  BY DEF Read, goal, TextInv
<1>2. CASE Lend(shown)
  BY <1>2, RefillStarts DEF Lend, Paused
<1>3. CASE lane[shown].sent = lane[shown].got /\ ~Finished(shown) /\ UNCHANGED <<lane, initial>>
  <2>1. shown \in Live
    BY <1>1, <1>3 DEF Live
  <2>2. Live' = Live
    BY <1>3 DEF Live, Opened, Finished
  <2> QED BY <1>1, <1>3, <2>1, <2>2 DEF Awaiting
<1>4. CASE pull' = "idle"
  BY <1>4 DEF Paused
<1> QED BY <1>2, <1>3, <1>4 DEF Read, CompleteInitial, Raise

LEMMA RaceAwaiting ==
  ASSUME Good, Race, Paused'
  PROVE  Awaiting'
<1>1. ~Ordinary /\ ~Ordinary'
  BY DEF Race, Ordinary
<1>2. lane' = Absorbed /\ Live # {}
  <2>1. \A k : Raise(k) => pull' = "idle"
    BY RaiseLeaves DEF Raise
  <2> QED BY <2>1 DEF Race, Paused, CompleteInitial
<1>3. Kept(lane')
  BY <1>2, AbsorbedKept DEF Good, Types
<1>4. Live' = Live
  BY <1>3 DEF Kept, Noted, Same, Live, Opened, Finished
<1> QED BY <1>1, <1>2, <1>4 DEF Awaiting

LEMMA ListenAwaiting ==
  ASSUME Good, Listen, Paused'
  PROVE  Awaiting'
<1>1. /\ pull = "look" /\ initial = NoLane /\ shown = NoLane
      /\ initial' = initial /\ asked' = asked
  BY DEF Listen, goal, Good, LookInv
<1>2. Live # {} /\ FirstToSpeak = NoLane /\ lane' = lane /\ shown' = shown
  <2>1. \A k : Raise(k) => pull' = "idle"
    BY DEF Raise
  <2> QED BY <2>1, RefillStarts DEF Listen, Paused, Commit
<1>3. Spoken = {}
  BY <1>2, FirstToSpeakIs DEF Good, Types
<1>4. Live' = Live /\ Spoken' = Spoken
  BY <1>2 DEF Live, Opened, Finished, Spoken
<1> QED BY <1>1, <1>2, <1>3, <1>4 DEF Awaiting

(* Whoever comes to the pause has seen what it waits for, and clears the    *)
(* event before it looks.                                                   *)
LEMMA PauseStays ==
  ASSUME Good, ClosedInv, TextInv, PauseInv, Owner \/ Caller \/ BudgetSpent \/ WindowCloses
  PROVE  PauseInv'
<1>1. Effect /\ Lanes'
  <2>1. Effect
    BY EffectOfOthers
  <2> QED BY <2>1, GrowsKeepsLanes DEF Effect, Good, Types
<1> SUFFICES ASSUME Paused', ~wake'
             PROVE  Awaiting'
  BY DEF PauseInv
<1>2. CASE Refill
  <2>1. wake' = wake /\ pull = "refill" /\ pull' = back /\ back \in {"idle", "look", "pause"}
    BY <1>2 DEF Refill, raceVars, Good, Types
  <2>2. Paused
    BY <2>1 DEF Paused
  <2>3. ~wake
    BY <2>1
  <2> QED BY <1>1, <1>2, <2>2, <2>3, RefillAwaiting DEF PauseInv
<1>3. CASE Search \/ Continue
  BY <1>3, RefillStarts DEF Search, Continue, Paused
<1>4. CASE Resume \/ NothingLeft \/ Answer
  BY <1>4 DEF Resume, NothingLeft, Answer, Raise, pullVars, Paused
<1>5. CASE Seek
  <2>1. Live # {} /\ initial # NoLane /\ UNCHANGED <<lane, initial>>
    BY <1>5 DEF Seek, Paused, goal, raceVars
  <2>2. Live' = Live
    BY <2>1 DEF Live, Opened, Finished
  <2> QED BY <2>1, <2>2 DEF Awaiting
<1>6. CASE CloseLanes \/ Pull \/ Another
  BY <1>6 DEF CloseLanes, Pull, Another, Paused
<1>7. CASE CloseEnds \/ Close \/ BudgetSpent \/ WindowCloses
  <2>1. UNCHANGED <<lane, asked, shown, initial, pull, back>>
    BY <1>7 DEF CloseEnds, Close, BudgetSpent, WindowCloses, raceVars, pullVars
  <2>4. wake => wake'
    BY <1>7, Zenon DEF CloseEnds, Close, BudgetSpent, WindowCloses, raceVars
  <2>2. Paused /\ ~wake
    BY <2>1, <2>4 DEF Paused
  <2>3. Live' = Live /\ Spoken' = Spoken /\ Ordinary' = Ordinary
    BY <2>1 DEF Live, Opened, Finished, Spoken, Ordinary
  <2> QED BY <2>1, <2>2, <2>3 DEF PauseInv, Awaiting
<1> QED BY <1>1, <1>2, <1>3, <1>4, <1>5, <1>6, <1>7, ListenAwaiting, ReadAwaiting, RaceAwaiting,
           AcquireAwaiting DEF Owner, Caller

LEMMA WakeStep ==
  ASSUME Good, ClosedInv, SpliceInv, WakeInv, [Next]_vars
  PROVE  WakeInv'
<1>1. CASE Owner \/ Caller \/ BudgetSpent \/ WindowCloses
  <2>1. TextInv' /\ LentInv'
    BY <1>1, EffectOfOthers, StepTells, TellsKeeps DEF WakeInv
  <2>2. MarkInv' /\ PauseInv'
    BY <1>1, MarksStay, PauseStays DEF WakeInv
  <2> QED BY <2>1, <2>2 DEF WakeInv
<1>2. CASE \E m \in Models : LaneStep(m)
  BY <1>2, LaneStepWakes
<1>3. CASE UNCHANGED vars
  BY <1>3 DEF vars, raceVars, budgetVars, pullVars, WakeInv, TextInv, LentInv, MarkInv, PauseInv,
     Paused, Awaiting, Live, Opened, Finished, Spoken, Ordinary
<1> QED BY <1>1, <1>2, <1>3 DEF Next, Running

LEMMA AlwaysAwake == Spec => [](Good /\ SpliceInv /\ WakeInv)
<1>1. Init => WakeInv
  <2> SUFFICES ASSUME Init PROVE WakeInv
    OBVIOUS
  <2>1. \A m \in Models : lane[m] = Unopened
    BY DEF Init
  <2>2. ~lent /\ shown = NoLane /\ initial = NoLane /\ ~Paused
    BY DEF Init, Paused
  <2>3. TextInv /\ MarkInv
    BY <2>1, <2>2 DEF TextInv, MarkInv, Unopened
  <2>4. LentInv /\ PauseInv
    BY <2>2 DEF LentInv, PauseInv
  <2> QED BY <2>3, <2>4 DEF WakeInv
<1>2. Good /\ ClosedInv /\ SpliceInv /\ WakeInv /\ [Next]_vars => WakeInv'
  BY WakeStep
<1> QED BY <1>1, <1>2, AlwaysSpliced, PTL DEF Spec

(* The owner that waits at a cleared event is never alone: a lane still     *)
(* runs that waits for nobody, or only for a choice and a reader it has.    *)
(* Nothing held, cleared or closed was the last that could set the event    *)
(* (_yield_visible, _pause, _pause_explicit).                               *)
THEOREM OwnerIsWoken == Spec => []EveryPauseHasAWaker
<1>1. Good /\ SpliceInv /\ WakeInv => EveryPauseHasAWaker
  <2> SUFFICES ASSUME Good, SpliceInv, WakeInv, pull = "pause", ~wake
               PROVE  \E m \in Live : lane[m].step = "held" => shown # NoLane /\ (shown = m => pulled)
    BY DEF EveryPauseHasAWaker
  <2>1. Awaiting
    BY DEF WakeInv, PauseInv, Paused
  <2>2. PICK m \in Live : TRUE
    BY <2>1 DEF Awaiting
  <2>3. m \in Models /\ m \in Opened /\ ~Finished(m) /\ LaneOK(lane[m])
    BY <2>2 DEF Live, Opened, Good, Types, Lanes
  <2>4. CASE ~Ordinary
    BY <2>2, <2>3, <2>4 DEF WakeInv, TextInv
  <2>5. CASE Ordinary /\ initial = NoLane /\ shown = NoLane
    <3>1. Spoken = {}
      BY <2>1, <2>5 DEF Awaiting
    <3>2. lane[m].first = 0
      BY <2>3, <3>1 DEF Spoken
    <3>3. lane[m].step # "held"
      BY <2>3, <3>2 DEF LaneOK, LaneRecs
    <3> QED BY <2>2, <3>3
  <2>6. CASE Ordinary /\ initial = NoLane /\ shown # NoLane
    <3>1. shown \in Live /\ lane[shown].sent = lane[shown].got
      BY <2>1, <2>6 DEF Awaiting
    <3>2. ~lent
      BY DEF WakeInv, LentInv
    <3>3. lane[shown].step = "held" => pulled
      BY <2>6, <3>1, <3>2 DEF WakeInv, LentInv
    <3> QED BY <2>6, <3>1, <3>3
  <2>7. CASE Ordinary /\ initial # NoLane
    <3>1. shown = initial /\ Finished(initial)
      BY <2>7 DEF WakeInv, TextInv, SpliceInv
    <3> QED BY <2>2, <2>3, <2>7, <3>1
  <2> QED BY <2>4, <2>5, <2>6, <2>7
<1> QED BY <1>1, AlwaysAwake, PTL
=============================================================================
