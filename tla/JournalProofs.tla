---------------------------- MODULE JournalProofs ----------------------------
(***************************************************************************)
(* The journal for any calls, models, raters and bounds: the reverse pass  *)
(* of the tail joins each call with its ratings, a window counts each call *)
(* once, and failures are counted whatever becomes of their rows.          *)
(*                                                                         *)
(* A pass is a recursion over lines, so its proofs go by induction, which  *)
(* is had from the least number of a set of numbers.                       *)
(***************************************************************************)
EXTENDS Journal, FiniteSetTheorems, SequenceTheorems, WellFoundedInduction, TLAPS

(* The least number of a set of numbers. *)
LEMMA Least ==
  ASSUME NEW S, S \subseteq Nat, S # {}
  PROVE  \E n \in S : \A m \in S : n <= m
<1> DEFINE R == OpToRel(<, Nat)
<1>1. IsWellFoundedOn(R, Nat)
  BY NatLessThanWellFounded
<1>2. \A m, n \in Nat : <<m, n>> \in R <=> m < n
  BY DEF OpToRel
<1> HIDE DEF R
<1>3. PICK n \in S : \A m \in S : ~ (<<m, n>> \in R)
  BY <1>1, WFMin
<1>4. \A m \in S : ~ (m < n)
  BY <1>2, <1>3
<1> QED
  BY <1>3, <1>4

(* Induction, over the numbers of a set. *)
LEMMA Induct ==
  ASSUME NEW S, 0 \in S, \A n \in Nat : n \in S => n + 1 \in S
  PROVE  \A n \in Nat : n \in S
<1> SUFFICES ASSUME NEW k \in Nat, k \notin S
             PROVE  FALSE
  OBVIOUS
<1> DEFINE T == {n \in Nat : n \notin S}
<1>1. PICK n \in T : \A m \in T : n <= m
  BY Least
<1>2. n # 0 /\ n - 1 \in Nat /\ n - 1 \notin T
  BY <1>1
<1> QED
  BY <1>2

(* f goes by G from a, n steps in A. *)
Goes(f, A, a, n, G) ==
  f \in [0 .. n -> A] /\ f[0] = a /\ \A k \in 1 .. n : f[k] = G[<<f[k - 1], k>>]

(* From a step for every element there is a run of any length. *)
LEMMA Recursion ==
  ASSUME NEW A, NEW a \in A, NEW n \in Nat, NEW G \in [A \X (1 .. n) -> A]
  PROVE  \E f : Goes(f, A, a, n, G)
<1> DEFINE Runs(f, m) == f \in [0 .. m -> A] /\ f[0] = a /\ \A k \in 1 .. m : f[k] = G[<<f[k - 1], k>>]
           S == {m \in Nat : m <= n => \E f : Runs(f, m)}
<1>1. 0 \in S
  <2>1. Runs([k \in 0 .. 0 |-> a], 0)
    OBVIOUS
  <2> QED
    BY <2>1
<1>2. ASSUME NEW m \in Nat, m \in S
      PROVE  m + 1 \in S
  <2> SUFFICES ASSUME m + 1 <= n
               PROVE  \E f : Runs(f, m + 1)
    OBVIOUS
  <2>1. PICK f : Runs(f, m)
    BY <1>2
  <2> DEFINE g == [k \in 0 .. m + 1 |-> IF k <= m THEN f[k] ELSE G[<<f[m], m + 1>>]]
  <2>2. f[m] \in A /\ G[<<f[m], m + 1>>] \in A
    BY <2>1
  <2>3. g \in [0 .. m + 1 -> A] /\ g[0] = a
    BY <2>1, <2>2
  <2>4. \A k \in 1 .. m + 1 : g[k] = G[<<g[k - 1], k>>]
    <3> TAKE k \in 1 .. m + 1
    <3>1. CASE k <= m
      <4>1. k \in 1 .. m /\ k - 1 \in 0 .. m
        BY <3>1
      <4>2. g[k] = f[k] /\ g[k - 1] = f[k - 1] /\ f[k] = G[<<f[k - 1], k>>]
        BY <2>1, <4>1
      <4> QED
        BY <4>2
    <3>2. CASE k = m + 1
      <4>1. ~ (m + 1 <= m) /\ m \in 0 .. m + 1 /\ m + 1 \in 0 .. m + 1 /\ k - 1 = m
        BY <3>2
      <4>2. g[m + 1] = G[<<f[m], m + 1>>] /\ g[m] = f[m]
        BY <4>1
      <4> HIDE DEF g
      <4> QED
        BY <3>2, <4>1, <4>2
    <3> QED
      BY <3>1, <3>2
  <2> QED
    BY <2>3, <2>4
<1> HIDE DEF S
<1>3. n \in S
  BY <1>1, <1>2, Induct
<1> QED
  BY <1>3 DEF S, Goes

(* The greatest of a bounded set of numbers. *)
LEMMA Greatest ==
  ASSUME NEW S, S \subseteq Nat, S # {}, NEW n \in Nat, \A m \in S : m <= n
  PROVE  Max(S) \in S /\ \A m \in S : m <= Max(S)
<1> DEFINE T == {n - m : m \in S}
<1>1. T \subseteq Nat /\ T # {}
  <2>1. \A m \in S : n - m \in Nat
    OBVIOUS
  <2> QED
    BY <2>1
<1>2. PICK t \in T : \A u \in T : t <= u
  BY <1>1, Least
<1>3. PICK m \in S : t = n - m
  BY <1>2
<1>4. ASSUME NEW k \in S
      PROVE  m >= k
  <2>1. n - k \in T /\ k \in Nat /\ m \in Nat
    OBVIOUS
  <2>2. n - m <= n - k
    BY <1>2, <1>3, <2>1
  <2> QED
    BY <2>1, <2>2
<1>5. \E x \in S : \A y \in S : x >= y
  BY <1>4
<1>6. /\ Max(S) \in S
      /\ \A y \in S : Max(S) >= y
  BY <1>5 DEF Max
<1> QED
  BY <1>6

----------------------------------------------------------------------------
(* The reverse pass over the lines. *)

CallRows == [kind : {"call"}, call : Calls, status : Statuses, budget : Nat, score : {None}, ts : Days]
RatingRows == [kind : {"rating"}, call : Calls, score : Scores, ts : Days]
Rows == CallRows \cup RatingRows
Ratings == Scores \cup {None}
JoinedRows == [kind : {"call"}, call : Calls, status : Statuses, budget : Nat, score : Ratings, ts : Days]

(* What the reverse pass holds. *)
Accs == [rows : Seq(JoinedRows), pending : [Calls -> Ratings]]
Nothing == [rows |-> <<>>, pending |-> [c \in Calls |-> None]]

LEMMA MetTyped ==
  ASSUME NEW acc \in Accs, NEW row \in Rows, NEW limit \in Nat, NEW among, NEW since
  PROVE  Met(acc, row, limit, among, since) \in Accs
<1>1. CASE Len(acc.rows) = limit
  BY <1>1 DEF Met
<1>2. CASE Len(acc.rows) < limit /\ row.kind = "rating"
  <2>1. row \in RatingRows
    BY <1>2 DEF Rows, CallRows
  <2>2. row.call \in Calls /\ row.score \in Ratings
    BY <2>1 DEF RatingRows, Ratings
  <2> DEFINE q == IF acc.pending[row.call] = None THEN row.score ELSE acc.pending[row.call]
  <2>3. q \in Ratings
    BY <2>2 DEF Accs
  <2>4. [acc EXCEPT !.pending[row.call] = q] \in Accs
    BY <2>2, <2>3 DEF Accs
  <2>5. Met(acc, row, limit, among, since) = [acc EXCEPT !.pending[row.call] = q]
    BY <1>2 DEF Met
  <2> QED
    BY <2>4, <2>5
<1>3. CASE Len(acc.rows) < limit /\ row.kind = "call" /\ row.call \in among /\ row.ts >= since
  <2>1. row \in CallRows
    BY <1>3 DEF Rows, RatingRows
  <2>2. [row EXCEPT !.score = acc.pending[row.call]] \in JoinedRows
    BY <2>1 DEF CallRows, JoinedRows, Accs
  <2>3. Append(acc.rows, [row EXCEPT !.score = acc.pending[row.call]]) \in Seq(JoinedRows)
    BY <2>2 DEF Accs
  <2>4. Met(acc, row, limit, among, since)
          = [acc EXCEPT !.rows = Append(acc.rows, [row EXCEPT !.score = acc.pending[row.call]])]
    BY <1>3 DEF Met
  <2> QED
    BY <2>3, <2>4 DEF Accs
<1>4. CASE /\ ~ (Len(acc.rows) = limit)
           /\ ~ (Len(acc.rows) < limit /\ row.kind = "rating")
           /\ ~ (Len(acc.rows) < limit /\ row.kind = "call" /\ row.call \in among /\ row.ts >= since)
  BY <1>4 DEF Met
<1> QED
  BY <1>1, <1>2, <1>3, <1>4

LEMMA NothingTyped == Nothing \in Accs
BY DEF Nothing, Accs, Ratings

(* The pass over the lines, line by line from the last one. *)
LEMMA PassIs ==
  ASSUME NEW lines \in Seq(Rows), NEW limit \in Nat, NEW among, NEW since
  PROVE  /\ Pass(lines, limit, among, since)[0] = Nothing
         /\ \A k \in 1 .. Len(lines) :
              Pass(lines, limit, among, since)[k]
                = Met(Pass(lines, limit, among, since)[k - 1], lines[Len(lines) - k + 1], limit, among, since)
<1> DEFINE n == Len(lines)
           Is(f) == f = [k \in 0 .. n |-> IF k = 0 THEN Nothing
                                          ELSE Met(f[k - 1], lines[n - k + 1], limit, among, since)]
           G == [x \in Accs \X (1 .. n) |-> Met(x[1], lines[n - x[2] + 1], limit, among, since)]
<1>1. n \in Nat /\ \A k \in 1 .. n : n - k + 1 \in 1 .. n /\ lines[n - k + 1] \in Rows
  OBVIOUS
<1>2. \A x \in Accs \X (1 .. n) : Met(x[1], lines[n - x[2] + 1], limit, among, since) \in Accs
  BY <1>1, MetTyped
<1>3. G \in [Accs \X (1 .. n) -> Accs]
  BY <1>2
<1>4. PICK f \in [0 .. n -> Accs] : f[0] = Nothing /\ \A k \in 1 .. n : f[k] = G[<<f[k - 1], k>>]
  <2>1. n \in Nat /\ Nothing \in Accs
    BY <1>1, NothingTyped
  <2> HIDE DEF G, n
  <2>2. \E f : Goes(f, Accs, Nothing, n, G)
    BY <1>3, <2>1, Recursion
  <2> QED
    BY <2>2 DEF Goes
<1>5. Is(f)
  <2>1. \A k \in 1 .. n : f[k] = Met(f[k - 1], lines[n - k + 1], limit, among, since)
    <3> TAKE k \in 1 .. n
    <3>1. k - 1 \in 0 .. n /\ f[k - 1] \in Accs
      BY <1>1
    <3>2. <<f[k - 1], k>> \in Accs \X (1 .. n)
      BY <3>1
    <3> QED
      BY <1>4, <3>2
  <2>2. \A k \in 0 .. n : f[k] = IF k = 0 THEN Nothing ELSE Met(f[k - 1], lines[n - k + 1], limit, among, since)
    BY <1>4, <2>1
  <2> QED
    BY <2>2
<1>6. Pass(lines, limit, among, since) = CHOOSE g : Is(g)
  BY DEF Pass, Nothing
<1>7. Is(Pass(lines, limit, among, since))
  <2> HIDE DEF Is
  <2> QED
    BY <1>5, <1>6
<1> HIDE DEF n
<1>8. \A k \in 0 .. n : Pass(lines, limit, among, since)[k]
        = IF k = 0 THEN Nothing
          ELSE Met(Pass(lines, limit, among, since)[k - 1], lines[n - k + 1], limit, among, since)
  BY <1>7
<1> QED
  BY <1>1, <1>8 DEF n

(* The lines that count for a read, those behind a line, and those of the ratings of *)
(* a call there.                                                                     *)
Hits(lines, among, since) ==
  {i \in DOMAIN lines : lines[i].kind = "call" /\ lines[i].call \in among /\ lines[i].ts >= since}
Behind(I, lo) == {i \in I : i > lo}
RatingsOf(lines, c, lo) == {i \in DOMAIN lines : i > lo /\ IsRating(lines[i]) /\ lines[i].call = c}
Newest(lines, c, lo) ==
  IF RatingsOf(lines, c, lo) = {} THEN None ELSE lines[Max(RatingsOf(lines, c, lo))].score
Joined(lines, i) == [lines[i] EXCEPT !.score = Newest(lines, lines[i].call, i)]

(* What the reverse pass holds when the lines behind `lo` are read. *)
PassOK(acc, lines, H, lo, limit) ==
  /\ acc \in Accs
  /\ \/ /\ Len(acc.rows) < limit /\ Cardinality(Behind(H, lo)) = Len(acc.rows)
        /\ \A c \in Calls : acc.pending[c] = Newest(lines, c, lo)
     \/ Len(acc.rows) = limit /\ Cardinality(Behind(H, lo)) >= limit
  /\ \A i \in Behind(H, lo) : Cardinality(Behind(H, i)) < limit =>
       /\ Cardinality(Behind(H, i)) < Len(acc.rows)
       /\ acc.rows[Cardinality(Behind(H, i)) + 1] = Joined(lines, i)
  /\ \A q \in 1 .. Len(acc.rows) : \E i \in Behind(H, lo) :
       Cardinality(Behind(H, i)) = q - 1 /\ acc.rows[q] = Joined(lines, i)

LEMMA BehindFinite ==
  ASSUME NEW lines \in Seq(Rows), NEW H, H \subseteq DOMAIN lines, NEW lo
  PROVE  IsFiniteSet(Behind(H, lo)) /\ Cardinality(Behind(H, lo)) \in Nat
<1>1. Len(lines) \in Nat /\ DOMAIN lines = 1 .. Len(lines)
  OBVIOUS
<1>2. IsFiniteSet(1 .. Len(lines))
  BY <1>1, FS_Interval
<1>3. Behind(H, lo) \subseteq 1 .. Len(lines)
  BY <1>1 DEF Behind
<1>4. IsFiniteSet(Behind(H, lo))
  BY <1>2, <1>3, FS_Subset
<1> QED
  BY <1>4, FS_CardinalityType

(* A line before those read is the newest rating of its call where there was none. *)
LEMMA NewestStep ==
  ASSUME NEW lines \in Seq(Rows), NEW lo \in 1 .. Len(lines), NEW c \in Calls
  PROVE  /\ Newest(lines, c, lo - 1)
              = IF Newest(lines, c, lo) = None /\ IsRating(lines[lo]) /\ lines[lo].call = c
                THEN lines[lo].score ELSE Newest(lines, c, lo)
         /\ Newest(lines, c, lo) \in Ratings
<1> DEFINE A == RatingsOf(lines, c, lo)
           B == RatingsOf(lines, c, lo - 1)
<1>1. Len(lines) \in Nat /\ DOMAIN lines = 1 .. Len(lines) /\ lo \in Nat
  OBVIOUS
<1>2. A \subseteq Nat /\ (\A i \in A : i <= Len(lines) /\ i > lo)
  BY <1>1 DEF RatingsOf
<1>3. B = IF IsRating(lines[lo]) /\ lines[lo].call = c THEN A \cup {lo} ELSE A
  BY <1>1 DEF RatingsOf
<1>4. ASSUME NEW i \in DOMAIN lines, IsRating(lines[i])
      PROVE  lines[i].score \in Nat
  <2>1. lines[i] \in RatingRows
    BY <1>4 DEF Rows, CallRows, IsRating
  <2> QED
    BY <2>1, JournalAssumption DEF RatingRows
<1>5. CASE A = {}
  <2>1. Newest(lines, c, lo) = None
    BY <1>5 DEF Newest
  <2>2. CASE IsRating(lines[lo]) /\ lines[lo].call = c
    <3>1. B = {lo}
      BY <1>3, <1>5, <2>2
    <3>2. Max(B) \in B
      BY <1>1, <3>1, Greatest
    <3> QED
      BY <2>1, <2>2, <3>1, <3>2 DEF Newest, Ratings
  <2>3. CASE ~ (IsRating(lines[lo]) /\ lines[lo].call = c)
    BY <1>3, <1>5, <2>1, <2>3 DEF Newest, Ratings
  <2> QED
    BY <2>2, <2>3
<1>6. CASE A # {}
  <2>1. Max(A) \in A /\ \A i \in A : i <= Max(A)
    BY <1>1, <1>2, <1>6, Greatest
  <2>2. Max(A) \in DOMAIN lines /\ IsRating(lines[Max(A)])
    BY <2>1 DEF RatingsOf
  <2>3. lines[Max(A)].score \in Scores
    BY <2>2 DEF IsRating, Rows, CallRows, RatingRows
  <2>4. Newest(lines, c, lo) = lines[Max(A)].score
    BY <1>6 DEF Newest
  <2>5. lines[Max(A)].score # None
    BY <1>4, <2>2 DEF None
  <2>6. Max(B) = Max(A)
    <3>0. A \subseteq B /\ B \subseteq A \cup {lo}
      BY <1>3
    <3>1. B \subseteq Nat /\ B # {} /\ \A i \in B : i <= Len(lines)
      <4>1. \A i \in A \cup {lo} : i \in Nat /\ i <= Len(lines)
        BY <1>1, <1>2
      <4> HIDE DEF A, B
      <4> QED
        BY <1>6, <3>0, <4>1
    <3>2. Max(B) \in B /\ \A i \in B : i <= Max(B)
      BY <1>1, <3>1, Greatest
    <3> HIDE DEF A, B
    <3>3. Max(A) <= Max(B) /\ Max(A) > lo /\ Max(A) \in Nat /\ Max(B) \in Nat
      BY <1>2, <2>1, <3>0, <3>1, <3>2
    <3>4. Max(B) \in A
      BY <1>1, <3>0, <3>2, <3>3
    <3> QED
      BY <2>1, <3>3, <3>4
  <2>7. B # {}
    BY <1>3, <1>6
  <2>8. Newest(lines, c, lo - 1) = lines[Max(B)].score
    BY <2>7 DEF Newest
  <2> QED
    BY <2>3, <2>4, <2>5, <2>6, <2>8 DEF Ratings
<1> QED
  BY <1>5, <1>6

(* One more line. *)
LEMMA PassStep ==
  ASSUME NEW lines \in Seq(Rows), NEW limit \in Nat, NEW among, NEW since,
         NEW lo \in 1 .. Len(lines), NEW acc,
         PassOK(acc, lines, Hits(lines, among, since), lo, limit)
  PROVE  PassOK(Met(acc, lines[lo], limit, among, since), lines, Hits(lines, among, since), lo - 1, limit)
<1> DEFINE H == Hits(lines, among, since)
           row == lines[lo]
           new == Met(acc, row, limit, among, since)
<1>1. /\ Len(lines) \in Nat /\ DOMAIN lines = 1 .. Len(lines) /\ lo \in Nat /\ lo \in DOMAIN lines
      /\ row \in Rows /\ acc \in Accs
  BY DEF PassOK
<1>2. H \subseteq DOMAIN lines /\ H \subseteq Nat
  BY <1>1 DEF Hits
<1>3. \A i : IsFiniteSet(Behind(H, i)) /\ Cardinality(Behind(H, i)) \in Nat
  BY <1>2, BehindFinite
<1>4. new \in Accs
  BY <1>1, MetTyped
<1>5. Behind(H, lo - 1) = IF lo \in H THEN Behind(H, lo) \cup {lo} ELSE Behind(H, lo)
  BY <1>1, <1>2 DEF Behind
<1>6. lo \notin Behind(H, lo)
  BY <1>1 DEF Behind
<1>7. Len(acc.rows) \in Nat /\ Cardinality(Behind(H, lo)) >= Len(acc.rows) /\ Len(acc.rows) <= limit
  BY <1>1, <1>3 DEF PassOK, Accs
<1>8. Cardinality(Behind(H, lo - 1)) >= Cardinality(Behind(H, lo))
  BY <1>3, <1>5, <1>6, FS_AddElement
<1>9. CASE Len(acc.rows) = limit
  <2>1. new = acc
    BY <1>9 DEF Met
  <2>2. \A i \in Behind(H, lo - 1) : Cardinality(Behind(H, i)) < limit => i \in Behind(H, lo)
    BY <1>3, <1>5, <1>7, <1>9
  <2>3. Len(new.rows) = limit /\ Cardinality(Behind(H, lo - 1)) >= limit
    BY <1>3, <1>7, <1>8, <1>9, <2>1
  <2>4. Behind(H, lo) \subseteq Behind(H, lo - 1)
    BY <1>5
  <2> QED
    BY <1>4, <2>1, <2>2, <2>3, <2>4 DEF PassOK
<1>10. CASE Len(acc.rows) < limit /\ row.kind = "rating"
  <2>1. row \in RatingRows
    BY <1>1, <1>10 DEF Rows, CallRows
  <2>2. row.call \in Calls /\ lo \notin H
    BY <1>10, <2>1 DEF Hits, RatingRows
  <2>3. new = [acc EXCEPT !.pending[row.call] = IF acc.pending[row.call] = None THEN row.score
                                                ELSE acc.pending[row.call]]
    BY <1>10 DEF Met
  <2>4. new.rows = acc.rows
    BY <1>1, <2>3 DEF Accs
  <2>5. \A c \in Calls : new.pending[c] = Newest(lines, c, lo - 1)
    <3> TAKE c \in Calls
    <3>1. acc.pending[c] = Newest(lines, c, lo)
      BY <1>3, <1>7, <1>10 DEF PassOK
    <3>2. new.pending[c] = IF c = row.call /\ acc.pending[c] = None THEN row.score ELSE acc.pending[c]
      BY <1>1, <2>2, <2>3 DEF Accs
    <3> QED
      BY <1>10, <3>1, <3>2, NewestStep DEF IsRating
  <2>6. Behind(H, lo - 1) = Behind(H, lo)
    BY <1>5, <2>2
  <2> QED
    BY <1>4, <1>10, <1>7, <2>4, <2>5, <2>6 DEF PassOK
<1>11. CASE Len(acc.rows) < limit /\ row.kind = "call"
  <2>1. Cardinality(Behind(H, lo)) = Len(acc.rows)
    BY <1>7, <1>11 DEF PassOK
  <2>2. \A c \in Calls : acc.pending[c] = Newest(lines, c, lo - 1)
    <3> TAKE c \in Calls
    <3>1. acc.pending[c] = Newest(lines, c, lo)
      BY <1>3, <1>7, <1>11 DEF PassOK
    <3> QED
      BY <1>11, <3>1, NewestStep DEF IsRating
  <2>3. CASE lo \notin H
    <3>1. new = acc
      BY <1>1, <1>11, <2>3 DEF Met, Hits
    <3>2. Behind(H, lo - 1) = Behind(H, lo)
      BY <1>5, <2>3
    <3> QED
      BY <1>1, <1>11, <2>1, <2>2, <3>1, <3>2 DEF PassOK
  <2>4. CASE lo \in H
    <3> DEFINE n == Len(acc.rows)
    <3>1. row \in CallRows /\ row.call \in Calls
      BY <1>1, <1>11 DEF Rows, RatingRows, CallRows
    <3>2. acc.pending[row.call] = Newest(lines, row.call, lo)
      BY <3>1, <1>3, <1>7, <1>11 DEF PassOK
    <3>3. new = [acc EXCEPT !.rows = Append(acc.rows, Joined(lines, lo))]
      BY <1>11, <2>4, <3>2 DEF Met, Hits, Joined
    <3>4. new.rows = Append(acc.rows, Joined(lines, lo)) /\ new.pending = acc.pending
      BY <1>1, <3>3 DEF Accs
    <3>5. /\ Len(new.rows) = n + 1 /\ new.rows[n + 1] = Joined(lines, lo)
          /\ \A q \in 1 .. n : new.rows[q] = acc.rows[q]
      <4>1. acc.rows \in Seq(JoinedRows)
        BY <1>1 DEF Accs
      <4> QED
        BY <3>4, <4>1
    <3>6. Cardinality(Behind(H, lo - 1)) = n + 1
      BY <1>3, <1>5, <1>6, <2>1, <2>4, FS_AddElement
    <3>7. \A i \in Behind(H, lo - 1) : Cardinality(Behind(H, i)) < limit =>
            /\ Cardinality(Behind(H, i)) < n + 1
            /\ new.rows[Cardinality(Behind(H, i)) + 1] = Joined(lines, i)
      <4> TAKE i \in Behind(H, lo - 1)
      <4> HAVE Cardinality(Behind(H, i)) < limit
      <4>1. CASE i = lo
        BY <1>7, <2>1, <3>5, <4>1
      <4>2. CASE i \in Behind(H, lo)
        <5>1. /\ Cardinality(Behind(H, i)) < n
              /\ acc.rows[Cardinality(Behind(H, i)) + 1] = Joined(lines, i)
          BY <4>2 DEF PassOK
        <5>2. Cardinality(Behind(H, i)) \in Nat
          BY <1>3
        <5> HIDE DEF n, new, H
        <5>3. n \in Nat
          BY <1>7 DEF n
        <5>4. Cardinality(Behind(H, i)) + 1 \in 1 .. n
          BY <5>1, <5>2, <5>3 DEF n
        <5>5. new.rows[Cardinality(Behind(H, i)) + 1] = acc.rows[Cardinality(Behind(H, i)) + 1]
          BY <3>5, <5>4
        <5> QED
          BY <5>1, <5>2, <5>3, <5>5 DEF n
      <4> QED
        BY <1>5, <4>1, <4>2
    <3>8. \A q \in 1 .. n + 1 : \E i \in Behind(H, lo - 1) :
            Cardinality(Behind(H, i)) = q - 1 /\ new.rows[q] = Joined(lines, i)
      <4> TAKE q \in 1 .. n + 1
      <4>1. CASE q = n + 1
        <5>1. lo \in Behind(H, lo - 1)
          BY <1>5, <2>4
        <5> QED
          BY <1>7, <2>1, <3>5, <4>1, <5>1
      <4>2. CASE q \in 1 .. n
        <5>1. PICK i \in Behind(H, lo) : Cardinality(Behind(H, i)) = q - 1 /\ acc.rows[q] = Joined(lines, i)
          BY <4>2 DEF PassOK
        <5> QED
          BY <1>5, <3>5, <4>2, <5>1
      <4> QED
        BY <1>7, <4>1, <4>2
    <3>9. \/ n + 1 < limit \/ n + 1 = limit
      BY <1>7, <1>11
    <3>10. n \in Nat /\ Len(new.rows) = n + 1 /\ Cardinality(Behind(H, lo - 1)) = n + 1
           /\ new.pending = acc.pending
      BY <1>7, <3>4, <3>5, <3>6
    <3> HIDE DEF n, new, H
    <3>11. \/ /\ Len(new.rows) < limit /\ Cardinality(Behind(H, lo - 1)) = Len(new.rows)
              /\ \A c \in Calls : new.pending[c] = Newest(lines, c, lo - 1)
           \/ Len(new.rows) = limit /\ Cardinality(Behind(H, lo - 1)) >= limit
      BY <2>2, <3>9, <3>10
    <3>12. \A i \in Behind(H, lo - 1) : Cardinality(Behind(H, i)) < limit =>
             /\ Cardinality(Behind(H, i)) < Len(new.rows)
             /\ new.rows[Cardinality(Behind(H, i)) + 1] = Joined(lines, i)
      BY <3>7, <3>10
    <3>13. \A q \in 1 .. Len(new.rows) : \E i \in Behind(H, lo - 1) :
             Cardinality(Behind(H, i)) = q - 1 /\ new.rows[q] = Joined(lines, i)
      BY <3>8, <3>10
    <3>14. PassOK(new, lines, H, lo - 1, limit)
      BY <1>4, <3>11, <3>12, <3>13 DEF PassOK
    <3> QED
      BY <3>14 DEF new, H
  <2> QED
    BY <2>3, <2>4
<1>12. row.kind \in {"call", "rating"}
  BY <1>1 DEF Rows, CallRows, RatingRows
<1> QED
  BY <1>7, <1>9, <1>10, <1>11, <1>12

LEMMA PassStart ==
  ASSUME NEW lines \in Seq(Rows), NEW limit \in Nat \ {0}, NEW H, H \subseteq DOMAIN lines
  PROVE  PassOK(Nothing, lines, H, Len(lines), limit)
<1>1. Len(lines) \in Nat /\ DOMAIN lines = 1 .. Len(lines)
  OBVIOUS
<1>2. Behind(H, Len(lines)) = {}
  BY <1>1 DEF Behind
<1>3. Cardinality({}) = 0
  BY FS_EmptySet
<1>4. \A c \in Calls : RatingsOf(lines, c, Len(lines)) = {}
  BY <1>1 DEF RatingsOf
<1>5. \A c \in Calls : Newest(lines, c, Len(lines)) = None
  BY <1>4 DEF Newest
<1>6. Nothing.rows = <<>> /\ Len(Nothing.rows) = 0 /\ \A c \in Calls : Nothing.pending[c] = None
  BY DEF Nothing
<1> QED
  BY <1>2, <1>3, <1>5, <1>6, NothingTyped DEF PassOK

(* After k lines the pass holds what the lines behind the others say. *)
LEMMA PassHolds ==
  ASSUME NEW lines \in Seq(Rows), NEW limit \in Nat \ {0}, NEW among, NEW since
  PROVE  PassOK(Pass(lines, limit, among, since)[Len(lines)], lines, Hits(lines, among, since), 0, limit)
<1> DEFINE n == Len(lines)
           H == Hits(lines, among, since)
           P == Pass(lines, limit, among, since)
           S == {k \in Nat : k <= n => PassOK(P[k], lines, H, n - k, limit)}
<1>1. n \in Nat /\ DOMAIN lines = 1 .. n /\ H \subseteq DOMAIN lines
  BY DEF Hits
<1>2. P[0] = Nothing /\ \A k \in 1 .. n : P[k] = Met(P[k - 1], lines[n - k + 1], limit, among, since)
  BY PassIs
<1>3. 0 \in S
  <2>1. PassOK(Nothing, lines, H, n, limit)
    BY <1>1, PassStart
  <2>2. n - 0 = n
    BY <1>1
  <2> HIDE DEF H, P, n
  <2> QED
    BY <1>2, <2>1, <2>2
<1>4. ASSUME NEW k \in Nat, k \in S
      PROVE  k + 1 \in S
  <2> SUFFICES ASSUME k + 1 <= n
               PROVE  PassOK(P[k + 1], lines, H, n - (k + 1), limit)
    OBVIOUS
  <2>1. n - k \in 1 .. n /\ k + 1 \in 1 .. n /\ (k + 1) - 1 = k /\ n - (k + 1) + 1 = n - k
        /\ n - (k + 1) = (n - k) - 1 /\ k <= n
    BY <1>1
  <2>2. PassOK(P[k], lines, H, n - k, limit)
    BY <1>4, <2>1
  <2>3. P[k + 1] = Met(P[k], lines[n - k], limit, among, since)
    <3> HIDE DEF P, n
    <3> QED
      BY <1>2, <2>1
  <2>4. PassOK(Met(P[k], lines[n - k], limit, among, since), lines, H, (n - k) - 1, limit)
    <3>1. limit \in Nat
      OBVIOUS
    <3> HIDE DEF P
    <3> QED
      BY <2>1, <2>2, <3>1, PassStep
  <2> HIDE DEF H, P, n
  <2> QED
    BY <2>1, <2>3, <2>4
<1> HIDE DEF S
<1>5. n \in S
  BY <1>1, <1>3, <1>4, Induct
<1>6. n - n = 0 /\ n <= n
  BY <1>1
<1>7. PassOK(P[n], lines, H, n - n, limit)
  BY <1>5, <1>6 DEF S
<1>8. PassOK(P[n], lines, H, 0, limit)
  <2> HIDE DEF H, P, n
  <2> QED
    BY <1>6, <1>7
<1> QED
  BY <1>8

(* What is read of well-formed lines: the newest hits, each with its newest rating. *)
LEMMA TailHolds ==
  ASSUME NEW limit \in Nat \ {0}, NEW among, NEW since, Lines \in Seq(Rows)
  PROVE  LET rows == ReadTail(limit, among, since)
             H    == Hits(Lines, among, since)
         IN  /\ rows \in Seq(JoinedRows)
             /\ \/ Len(rows) < limit /\ Cardinality(H) = Len(rows)
                \/ Len(rows) = limit /\ Cardinality(H) >= limit
             /\ \A i \in H : Cardinality(Behind(H, i)) < limit =>
                  /\ Cardinality(Behind(H, i)) < Len(rows)
                  /\ rows[Cardinality(Behind(H, i)) + 1] = Joined(Lines, i)
             /\ \A q \in 1 .. Len(rows) : \E i \in H :
                  Cardinality(Behind(H, i)) = q - 1 /\ rows[q] = Joined(Lines, i)
<1> DEFINE H == Hits(Lines, among, since)
           acc == Pass(Lines, limit, among, since)[Len(Lines)]
<1>1. PassOK(acc, Lines, H, 0, limit)
  BY PassHolds
<1>2. Behind(H, 0) = H
  BY DEF Hits, Behind
<1>3. ReadTail(limit, among, since) = acc.rows
  BY DEF ReadTail
<1>4. acc.rows \in Seq(JoinedRows)
  BY <1>1 DEF PassOK, Accs
<1> HIDE DEF acc, H
<1>5. /\ \/ Len(acc.rows) < limit /\ Cardinality(H) = Len(acc.rows)
         \/ Len(acc.rows) = limit /\ Cardinality(H) >= limit
      /\ \A i \in H : Cardinality(Behind(H, i)) < limit =>
           /\ Cardinality(Behind(H, i)) < Len(acc.rows)
           /\ acc.rows[Cardinality(Behind(H, i)) + 1] = Joined(Lines, i)
      /\ \A q \in 1 .. Len(acc.rows) : \E i \in H :
           Cardinality(Behind(H, i)) = q - 1 /\ acc.rows[q] = Joined(Lines, i)
  BY <1>1, <1>2 DEF PassOK
<1> QED
  BY <1>3, <1>4, <1>5 DEF H

----------------------------------------------------------------------------
(* The lines of the day files. *)

(* Where a line of the journal comes from, and that earlier lines are of earlier days *)
(* or earlier in their day.                                                           *)
From(line, d, p) == d \in Days /\ p \in DOMAIN files[d] /\ line = files[d][p]
Placed(lines, n) ==
  /\ lines \in Seq(Rows)
  /\ \A j \in DOMAIN lines : \E d, p : From(lines[j], d, p) /\ d < n
  /\ \A i, j \in DOMAIN lines : i < j =>
       \E d, e, p, q : From(lines[i], d, p) /\ From(lines[j], e, q) /\ (d < e \/ (d = e /\ p < q))

(* A day after those there. *)
LEMMA DayPlaced ==
  ASSUME files \in [Days -> Seq(Rows)], NEW n \in Days, NEW lines, Placed(lines, n)
  PROVE  Placed(lines \o files[n], n + 1)
<1> DEFINE s == files[n]
           both == lines \o s
<1>1. lines \in Seq(Rows) /\ s \in Seq(Rows) /\ n \in Nat
  BY JournalAssumption DEF Placed, Days
<1>2. /\ both \in Seq(Rows) /\ Len(lines) \in Nat /\ Len(s) \in Nat
      /\ DOMAIN lines = 1 .. Len(lines) /\ DOMAIN s = 1 .. Len(s)
      /\ DOMAIN both = 1 .. Len(lines) + Len(s)
      /\ \A i \in DOMAIN both : both[i] = IF i <= Len(lines) THEN lines[i] ELSE s[i - Len(lines)]
  BY <1>1
<1>3. \A j \in DOMAIN both : j > Len(lines) => From(both[j], n, j - Len(lines))
  <2> TAKE j \in DOMAIN both
  <2> HAVE j > Len(lines)
  <2>1. j - Len(lines) \in DOMAIN s /\ both[j] = s[j - Len(lines)]
    BY <1>2
  <2> QED
    BY <2>1 DEF From
<1>4. \A j \in DOMAIN both : j <= Len(lines) => j \in DOMAIN lines /\ both[j] = lines[j]
  BY <1>2
<1>5. ASSUME NEW j \in DOMAIN both
      PROVE  \E d, p : From(both[j], d, p) /\ d < n + 1
  <2>1. CASE j <= Len(lines)
    <3>1. PICK d, p : From(lines[j], d, p) /\ d < n
      BY <1>4, <2>1 DEF Placed
    <3>2. d \in Nat
      BY <3>1 DEF From, Days
    <3> QED
      BY <1>1, <1>4, <2>1, <3>1, <3>2
  <2>2. CASE j > Len(lines)
    BY <1>1, <1>3, <2>2
  <2> QED
    BY <1>2, <2>1, <2>2
<1>6. ASSUME NEW i \in DOMAIN both, NEW j \in DOMAIN both, i < j
      PROVE  \E d, e, p, q : From(both[i], d, p) /\ From(both[j], e, q) /\ (d < e \/ (d = e /\ p < q))
  <2>1. CASE j <= Len(lines)
    <3>1. i <= Len(lines)
      BY <1>2, <1>6, <2>1
    <3> QED
      BY <1>4, <1>6, <2>1, <3>1 DEF Placed
  <2>2. CASE i <= Len(lines) /\ j > Len(lines)
    <3>1. PICK d, p : From(lines[i], d, p) /\ d < n
      BY <1>4, <2>2 DEF Placed
    <3> QED
      BY <1>3, <1>4, <2>2, <3>1
  <2>3. CASE i > Len(lines) /\ j > Len(lines)
    <3>1. i - Len(lines) < j - Len(lines)
      BY <1>2, <1>6
    <3>2. From(both[i], n, i - Len(lines)) /\ From(both[j], n, j - Len(lines))
      BY <1>3, <2>3
    <3> HIDE DEF both
    <3> QED
      BY <3>1, <3>2
  <2>4. i \in Nat /\ j \in Nat /\ Len(lines) \in Nat
    BY <1>2
  <2>5. \/ j <= Len(lines)
        \/ i <= Len(lines) /\ j > Len(lines)
        \/ i > Len(lines) /\ j > Len(lines)
    BY <1>6, <2>4
  <2> QED
    BY <2>1, <2>2, <2>3, <2>5
<1> HIDE DEF both
<1>7. Placed(both, n + 1)
  BY <1>2, <1>5, <1>6 DEF Placed
<1> QED
  BY <1>7 DEF both

LEMMA LinesPlaced ==
  ASSUME files \in [Days -> Seq(Rows)]
  PROVE  Placed(Lines, MaxTime + 1)
<1> DEFINE N == MaxTime + 1
           s == [d \in 1 .. N |-> files[d - 1]]
           Is(f) == f = [i \in 1 .. Len(s) |-> IF i = 1 THEN s[i] ELSE f[i - 1] \o s[i]]
           G == [x \in Seq(Rows) \X (1 .. MaxTime) |-> x[1] \o s[x[2] + 1]]
<1>1. MaxTime \in Nat /\ N \in Nat /\ Days = 0 .. MaxTime
  BY JournalAssumption DEF Days
<1>2. s \in Seq(Seq(Rows)) /\ Len(s) = N /\ \A d \in 1 .. N : s[d] = files[d - 1] /\ s[d] \in Seq(Rows)
  BY <1>1
<1>3. G \in [Seq(Rows) \X (1 .. MaxTime) -> Seq(Rows)]
  <2>1. \A x \in Seq(Rows) \X (1 .. MaxTime) : x[1] \o s[x[2] + 1] \in Seq(Rows)
    <3> TAKE x \in Seq(Rows) \X (1 .. MaxTime)
    <3>1. x[2] + 1 \in 1 .. N /\ x[1] \in Seq(Rows)
      BY <1>1
    <3>2. s[x[2] + 1] \in Seq(Rows)
      BY <1>2, <3>1
    <3> HIDE DEF s
    <3> QED
      BY <3>1, <3>2
  <2> QED
    BY <2>1
<1>4. PICK g : Goes(g, Seq(Rows), s[1], MaxTime, G)
  <2>1. s[1] \in Seq(Rows)
    BY <1>1, <1>2
  <2> HIDE DEF G, s
  <2> QED
    BY <1>1, <1>3, <2>1, Recursion
<1>5. /\ g[0] = s[1] /\ g \in [0 .. MaxTime -> Seq(Rows)]
      /\ \A k \in 1 .. MaxTime : g[k] = g[k - 1] \o s[k + 1]
  <2>1. \A k \in 1 .. MaxTime : <<g[k - 1], k>> \in Seq(Rows) \X (1 .. MaxTime)
    BY <1>1, <1>4 DEF Goes
  <2> HIDE DEF s
  <2> QED
    BY <1>4, <2>1 DEF Goes
<1> DEFINE f == [i \in 1 .. N |-> g[i - 1]]
<1>6. Is(f)
  <2>1. ASSUME NEW i \in 1 .. N
        PROVE  f[i] = IF i = 1 THEN s[i] ELSE f[i - 1] \o s[i]
    <3> HIDE DEF s
    <3>1. CASE i = 1
      BY <1>1, <1>5, <3>1
    <3>2. CASE i # 1
      <4>1. i - 1 \in 1 .. MaxTime /\ i - 1 \in 1 .. N /\ (i - 1) + 1 = i
        BY <1>1, <3>2
      <4>2. g[i - 1] = g[(i - 1) - 1] \o s[(i - 1) + 1]
        BY <1>5, <4>1
      <4> QED
        BY <3>2, <4>1, <4>2
    <3> QED
      BY <3>1, <3>2
  <2> HIDE DEF s
  <2>2. f = [i \in 1 .. N |-> IF i = 1 THEN s[i] ELSE f[i - 1] \o s[i]]
    BY <2>1
  <2> QED
    BY <1>2, <2>2
<1> HIDE DEF f
<1>7. Lines = (CHOOSE h : Is(h))[N]
  <2>1. Lines = FlattenSeq(s)
    BY DEF Lines
  <2> HIDE DEF s
  <2>2. Len(s) # 0
    BY <1>1, <1>2
  <2>3. FlattenSeq(s) = (CHOOSE h : Is(h))[Len(s)]
    BY <2>2 DEF FlattenSeq
  <2> QED
    BY <1>2, <2>1, <2>3
<1> DEFINE h == CHOOSE h : Is(h)
<1>8. Is(h)
  <2> HIDE DEF Is
  <2> QED
    BY <1>6
<1> HIDE DEF h
<1>9. /\ h[1] = files[0]
      /\ \A i \in 2 .. N : h[i] = h[i - 1] \o files[i - 1]
  <2>1. \A i \in 1 .. N : h[i] = IF i = 1 THEN s[i] ELSE h[i - 1] \o s[i]
    <3> HIDE DEF s
    <3> QED
      BY <1>2, <1>8
  <2>2. s[1] = files[0] /\ \A i \in 2 .. N : s[i] = files[i - 1]
    BY <1>1, <1>2
  <2>3. 1 \in 1 .. N /\ \A i \in 2 .. N : i \in 1 .. N /\ i # 1
    BY <1>1
  <2> HIDE DEF s, N
  <2>4. h[1] = files[0]
    BY <2>1, <2>2, <2>3
  <2>5. \A i \in 2 .. N : h[i] = h[i - 1] \o files[i - 1]
    BY <2>1, <2>2, <2>3
  <2> QED
    BY <2>4, <2>5
<1> DEFINE T == {k \in Nat : k <= MaxTime => Placed(h[k + 1], k + 1)}
<1>10. 0 \in T
  <2>1. Placed(<<>>, 0)
    BY DEF Placed
  <2>2. 0 \in Days /\ files[0] \in Seq(Rows)
    BY <1>1
  <2>3. <<>> \o files[0] = files[0]
    BY <2>2
  <2>4. Placed(<<>> \o files[0], 0 + 1)
    BY <2>1, <2>2, DayPlaced
  <2> HIDE DEF s, Is
  <2> QED
    BY <1>9, <2>3, <2>4
<1>11. ASSUME NEW k \in Nat, k \in T
       PROVE  k + 1 \in T
  <2> SUFFICES ASSUME k + 1 <= MaxTime
               PROVE  Placed(h[(k + 1) + 1], (k + 1) + 1)
    OBVIOUS
  <2>1. k + 1 \in Days /\ (k + 1) + 1 \in 2 .. N /\ ((k + 1) + 1) - 1 = k + 1 /\ k <= MaxTime
    BY <1>1
  <2>2. Placed(h[k + 1], k + 1)
    BY <1>11, <2>1
  <2>3. Placed(h[k + 1] \o files[k + 1], (k + 1) + 1)
    <3> DEFINE n == k + 1
    <3>1. n \in Days /\ Placed(h[n], n)
      BY <2>1, <2>2
    <3> HIDE DEF n, Is, s
    <3>2. Placed(h[n] \o files[n], n + 1)
      BY <3>1, DayPlaced
    <3> QED
      BY <3>2 DEF n
  <2>4. h[(k + 1) + 1] = h[k + 1] \o files[k + 1]
    BY <1>9, <2>1
  <2> QED
    BY <2>3, <2>4
<1> HIDE DEF T
<1>12. MaxTime \in T
  BY <1>1, <1>10, <1>11, Induct
<1>13. Placed(h[MaxTime + 1], MaxTime + 1)
  BY <1>1, <1>12 DEF T
<1> QED
  BY <1>7, <1>13 DEF h

----------------------------------------------------------------------------
(* What is known of a call that is over, here or in a process that died. *)
Over(cs, c) == cs[c].at \in {"over", "past"}
Answered(cs, c) == Over(cs, c) /\ cs[c].status = "ok"

JournalTyped ==
  /\ now \in Days
  /\ files \in [Days -> Seq(Rows)]
  /\ call \in [Calls -> [at : {"running", "record", "over", "past"}, status : Statuses \cup {"none"},
                         budget : Nat, ts : Days]]
  /\ rater \in [Raters -> [at : {"idle", "write", "observe"}, call : Calls \cup {None},
                           score : Nat, ts : Days]]
  /\ window \in [Models -> Seq(Calls \X Scores)]
  /\ learning = [at |-> learning.at, rows |-> learning.rows, bounds |-> learning.bounds]
  /\ learning.rows \in Seq(JoinedRows)

(* The row of a call is of its settlement, a rating of it is later. *)
Fits(cs, row, d) ==
  /\ Over(cs, row.call)
  /\ row.kind = "call" => row.status = cs[row.call].status /\ cs[row.call].ts = d
  /\ row.kind = "rating" => Answered(cs, row.call) /\ cs[row.call].ts <= d

(* It is the first line of its call on its day. *)
First(lines, p) == lines[p].kind = "call" => \A q \in DOMAIN lines : q < p => lines[q].call # lines[p].call

FilesFit ==
  \A d \in Days : \A p \in DOMAIN files[d] : Fits(call, files[d][p], d) /\ First(files[d], p)

CallsStamped ==
  \A c \in Calls : /\ call[c].at \in {"record", "over"} => call[c].status \in Statuses
                   /\ call[c].status # "none" => call[c].ts <= now

RatersFit ==
  \A r \in Raters : rater[r].at # "idle" =>
    /\ rater[r].call \in Calls /\ rater[r].score \in Scores
    /\ Answered(call, rater[r].call) /\ call[rater[r].call].ts <= rater[r].ts

OneEach(cs, w, m) ==
  \A i \in DOMAIN w : /\ Model[w[i][1]] = m /\ Answered(cs, w[i][1])
                      /\ \A j \in DOMAIN w : w[j][1] = w[i][1] => i = j

WindowsFit == \A m \in Models : OneEach(call, window[m], m)

LearningFits ==
  \A i \in DOMAIN learning.rows :
    /\ learning.rows[i].score # None => Answered(call, learning.rows[i].call)
    /\ \A j \in DOMAIN learning.rows : learning.rows[j].call = learning.rows[i].call => i = j

JournalInv == JournalTyped /\ FilesFit /\ CallsStamped /\ RatersFit /\ WindowsFit /\ LearningFits

(* A line of a call comes before every other line that names it, and a rated call has *)
(* answered.                                                                          *)
LEMMA LinesFit ==
  ASSUME JournalTyped, FilesFit
  PROVE  /\ Lines \in Seq(Rows)
         /\ \A i \in DOMAIN Lines :
              /\ Lines[i].kind = "call" => Lines[i].status = call[Lines[i].call].status
              /\ Over(call, Lines[i].call)
              /\ Lines[i].kind = "rating" => Answered(call, Lines[i].call)
         /\ \A i, j \in DOMAIN Lines :
              i < j /\ Lines[j].kind = "call" => Lines[i].call # Lines[j].call
<1>1. Placed(Lines, MaxTime + 1)
  BY LinesPlaced DEF JournalTyped
<1> DEFINE lines == Lines
<1> HIDE DEF lines
<1>2. Placed(lines, MaxTime + 1) /\ lines \in Seq(Rows)
  BY <1>1 DEF lines, Placed
<1>3. \A i \in DOMAIN lines : lines[i].kind \in {"call", "rating"}
  <2> TAKE i \in DOMAIN lines
  <2>1. lines[i] \in Rows
    BY <1>2
  <2> QED
    BY <2>1 DEF Rows, CallRows, RatingRows
<1>4. ASSUME NEW i \in DOMAIN lines
      PROVE  \E d : Fits(call, lines[i], d)
  <2>1. PICK d, p : From(lines[i], d, p)
    BY <1>2 DEF Placed
  <2> QED
    BY <2>1 DEF From, FilesFit
<1>5. ASSUME NEW i \in DOMAIN lines, NEW j \in DOMAIN lines, i < j, lines[j].kind = "call"
      PROVE  lines[i].call # lines[j].call
  <2>1. PICK d, e, p, q : /\ From(lines[i], d, p) /\ From(lines[j], e, q)
                          /\ d < e \/ (d = e /\ p < q)
    BY <1>2, <1>5 DEF Placed
  <2>2. Fits(call, lines[i], d) /\ Fits(call, lines[j], e) /\ First(files[e], q) /\ d \in Nat /\ e \in Nat
    BY <2>1 DEF From, FilesFit, Days
  <2> SUFFICES ASSUME lines[i].call = lines[j].call
               PROVE  FALSE
    OBVIOUS
  <2>3. call[lines[i].call].ts = e
    BY <1>5, <2>2 DEF Fits
  <2>4. e <= d
    BY <1>3, <2>2, <2>3 DEF Fits
  <2>5. d = e /\ p < q
    BY <2>1, <2>2, <2>4
  <2> QED
    BY <1>5, <2>1, <2>2, <2>5 DEF From, First
<1> QED
  BY <1>2, <1>3, <1>4, <1>5 DEF lines, Fits

(* Hence every reverse pass joins each call with all its ratings. *)
LEMMA InvJoins == JournalTyped /\ FilesFit => TailIsTheJoin
<1> SUFFICES ASSUME JournalTyped, FilesFit, NEW limit \in 1 .. Limit
             PROVE  LET lines    == Lines
                        calls    == {i \in DOMAIN lines : ~IsRating(lines[i])}
                        newer(i) == Cardinality({j \in calls : j > i})
                        rows     == ReadTail(limit, Calls, 0)
                    IN  /\ Len(rows) = Min({limit, Cardinality(calls)})
                        /\ \A i \in calls : newer(i) < limit =>
                             rows[newer(i) + 1] = [lines[i] EXCEPT !.score = NewestRating(lines, lines[i].call)]
  BY DEF TailIsTheJoin
<1> DEFINE lines == Lines
           H == Hits(lines, Calls, 0)
           rows == ReadTail(limit, Calls, 0)
<1>1. /\ lines \in Seq(Rows)
      /\ \A i, j \in DOMAIN lines : i < j /\ lines[j].kind = "call" => lines[i].call # lines[j].call
  BY LinesFit
<1>2. limit \in Nat \ {0} /\ limit \in Nat
  BY JournalAssumption
<1>3. /\ rows \in Seq(JoinedRows)
      /\ \/ Len(rows) < limit /\ Cardinality(H) = Len(rows)
         \/ Len(rows) = limit /\ Cardinality(H) >= limit
      /\ \A i \in H : Cardinality(Behind(H, i)) < limit =>
           /\ Cardinality(Behind(H, i)) < Len(rows)
           /\ rows[Cardinality(Behind(H, i)) + 1] = Joined(lines, i)
  BY <1>1, <1>2, TailHolds
<1> HIDE DEF lines, rows
<1>4. H = {i \in DOMAIN lines : ~ IsRating(lines[i])}
  <2>1. \A i \in DOMAIN lines : ~ IsRating(lines[i]) <=>
          lines[i].kind = "call" /\ lines[i].call \in Calls /\ lines[i].ts >= 0
    <3> TAKE i \in DOMAIN lines
    <3>1. lines[i] \in Rows
      BY <1>1
    <3> QED
      BY <3>1 DEF Rows, CallRows, RatingRows, IsRating, Days
  <2> QED
    BY <2>1 DEF Hits
<1>5. \A i : Behind(H, i) = {j \in H : j > i}
  BY DEF Behind
<1>6. Len(rows) = Min({limit, Cardinality(H)})
  <2>1. H \subseteq DOMAIN lines
    BY DEF Hits
  <2>2. Behind(H, 0) = H
    BY <1>1 DEF Hits, Behind
  <2>3. Cardinality(H) \in Nat
    BY <1>1, <2>1, <2>2, BehindFinite
  <2>4. Len(rows) \in {limit, Cardinality(H)} /\ \A x \in {limit, Cardinality(H)} : Len(rows) <= x
    BY <1>2, <1>3, <2>3
  <2>5. \A x \in {limit, Cardinality(H)} : (\A y \in {limit, Cardinality(H)} : x <= y) => x = Len(rows)
    BY <1>2, <2>3, <2>4
  <2> QED
    BY <2>4, <2>5 DEF Min
<1>7. ASSUME NEW i \in H
      PROVE  Joined(lines, i) = [lines[i] EXCEPT !.score = NewestRating(lines, lines[i].call)]
  <2> DEFINE c == lines[i].call
             mine == {j \in DOMAIN lines : IsRating(lines[j]) /\ lines[j].call = c}
  <2>1. i \in DOMAIN lines /\ lines[i].kind = "call" /\ DOMAIN lines = 1 .. Len(lines) /\ Len(lines) \in Nat
    BY <1>1 DEF Hits
  <2>2. \A j \in mine : j > i
    <3> TAKE j \in mine
    <3>1. j # i
      BY <2>1 DEF IsRating
    <3>2. ~ (j < i)
      BY <1>1, <2>1
    <3> QED
      BY <2>1, <3>1, <3>2
  <2>3. RatingsOf(lines, c, i) = mine
    BY <2>2 DEF RatingsOf
  <2>4. NewestRating(lines, c) = IF mine = {} THEN None ELSE lines[Max(mine)].score
    BY DEF NewestRating
  <2> HIDE DEF mine, c
  <2>5. Newest(lines, c, i) = NewestRating(lines, c)
    BY <2>3, <2>4 DEF Newest
  <2> QED
    BY <2>5 DEF Joined, c
<1> HIDE DEF H
<1>8. \A i \in H : Cardinality({j \in H : j > i}) < limit =>
        rows[Cardinality({j \in H : j > i}) + 1] = [lines[i] EXCEPT !.score = NewestRating(lines, lines[i].call)]
  BY <1>3, <1>5, <1>7
<1> QED
  BY <1>4, <1>6, <1>8 DEF lines, rows

(* A row that is read is of a call that is over, and each call has one. *)
LEMMA ReadFits ==
  ASSUME JournalTyped, FilesFit, NEW among, NEW since
  PROVE  LET rows == ReadTail(Limit, among, since)
         IN  /\ rows \in Seq(JoinedRows)
             /\ \A q \in DOMAIN rows :
                  /\ Over(call, rows[q].call) /\ rows[q].status = call[rows[q].call].status
                  /\ rows[q].score # None => Answered(call, rows[q].call)
                  /\ \A p \in DOMAIN rows : rows[p].call = rows[q].call => p = q
<1> DEFINE lines == Lines
           H == Hits(lines, among, since)
           rows == ReadTail(Limit, among, since)
<1>1. /\ lines \in Seq(Rows)
      /\ \A i \in DOMAIN lines :
              /\ lines[i].kind = "call" => lines[i].status = call[lines[i].call].status
              /\ Over(call, lines[i].call)
              /\ lines[i].kind = "rating" => Answered(call, lines[i].call)
      /\ \A i, j \in DOMAIN lines : i < j /\ lines[j].kind = "call" => lines[i].call # lines[j].call
  BY LinesFit
<1>2. Limit \in Nat \ {0}
  BY JournalAssumption
<1>3. /\ rows \in Seq(JoinedRows)
      /\ \A q \in 1 .. Len(rows) : \E i \in H :
           Cardinality(Behind(H, i)) = q - 1 /\ rows[q] = Joined(lines, i)
  BY <1>1, <1>2, TailHolds
<1> HIDE DEF lines, rows
<1>4. ASSUME NEW q \in DOMAIN rows, NEW i \in H, rows[q] = Joined(lines, i)
      PROVE  /\ rows[q].call = lines[i].call /\ rows[q].status = lines[i].status
             /\ rows[q].score = Newest(lines, lines[i].call, i)
  <2>1. lines[i] \in CallRows
    BY <1>1 DEF Hits, Rows, RatingRows
  <2> QED
    BY <1>4, <2>1 DEF Joined, CallRows
<1>5. \A i, j \in H : lines[i].call = lines[j].call => i = j
  BY <1>1 DEF Hits
<1>6. ASSUME NEW i \in H, Newest(lines, lines[i].call, i) # None
      PROVE  Answered(call, lines[i].call)
  <2>1. PICK j \in RatingsOf(lines, lines[i].call, i) : TRUE
    BY <1>6 DEF Newest
  <2> QED
    BY <1>1, <2>1 DEF RatingsOf, IsRating
<1>7. ASSUME NEW q \in DOMAIN rows
      PROVE  \E i \in H : Cardinality(Behind(H, i)) = q - 1 /\ rows[q] = Joined(lines, i)
  BY <1>3
<1>8. ASSUME NEW q \in DOMAIN rows
      PROVE  /\ Over(call, rows[q].call) /\ rows[q].status = call[rows[q].call].status
             /\ rows[q].score # None => Answered(call, rows[q].call)
  <2>1. PICK i \in H : rows[q] = Joined(lines, i)
    BY <1>7
  <2>2. i \in DOMAIN lines /\ lines[i].kind = "call"
    BY DEF Hits
  <2> QED
    BY <1>1, <1>4, <1>6, <2>1, <2>2
<1>9. ASSUME NEW p \in DOMAIN rows, NEW q \in DOMAIN rows, rows[p].call = rows[q].call
      PROVE  p = q
  <2>1. PICK i \in H : Cardinality(Behind(H, i)) = q - 1 /\ rows[q] = Joined(lines, i)
    BY <1>7
  <2>2. PICK j \in H : Cardinality(Behind(H, j)) = p - 1 /\ rows[p] = Joined(lines, j)
    BY <1>7
  <2>3. i = j
    BY <1>4, <1>5, <1>9, <2>1, <2>2
  <2>4. p \in Nat /\ q \in Nat
    BY <1>3
  <2> QED
    BY <2>1, <2>2, <2>3, <2>4
<1> QED
  BY <1>3, <1>8, <1>9 DEF rows

----------------------------------------------------------------------------
(* The windows. *)

(* The buckets of a loop over rows, row by row. *)
LEMMA BucketIs ==
  ASSUME NEW rows \in Seq(JoinedRows), NEW m
  PROVE  /\ Bucket(rows, m)[0] = <<>>
         /\ \A k \in 1 .. Len(rows) : Bucket(rows, m)[k] = Bucketed(Bucket(rows, m)[k - 1], rows[k], m)
<1> DEFINE n == Len(rows)
           A == Seq(Calls \X Scores)
           Is(f) == f = [k \in 0 .. n |-> IF k = 0 THEN <<>> ELSE Bucketed(f[k - 1], rows[k], m)]
           G == [x \in A \X (1 .. n) |-> Bucketed(x[1], rows[x[2]], m)]
<1>1. n \in Nat /\ \A k \in 1 .. n : rows[k] \in JoinedRows
  OBVIOUS
<1>2. ASSUME NEW b \in A, NEW k \in 1 .. n
      PROVE  Bucketed(b, rows[k], m) \in A
  <2>1. rows[k] \in JoinedRows
    BY <1>1
  <2>2. rows[k].score # None => <<rows[k].call, rows[k].score>> \in Calls \X Scores
    BY <2>1 DEF JoinedRows, Ratings
  <2> QED
    BY <2>2 DEF Bucketed
<1>3. G \in [A \X (1 .. n) -> A]
  BY <1>2
<1>4. PICK f : Goes(f, A, <<>>, n, G)
  <2>1. <<>> \in A /\ n \in Nat
    BY <1>1
  <2> HIDE DEF G, n, A
  <2> QED
    BY <1>3, <2>1, Recursion
<1>5. Is(f)
  <2>1. \A k \in 1 .. n : f[k] = Bucketed(f[k - 1], rows[k], m)
    <3> TAKE k \in 1 .. n
    <3> HIDE DEF A
    <3>1. <<f[k - 1], k>> \in A \X (1 .. n)
      BY <1>1, <1>4 DEF Goes
    <3> QED
      BY <1>4, <3>1 DEF Goes
  <2>2. f = [k \in 0 .. n |-> f[k]]
    BY <1>4 DEF Goes
  <2> HIDE DEF n
  <2>3. \A k \in 0 .. n : f[k] = IF k = 0 THEN <<>> ELSE Bucketed(f[k - 1], rows[k], m)
    BY <1>1, <1>4, <2>1 DEF Goes
  <2> QED
    BY <2>2, <2>3
<1>6. Bucket(rows, m) = CHOOSE g : Is(g)
  BY DEF Bucket
<1>7. Is(Bucket(rows, m))
  <2> HIDE DEF Is
  <2> QED
    BY <1>5, <1>6
<1> HIDE DEF n
<1>8. \A k \in 0 .. n : Bucket(rows, m)[k]
        = IF k = 0 THEN <<>> ELSE Bucketed(Bucket(rows, m)[k - 1], rows[k], m)
  BY <1>7
<1> QED
  BY <1>1, <1>8 DEF n

(* What a bucket holds of the rows so far: rated calls of its model, each once. *)
Held(b, rows, k, m) ==
  /\ b \in Seq(Calls \X Scores)
  /\ \A i \in DOMAIN b : \E p \in 1 .. k : /\ b[i] = <<rows[p].call, rows[p].score>>
                                           /\ Model[rows[p].call] = m /\ rows[p].score # None
  /\ \A i, j \in DOMAIN b : b[i][1] = b[j][1] => i = j

LEMMA BucketHolds ==
  ASSUME NEW rows \in Seq(JoinedRows), NEW m,
         \A p, q \in DOMAIN rows : rows[p].call = rows[q].call => p = q
  PROVE  Held(Bucket(rows, m)[Len(rows)], rows, Len(rows), m)
<1> DEFINE n == Len(rows)
           B == Bucket(rows, m)
           S == {k \in Nat : k <= n => Held(B[k], rows, k, m)}
<1>1. n \in Nat /\ DOMAIN rows = 1 .. n /\ \A k \in 1 .. n : rows[k] \in JoinedRows
  OBVIOUS
<1>2. B[0] = <<>> /\ \A k \in 1 .. n : B[k] = Bucketed(B[k - 1], rows[k], m)
  BY BucketIs
<1> HIDE DEF B, n
<1>3. 0 \in S
  <2>1. Held(<<>>, rows, 0, m)
    BY DEF Held
  <2> QED
    BY <1>2, <2>1
<1>4. ASSUME NEW k \in Nat, k \in S
      PROVE  k + 1 \in S
  <2> SUFFICES ASSUME k + 1 <= n
               PROVE  Held(B[k + 1], rows, k + 1, m)
    OBVIOUS
  <2>1. k + 1 \in 1 .. n /\ (k + 1) - 1 = k /\ k <= n /\ (\A p \in 1 .. k : p \in 1 .. k + 1 /\ p \in 1 .. n /\ p # k + 1)
    BY <1>1
  <2>2. Held(B[k], rows, k, m)
    BY <1>4, <2>1
  <2>3. B[k + 1] = Bucketed(B[k], rows[k + 1], m)
    BY <1>2, <2>1
  <2> DEFINE b == B[k]
             row == rows[k + 1]
             e == <<row.call, row.score>>
  <2>4. CASE Model[row.call] = m /\ row.score # None /\ Len(b) < Window
    <3>1. B[k + 1] = Append(b, e)
      BY <2>3, <2>4 DEF Bucketed
    <3>2. row \in JoinedRows
      BY <1>1, <2>1
    <3>3. e \in Calls \X Scores
      BY <2>4, <3>2 DEF JoinedRows, Ratings
    <3>4. b \in Seq(Calls \X Scores)
      BY <2>2 DEF Held
    <3>5. /\ Append(b, e) \in Seq(Calls \X Scores) /\ Len(b) \in Nat
          /\ DOMAIN b = 1 .. Len(b) /\ DOMAIN Append(b, e) = 1 .. Len(b) + 1
          /\ Append(b, e)[Len(b) + 1] = e /\ \A i \in 1 .. Len(b) : Append(b, e)[i] = b[i]
      BY <3>3, <3>4
    <3>6. ASSUME NEW i \in 1 .. Len(b)
          PROVE  \E p \in 1 .. k : /\ b[i] = <<rows[p].call, rows[p].score>>
                                   /\ Model[rows[p].call] = m /\ rows[p].score # None
      BY <2>2, <3>5 DEF Held
    <3>7. ASSUME NEW i \in 1 .. Len(b)
          PROVE  b[i][1] # e[1]
      <4>1. PICK p \in 1 .. k : b[i] = <<rows[p].call, rows[p].score>>
        BY <3>6
      <4>2. rows[p].call # rows[k + 1].call
        BY <1>1, <2>1
      <4> QED
        BY <4>1, <4>2
    <3>8. \A i \in 1 .. Len(b) + 1 : i \in 1 .. Len(b) \/ i = Len(b) + 1
      BY <3>5
    <3>9. ASSUME NEW i \in DOMAIN Append(b, e)
          PROVE  \E p \in 1 .. k + 1 : /\ Append(b, e)[i] = <<rows[p].call, rows[p].score>>
                                       /\ Model[rows[p].call] = m /\ rows[p].score # None
      <4>1. CASE i \in 1 .. Len(b)
        <5>1. PICK p \in 1 .. k : /\ b[i] = <<rows[p].call, rows[p].score>>
                                  /\ Model[rows[p].call] = m /\ rows[p].score # None
          BY <3>6, <4>1
        <5>2. p \in 1 .. k + 1
          BY <2>1
        <5>3. Append(b, e)[i] = b[i]
          BY <3>5, <4>1
        <5> HIDE DEF b, e
        <5> QED
          BY <5>1, <5>2, <5>3
      <4>2. CASE i = Len(b) + 1
        BY <2>1, <2>4, <3>5, <4>2
      <4> QED
        BY <3>5, <3>8, <4>1, <4>2
    <3>10. \A i, j \in DOMAIN Append(b, e) : Append(b, e)[i][1] = Append(b, e)[j][1] => i = j
      <4>1. \A i, j \in 1 .. Len(b) : b[i][1] = b[j][1] => i = j
        BY <2>2, <3>5 DEF Held
      <4> HIDE DEF b, e
      <4> QED
        BY <3>5, <3>7, <3>8, <4>1
    <3> DEFINE a == Append(b, e)
    <3>11. a \in Seq(Calls \X Scores)
      BY <3>5
    <3> HIDE DEF a
    <3>12. Held(a, rows, k + 1, m)
      BY <3>9, <3>10, <3>11 DEF Held, a
    <3> QED
      BY <3>1, <3>12 DEF a
  <2>5. CASE ~ (Model[row.call] = m /\ row.score # None /\ Len(b) < Window)
    <3>1. B[k + 1] = b
      BY <2>3, <2>5 DEF Bucketed
    <3> QED
      BY <2>1, <2>2, <3>1 DEF Held
  <2> QED
    BY <2>4, <2>5
<1> HIDE DEF S
<1>5. n \in S
  BY <1>1, <1>3, <1>4, Induct
<1> QED
  BY <1>1, <1>5 DEF S, n, B

(* A rebuild puts each call that has answered in the window of its model once. *)
LEMMA RebuiltFits ==
  ASSUME NEW rows \in Seq(JoinedRows), NEW m \in Models,
         \A q \in DOMAIN rows :
           /\ rows[q].score # None => Answered(call, rows[q].call)
           /\ \A p \in DOMAIN rows : rows[p].call = rows[q].call => p = q
  PROVE  WindowsOf(rows)[m] \in Seq(Calls \X Scores) /\ OneEach(call, WindowsOf(rows)[m], m)
<1> DEFINE b == Bucket(rows, m)[Len(rows)]
           w == Reverse(b)
<1>1. Held(b, rows, Len(rows), m)
  BY BucketHolds
<1>2. WindowsOf(rows)[m] = w
  BY DEF WindowsOf
<1> HIDE DEF b
<1>3. b \in Seq(Calls \X Scores) /\ Len(b) \in Nat /\ DOMAIN b = 1 .. Len(b)
  BY <1>1 DEF Held
<1>4. /\ w \in Seq(Calls \X Scores) /\ DOMAIN w = 1 .. Len(b)
      /\ \A i \in 1 .. Len(b) : Len(b) - i + 1 \in 1 .. Len(b) /\ w[i] = b[Len(b) - i + 1]
  <2>1. \A i \in 1 .. Len(b) : Len(b) - i + 1 \in 1 .. Len(b) /\ b[Len(b) - i + 1] \in Calls \X Scores
    BY <1>3
  <2>2. w = [i \in 1 .. Len(b) |-> b[Len(b) - i + 1]]
    BY DEF Reverse
  <2> QED
    BY <1>3, <2>1, <2>2
<1> HIDE DEF w
<1>5. ASSUME NEW i \in 1 .. Len(b)
      PROVE  Model[b[i][1]] = m /\ Answered(call, b[i][1])
  <2>1. PICK p \in 1 .. Len(rows) : /\ b[i] = <<rows[p].call, rows[p].score>>
                                    /\ Model[rows[p].call] = m /\ rows[p].score # None
    BY <1>1, <1>3 DEF Held
  <2>2. p \in DOMAIN rows /\ b[i][1] = rows[p].call
    BY <2>1
  <2> QED
    BY <2>1, <2>2
<1>6. ASSUME NEW i \in DOMAIN w, NEW j \in DOMAIN w, w[i][1] = w[j][1]
      PROVE  i = j
  <2> DEFINE p == Len(b) - i + 1
             q == Len(b) - j + 1
  <2>0. p \in DOMAIN b /\ q \in DOMAIN b /\ b[p][1] = b[q][1]
    BY <1>3, <1>4, <1>6
  <2> HIDE DEF p, q
  <2>1. p = q
    BY <1>1, <2>0 DEF Held
  <2> USE DEF p, q
  <2>2. i \in Nat /\ j \in Nat
    BY <1>3, <1>4
  <2> QED
    BY <1>3, <2>1, <2>2
<1> QED
  BY <1>2, <1>4, <1>5, <1>6 DEF OneEach

(* A rating folded in takes the place of one of its call, or a place at the end. *)
LEMMA FoldedFits ==
  ASSUME NEW m, NEW w \in Seq(Calls \X Scores), OneEach(call, w, m),
         NEW c \in Calls, NEW s \in Scores, Model[c] = m, Answered(call, c)
  PROVE  Folded(w, c, s) \in Seq(Calls \X Scores) /\ OneEach(call, Folded(w, c, s), m)
<1>1. Len(w) \in Nat /\ DOMAIN w = 1 .. Len(w) /\ \A i \in DOMAIN w : w[i] \in Calls \X Scores
  OBVIOUS
<1>2. CASE \E i \in DOMAIN w : w[i][1] = c
  <2> DEFINE v == [i \in DOMAIN w |-> IF w[i][1] = c THEN <<c, s>> ELSE w[i]]
  <2>1. Folded(w, c, s) = v
    BY <1>2 DEF Folded
  <2>2. \A i \in DOMAIN w : v[i] \in Calls \X Scores /\ v[i][1] = w[i][1]
    BY <1>1
  <2>3. v \in Seq(Calls \X Scores) /\ DOMAIN v = DOMAIN w
    BY <1>1, <2>2
  <2> HIDE DEF v
  <2> QED
    BY <2>1, <2>2, <2>3 DEF OneEach
<1>3. CASE ~ \E i \in DOMAIN w : w[i][1] = c
  <2> DEFINE a == Append(w, <<c, s>>)
             f == IF Len(a) > Window THEN Len(a) - Window + 1 ELSE 1
             v == SubSeq(a, f, Len(a))
  <2>1. Folded(w, c, s) = v
    BY <1>3 DEF Folded, Latest
  <2>2. /\ a \in Seq(Calls \X Scores) /\ Len(a) = Len(w) + 1 /\ a[Len(w) + 1] = <<c, s>>
        /\ \A i \in 1 .. Len(w) : a[i] = w[i]
    OBVIOUS
  <2> HIDE DEF a
  <2>3. Window \in Nat \ {0}
    BY JournalAssumption
  <2>4. f \in 1 .. Len(a) /\ Len(a) \in Nat
    BY <1>1, <2>2, <2>3
  <2> HIDE DEF f
  <2>5. OneEach(call, a, m)
    <3>1. DOMAIN a = 1 .. Len(w) + 1
      BY <2>2
    <3>2. \A i \in 1 .. Len(w) + 1 : i \in 1 .. Len(w) \/ i = Len(w) + 1
      BY <1>1
    <3>3. ASSUME NEW i \in 1 .. Len(w) + 1
          PROVE  Model[a[i][1]] = m /\ Answered(call, a[i][1])
      <4>1. CASE i \in 1 .. Len(w)
        BY <1>1, <2>2, <4>1 DEF OneEach
      <4>2. CASE i = Len(w) + 1
        <5>1. a[i][1] = c
          BY <2>2, <4>2
        <5> QED
          BY <5>1
      <4> QED
        BY <3>2, <4>1, <4>2
    <3>4. \A i, j \in 1 .. Len(w) : a[j][1] = a[i][1] => i = j
      BY <1>1, <2>2 DEF OneEach
    <3>5. \A i \in 1 .. Len(w) : a[i][1] # c
      BY <1>1, <1>3, <2>2
    <3>6. \A i, j \in 1 .. Len(w) + 1 : a[j][1] = a[i][1] => i = j
      BY <2>2, <3>2, <3>4, <3>5
    <3> QED
      BY <3>1, <3>3, <3>6 DEF OneEach
  <2>6. /\ v \in Seq(Calls \X Scores) /\ Len(v) = Len(a) - f + 1
        /\ \A i \in 1 .. Len(v) : v[i] = a[f + i - 1] /\ f + i - 1 \in DOMAIN a /\ i \in Nat
    <3>1. \A i \in f .. Len(a) : a[i] \in Calls \X Scores
      BY <2>2, <2>4
    <3>2. f \in Int /\ Len(a) \in Int /\ f <= Len(a)
      BY <2>4
    <3>3. /\ v \in Seq(Calls \X Scores) /\ Len(v) = Len(a) - f + 1
          /\ \A i \in 1 .. Len(a) - f + 1 : v[i] = a[f + i - 1]
      BY <3>1, <3>2, SubSeqProperties
    <3>4. \A i \in 1 .. Len(a) - f + 1 : f + i - 1 \in 1 .. Len(a) /\ i \in Nat
      BY <2>4
    <3> HIDE DEF v
    <3> QED
      BY <2>2, <3>3, <3>4
  <2> HIDE DEF v
  <2>7. DOMAIN v = 1 .. Len(v)
    BY <2>6
  <2>8. \A i \in DOMAIN v : Model[v[i][1]] = m /\ Answered(call, v[i][1])
    BY <2>5, <2>6, <2>7 DEF OneEach
  <2>9. ASSUME NEW i \in DOMAIN v, NEW j \in DOMAIN v, v[j][1] = v[i][1]
        PROVE  i = j
    <3>1. f + i - 1 = f + j - 1
      BY <2>5, <2>6, <2>7, <2>9 DEF OneEach
    <3>2. i \in Nat /\ j \in Nat /\ f \in Nat
      BY <2>4, <2>6, <2>7
    <3> QED
      BY <3>1, <3>2
  <2> QED
    BY <2>1, <2>6, <2>8, <2>9 DEF OneEach
<1> QED
  BY <1>2, <1>3

----------------------------------------------------------------------------
(* The steps. *)

(* What is known of a call that is over stays so. *)
Kept == \A c \in Calls : Over(call, c) => /\ Over(call', c) /\ call'[c].status = call[c].status
                                    /\ call'[c].ts = call[c].ts

(* So what is said of such calls stays. *)
LEMMA KeptFits ==
  ASSUME JournalTyped, Kept
  PROVE  /\ FilesFit /\ files' = files => FilesFit'
         /\ RatersFit /\ rater' = rater => RatersFit'
         /\ WindowsFit /\ window' = window => WindowsFit'
         /\ LearningFits /\ learning' = learning => LearningFits'
<1>1. \A c \in Calls : Answered(call, c) => Answered(call', c)
  BY DEF Kept, Answered
<1>2. ASSUME NEW d \in Days, NEW p \in DOMAIN files[d], Fits(call, files[d][p], d), files' = files
      PROVE  Fits(call', files'[d][p], d)
  <2>1. files[d][p] \in Rows
    BY DEF JournalTyped
  <2>2. files[d][p].call \in Calls
    BY <2>1 DEF Rows, CallRows, RatingRows
  <2> QED
    BY <1>1, <1>2, <2>2 DEF Kept, Fits, Answered
<1>3. FilesFit /\ files' = files => FilesFit'
  BY <1>2 DEF FilesFit, First
<1>4. RatersFit /\ rater' = rater => RatersFit'
  BY <1>1 DEF RatersFit, Kept, Answered
<1>5. ASSUME WindowsFit, window' = window, NEW m \in Models
      PROVE  OneEach(call', window[m], m)
  <2>1. \A i \in DOMAIN window[m] : window[m][i][1] \in Calls
    BY DEF JournalTyped
  <2> QED
    BY <1>1, <1>5, <2>1 DEF WindowsFit, OneEach
<1>6. WindowsFit /\ window' = window => WindowsFit'
  BY <1>5 DEF WindowsFit
<1>7. ASSUME LearningFits, learning' = learning
      PROVE  LearningFits'
  <2>1. learning.rows \in Seq(JoinedRows)
    BY DEF JournalTyped
  <2>2. ASSUME NEW i \in DOMAIN learning.rows
        PROVE  learning.rows[i].call \in Calls
    <3>1. learning.rows[i] \in JoinedRows
      BY <2>1
    <3> QED
      BY <3>1 DEF JoinedRows
  <2>3. learning'.rows = learning.rows
    BY <1>7
  <2> QED
    BY <1>1, <1>7, <2>2, <2>3 DEF LearningFits
<1> QED
  BY <1>3, <1>4, <1>6, <1>7

(* A line written at the end of its day, unless the day is beyond the horizon. *)
LEMMA WrittenFits ==
  ASSUME JournalTyped, FilesFit, Kept, NEW row \in Rows, Written(row), Fits(call', row, row.ts),
         row.kind = "call" => \A p \in DOMAIN files[row.ts] : files[row.ts][p].call # row.call
  PROVE  files' \in [Days -> Seq(Rows)] /\ FilesFit'
<1>1. row.ts \in Days
  BY DEF Rows, CallRows, RatingRows
<1> DEFINE appended == Append(files[row.ts], row)
           more == [files EXCEPT ![row.ts] = appended]
<1>2. appended \in Seq(Rows) /\ more \in [Days -> Seq(Rows)]
  BY <1>1 DEF JournalTyped
<1>3. files' = Purged(more)
  BY DEF Written, FileOf
<1> HIDE DEF more
<1>4. files' \in [Days -> Seq(Rows)]
  BY <1>2, <1>3 DEF Purged
<1>5. \A d \in Days : files'[d] \in {<<>>, more[d]}
  BY <1>2, <1>3 DEF Purged
<1>6. ASSUME NEW d \in Days, NEW p \in DOMAIN files[d]
      PROVE  Fits(call', files[d][p], d) /\ First(files[d], p)
  <2>1. files[d][p] \in Rows
    BY DEF JournalTyped
  <2>2. files[d][p].call \in Calls /\ Fits(call, files[d][p], d) /\ First(files[d], p)
    BY <2>1 DEF Rows, CallRows, RatingRows, FilesFit
  <2> QED
    BY <2>2 DEF Kept, Fits, Answered
<1>7. ASSUME NEW d \in Days, NEW p \in DOMAIN more[d]
      PROVE  Fits(call', more[d][p], d) /\ First(more[d], p)
  <2>1. CASE d # row.ts
    <3>1. more[d] = files[d]
      BY <2>1 DEF more, JournalTyped
    <3> QED
      BY <1>6, <3>1
  <2>2. CASE d = row.ts
    <3>1. more[d] = appended /\ files[d] \in Seq(Rows)
      BY <1>1, <2>2 DEF more, JournalTyped
    <3>2. /\ Len(files[d]) \in Nat /\ DOMAIN files[d] = 1 .. Len(files[d])
          /\ DOMAIN more[d] = 1 .. Len(files[d]) + 1
          /\ more[d][Len(files[d]) + 1] = row
          /\ \A q \in 1 .. Len(files[d]) : more[d][q] = files[d][q]
      BY <2>2, <3>1
    <3> HIDE DEF appended
    <3>3. CASE p \in 1 .. Len(files[d])
      <4>1. \A q \in DOMAIN more[d] : q < p => q \in 1 .. Len(files[d])
        BY <3>2, <3>3
      <4> QED
        BY <1>6, <3>2, <3>3, <4>1 DEF First
    <3>4. CASE p = Len(files[d]) + 1
      <4>1. \A q \in DOMAIN more[d] : q < p => q \in 1 .. Len(files[d])
        BY <3>2, <3>4
      <4> QED
        BY <2>2, <3>2, <3>4, <4>1 DEF First
    <3> QED
      BY <3>2, <3>3, <3>4
  <2> QED
    BY <2>1, <2>2
<1>8. FilesFit'
  <2> SUFFICES ASSUME NEW d \in Days, NEW p \in DOMAIN files'[d]
               PROVE  Fits(call', files'[d][p], d) /\ First(files'[d], p)
    BY DEF FilesFit, First
  <2>1. files'[d] = more[d]
    BY <1>5
  <2> QED
    BY <1>7, <2>1
<1> QED
  BY <1>4, <1>8

LEMMA JournalInit == Init => JournalInv
<1> SUFFICES ASSUME Init
             PROVE  JournalInv
  OBVIOUS
<1>1. 0 \in Days
  BY JournalAssumption DEF Days
<1>2. JournalTyped
  BY <1>1 DEF Init, JournalTyped, NoRating, NotLearning, None
<1> QED
  BY <1>2 DEF Init, JournalInv, FilesFit, CallsStamped, RatersFit, WindowsFit, LearningFits,
              OneEach, NoRating, NotLearning

(* A step that leaves the calls as they are keeps what is known of them. *)
LEMMA StillKept == call' = call => Kept
BY DEF Kept, Over

LEMMA SettleKeeps ==
  ASSUME JournalInv, NEW c \in Calls, Settle(c)
  PROVE  JournalInv'
<1>1. PICK s \in Statuses, b \in Budgets :
        call' = [call EXCEPT ![c] =
          [at |-> "record", status |-> s, budget |-> IF s \in OverBudget THEN b ELSE 0, ts |-> now]]
  BY DEF Settle
<1>2. /\ call[c].at = "running"
      /\ UNCHANGED <<now, files, rater, window, learning>>
  BY DEF Settle
<1>3. b \in Nat /\ now \in Days /\ now \in Nat
  BY JournalAssumption DEF JournalInv, JournalTyped, Days
<1>4. \A d \in Calls : /\ d # c => call'[d] = call[d]
                       /\ d = c => call'[d].at = "record" /\ call'[d].status = s /\ call'[d].ts = now
  BY <1>1 DEF JournalInv, JournalTyped
<1>5. JournalTyped'
  BY <1>1, <1>2, <1>3 DEF JournalInv, JournalTyped
<1>6. Kept
  BY <1>2, <1>4 DEF Kept, Over
<1>7. CallsStamped'
  BY <1>2, <1>3, <1>4 DEF JournalInv, CallsStamped
<1> QED
  BY <1>2, <1>5, <1>6, <1>7, KeptFits DEF JournalInv

LEMMA RecordKeeps ==
  ASSUME JournalInv, NEW c \in Calls, Record(c)
  PROVE  JournalInv'
<1>1. /\ call[c].at = "record" /\ call' = [call EXCEPT ![c].at = "over"]
      /\ UNCHANGED <<now, rater, window, learning>>
  BY DEF Record
<1>2. \A d \in Calls : /\ d # c => call'[d] = call[d]
                       /\ call'[d].status = call[d].status /\ call'[d].ts = call[d].ts
                       /\ d = c => call'[d].at = "over"
  BY <1>1 DEF JournalInv, JournalTyped
<1>3. Kept
  BY <1>1, <1>2 DEF Kept, Over
<1>4. CallsStamped'
  BY <1>1, <1>2 DEF JournalInv, CallsStamped
<1>5. RowOf(c) \in Rows /\ RowOf(c).ts = call[c].ts /\ RowOf(c).call = c
      /\ RowOf(c).kind = "call" /\ RowOf(c).status = call[c].status
  <2>1. call[c] \in [at : {"running", "record", "over", "past"}, status : Statuses \cup {"none"},
                     budget : Nat, ts : Days]
    BY DEF JournalInv, JournalTyped
  <2>2. call[c].status \in Statuses
    BY <1>1 DEF JournalInv, CallsStamped
  <2> QED
    BY <2>1, <2>2 DEF RowOf, Rows, CallRows
<1>6. files' \in [Days -> Seq(Rows)] /\ FilesFit'
  <2>1. CASE Written(RowOf(c))
    <3>1. call[c].ts \in Days
      BY DEF JournalInv, JournalTyped
    <3>2. \A p \in DOMAIN files[call[c].ts] : Over(call, files[call[c].ts][p].call)
      BY <3>1 DEF JournalInv, FilesFit, Fits
    <3>3. ~ Over(call, c)
      BY <1>1 DEF Over
    <3>4. Fits(call', RowOf(c), RowOf(c).ts)
      BY <1>2, <1>5 DEF Fits, Over
    <3> QED
      BY <1>3, <1>5, <2>1, <3>2, <3>3, <3>4, WrittenFits DEF JournalInv
  <2>2. CASE files' = files
    BY <1>3, <2>2, KeptFits DEF JournalInv, JournalTyped
  <2> QED
    BY <2>1, <2>2 DEF Record
<1>7. JournalTyped'
  <2>1. [call[c] EXCEPT !.at = "over"] \in
          [at : {"running", "record", "over", "past"}, status : Statuses \cup {"none"},
           budget : Nat, ts : Days]
    BY DEF JournalInv, JournalTyped
  <2>2. call' \in [Calls -> [at : {"running", "record", "over", "past"}, status : Statuses \cup {"none"},
                             budget : Nat, ts : Days]]
    BY <1>1, <2>1 DEF JournalInv, JournalTyped
  <2> QED
    BY <1>1, <1>6, <2>2 DEF JournalInv, JournalTyped
<1> QED
  BY <1>1, <1>3, <1>4, <1>6, <1>7, KeptFits DEF JournalInv

LEMMA RestartKeeps ==
  ASSUME JournalInv, Restart
  PROVE  JournalInv'
<1>1. /\ call' = [c \in Calls |-> CASE call[c].at = "over" -> [call[c] EXCEPT !.at = "past"]
                                    [] call[c].at = "record" -> Lost
                                    [] OTHER -> call[c]]
      /\ rater' = [r \in Raters |-> NoRating]
      /\ window' = [m \in Models |-> <<>>]
      /\ learning' = NotLearning
      /\ UNCHANGED <<now, files>>
  BY DEF Restart
<1> DEFINE T == [at : {"running", "record", "over", "past"}, status : Statuses \cup {"none"},
                 budget : Nat, ts : Days]
<1>2. ASSUME NEW c \in Calls
      PROVE  /\ call'[c] \in T
             /\ call'[c].at \notin {"record", "over"}
             /\ Over(call, c) => /\ Over(call', c) /\ call'[c].status = call[c].status
                                 /\ call'[c].ts = call[c].ts
             /\ call'[c].status # "none" => call'[c].ts = call[c].ts /\ call'[c].status = call[c].status
  <2>1. call[c] \in T /\ 0 \in Days
    BY JournalAssumption DEF JournalInv, JournalTyped, Days
  <2>2. CASE call[c].at = "over"
    <3>1. call'[c] = [call[c] EXCEPT !.at = "past"]
      BY <1>1, <2>2
    <3> QED
      BY <2>1, <3>1 DEF Over
  <2>3. CASE call[c].at = "record"
    <3>1. call'[c] = Lost
      BY <1>1, <2>3
    <3> QED
      BY <2>1, <2>3, <3>1 DEF Lost, Over
  <2>4. CASE call[c].at \notin {"over", "record"}
    <3>1. call'[c] = call[c]
      BY <1>1, <2>4
    <3> QED
      BY <2>1, <2>4, <3>1 DEF Over
  <2> QED
    BY <2>2, <2>3, <2>4
<1> HIDE DEF T
<1>3. call' \in [Calls -> T]
  BY <1>1, <1>2
<1>4. rater' \in [Raters -> [at : {"idle", "write", "observe"}, call : Calls \cup {None}, score : Nat, ts : Days]]
  <2>1. 0 \in Days
    BY JournalAssumption DEF Days
  <2> QED
    BY <1>1, <2>1 DEF NoRating
<1>5. JournalTyped'
  BY <1>1, <1>3, <1>4 DEF JournalInv, JournalTyped, NotLearning, T
<1>6. Kept
  BY <1>2 DEF Kept
<1>7. CallsStamped'
  BY <1>1, <1>2 DEF JournalInv, CallsStamped
<1>8. FilesFit'
  BY <1>1, <1>6, KeptFits DEF JournalInv
<1>9. RatersFit' /\ WindowsFit' /\ LearningFits'
  BY <1>1 DEF RatersFit, WindowsFit, LearningFits, NoRating, NotLearning, OneEach
<1> QED
  BY <1>5, <1>7, <1>8, <1>9 DEF JournalInv

(* A rating that is stamped is of a call that has answered by then. *)
LEMMA RatingKeeps ==
  ASSUME JournalInv, NEW r \in Raters, NEW c \in Calls, Answered(call, c), Rating(r, c),
         UNCHANGED <<now, files, call, window, learning>>
  PROVE  JournalInv'
<1>1. PICK s \in Scores : rater' = [rater EXCEPT ![r] = [at |-> "write", call |-> c, score |-> s, ts |-> now]]
  BY DEF Rating
<1>2. s \in Nat /\ now \in Days
  BY JournalAssumption DEF JournalInv, JournalTyped
<1>3. \A q \in Raters : rater'[q] = IF q = r THEN [at |-> "write", call |-> c, score |-> s, ts |-> now]
                                    ELSE rater[q]
  BY <1>1 DEF JournalInv, JournalTyped
<1>4. JournalTyped'
  BY <1>1, <1>2 DEF JournalInv, JournalTyped
<1>5. call[c].ts <= now
  BY DEF JournalInv, CallsStamped, Answered
<1>6. RatersFit'
  BY <1>3, <1>5 DEF JournalInv, RatersFit
<1>7. CallsStamped'
  BY DEF JournalInv, CallsStamped
<1> QED
  BY <1>4, <1>6, <1>7, StillKept, KeptFits DEF JournalInv

LEMMA RateTraceKeeps ==
  ASSUME JournalInv, NEW r \in Raters, NEW c \in Calls, RateTrace(r, c)
  PROVE  JournalInv'
<1> DEFINE rows == ReadTail(Limit, {d \in Calls : Trace[d] = Trace[c]}, now - RatingSpan)
<1>1. \A q \in DOMAIN rows : Over(call, rows[q].call) /\ rows[q].status = call[rows[q].call].status
  BY ReadFits DEF JournalInv
<1>2. \E q \in DOMAIN rows : rows[q].call = c /\ rows[q].status = "ok"
  BY DEF RateTrace, Traced
<1> HIDE DEF rows
<1>3. Answered(call, c)
  BY <1>1, <1>2 DEF Answered
<1> QED
  BY <1>3, RatingKeeps DEF RateTrace

LEMMA WriteRatingKeeps ==
  ASSUME JournalInv, NEW r \in Raters, WriteRating(r)
  PROVE  JournalInv'
<1> DEFINE row == [kind |-> "rating", call |-> rater[r].call, score |-> rater[r].score, ts |-> rater[r].ts]
           T == [at : {"idle", "write", "observe"}, call : Calls \cup {None}, score : Nat, ts : Days]
<1>1. rater[r].at = "write" /\ UNCHANGED <<now, call, window, learning>>
  BY DEF WriteRating
<1>2. /\ rater[r].call \in Calls /\ rater[r].score \in Scores /\ rater[r].ts \in Days
      /\ Answered(call, rater[r].call) /\ call[rater[r].call].ts <= rater[r].ts
  BY <1>1 DEF JournalInv, JournalTyped, RatersFit
<1>3. Kept
  BY <1>1, StillKept
<1>4. files' \in [Days -> Seq(Rows)] /\ FilesFit'
  <2>1. CASE Written(row)
    <3>1. row \in Rows /\ row.kind = "rating" /\ row.call = rater[r].call /\ row.ts = rater[r].ts
      BY <1>2 DEF Rows, RatingRows
    <3>2. Fits(call', row, row.ts)
      BY <1>1, <1>2, <3>1 DEF Fits, Answered
    <3> HIDE DEF row
    <3> QED
      BY <1>3, <2>1, <3>1, <3>2, WrittenFits DEF JournalInv
  <2>2. CASE files' = files
    BY <1>3, <2>2, KeptFits DEF JournalInv, JournalTyped
  <2> QED
    BY <2>1, <2>2 DEF WriteRating
<1>5. rater' = [rater EXCEPT ![r].at = "observe"] \/ rater' = [rater EXCEPT ![r] = NoRating]
  BY DEF WriteRating
<1>6. /\ rater' \in [Raters -> T]
      /\ \A q \in Raters : rater'[q].at # "idle" =>
           /\ rater[q].at # "idle" /\ rater'[q].call = rater[q].call
           /\ rater'[q].score = rater[q].score /\ rater'[q].ts = rater[q].ts
  <2>1. rater \in [Raters -> T] /\ 0 \in Days
    BY JournalAssumption DEF JournalInv, JournalTyped, Days
  <2>2. CASE rater' = [rater EXCEPT ![r].at = "observe"]
    BY <1>1, <2>1, <2>2
  <2>3. CASE rater' = [rater EXCEPT ![r] = NoRating]
    <3>1. NoRating \in T /\ NoRating.at = "idle"
      BY <2>1 DEF NoRating
    <3> QED
      BY <2>1, <2>3, <3>1
  <2> QED
    BY <1>5, <2>2, <2>3
<1>7. JournalTyped'
  BY <1>1, <1>4, <1>6 DEF JournalInv, JournalTyped
<1>8. RatersFit'
  BY <1>1, <1>6 DEF JournalInv, RatersFit
<1>9. CallsStamped'
  BY <1>1 DEF JournalInv, CallsStamped
<1> QED
  BY <1>1, <1>3, <1>4, <1>7, <1>8, <1>9, KeptFits DEF JournalInv

LEMMA ObserveKeeps ==
  ASSUME JournalInv, NEW r \in Raters, Observe(r)
  PROVE  JournalInv'
<1> DEFINE c == rater[r].call
           s == rater[r].score
           w == Folded(window[Model[c]], c, s)
           T == [at : {"idle", "write", "observe"}, call : Calls \cup {None}, score : Nat, ts : Days]
<1>1. /\ rater[r].at = "observe" /\ rater' = [rater EXCEPT ![r] = NoRating]
      /\ window' = [window EXCEPT ![Model[c]] = w]
      /\ UNCHANGED <<now, files, call, learning>>
  BY DEF Observe
<1>2. c \in Calls /\ s \in Scores /\ Answered(call, c) /\ Model[c] \in Models
  BY <1>1, JournalAssumption DEF JournalInv, RatersFit
<1>3. w \in Seq(Calls \X Scores) /\ OneEach(call, w, Model[c])
  <2>1. window[Model[c]] \in Seq(Calls \X Scores) /\ OneEach(call, window[Model[c]], Model[c])
    BY <1>2 DEF JournalInv, JournalTyped, WindowsFit
  <2> HIDE DEF c, s
  <2> QED
    BY <1>2, <2>1, FoldedFits
<1> HIDE DEF w, c, s
<1>4. window' \in [Models -> Seq(Calls \X Scores)] /\ WindowsFit'
  BY <1>1, <1>2, <1>3 DEF JournalInv, JournalTyped, WindowsFit
<1>5. rater \in [Raters -> T] /\ NoRating \in T /\ NoRating.at = "idle"
  <2>1. 0 \in Days
    BY JournalAssumption DEF Days
  <2> QED
    BY <2>1 DEF JournalInv, JournalTyped, NoRating
<1>6. rater' \in [Raters -> T] /\ \A q \in Raters : rater'[q].at # "idle" => rater'[q] = rater[q]
  BY <1>1, <1>5
<1>7. JournalTyped'
  BY <1>1, <1>4, <1>6 DEF JournalInv, JournalTyped
<1>8. RatersFit'
  BY <1>1, <1>6 DEF JournalInv, RatersFit
<1>9. CallsStamped'
  BY <1>1 DEF JournalInv, CallsStamped
<1> QED
  BY <1>1, <1>4, <1>7, <1>8, <1>9, StillKept, KeptFits DEF JournalInv

LEMMA LearnKeeps ==
  ASSUME JournalInv, Learn
  PROVE  JournalInv'
<1>1. UNCHANGED <<now, files, call, rater>>
  BY DEF Learn, ReadRows, LoadScores, ApplyBounds
<1>2. Kept /\ FilesFit' /\ RatersFit' /\ CallsStamped'
  BY <1>1, StillKept, KeptFits DEF JournalInv, CallsStamped
<1>3. ASSUME learning' = [at |-> learning'.at, rows |-> learning'.rows, bounds |-> learning'.bounds],
             learning'.rows \in Seq(JoinedRows), window' \in [Models -> Seq(Calls \X Scores)]
      PROVE  JournalTyped'
  BY <1>1, <1>3 DEF JournalInv, JournalTyped
<1>4. CASE ReadRows
  <2> DEFINE rows == ReadTail(Limit, Calls, 0)
  <2>1. learning' = [learning EXCEPT !.at = "read", !.rows = rows] /\ window' = window
    BY <1>4 DEF ReadRows
  <2>2. /\ rows \in Seq(JoinedRows)
        /\ \A q \in DOMAIN rows :
                  /\ rows[q].score # None => Answered(call, rows[q].call)
                  /\ \A p \in DOMAIN rows : rows[p].call = rows[q].call => p = q
    BY ReadFits DEF JournalInv
  <2> HIDE DEF rows
  <2>3. learning' = [at |-> "read", rows |-> rows, bounds |-> learning.bounds]
    <3>1. learning = [at |-> learning.at, rows |-> learning.rows, bounds |-> learning.bounds]
      BY DEF JournalInv, JournalTyped
    <3> QED
      BY <2>1, <3>1
  <2>4. LearningFits'
    BY <1>1, <2>2, <2>3 DEF LearningFits
  <2>5. JournalTyped'
    BY <1>3, <2>1, <2>2, <2>3 DEF JournalInv, JournalTyped
  <2> QED
    BY <1>2, <2>1, <2>4, <2>5, KeptFits DEF JournalInv
<1>5. CASE LoadScores
  <2>1. /\ window' = WindowsOf(learning.rows)
        /\ learning' = [at |-> "bounds", rows |-> <<>>, bounds |-> BoundsOf(learning.rows)]
    BY <1>5 DEF LoadScores
  <2>2. learning.rows \in Seq(JoinedRows)
    BY DEF JournalInv, JournalTyped
  <2>3. \A m \in Models : window'[m] \in Seq(Calls \X Scores) /\ OneEach(call, window'[m], m)
    BY <2>1, <2>2, RebuiltFits DEF JournalInv, LearningFits
  <2>4. window' \in [Models -> Seq(Calls \X Scores)]
    BY <2>1, <2>3 DEF WindowsOf
  <2>5. WindowsFit' /\ LearningFits'
    BY <1>1, <2>1, <2>3 DEF WindowsFit, LearningFits
  <2>6. JournalTyped'
    BY <1>3, <2>1, <2>4
  <2> QED
    BY <1>2, <2>5, <2>6 DEF JournalInv
<1>6. CASE ApplyBounds
  <2>1. learning' = NotLearning /\ window' = window
    BY <1>6 DEF ApplyBounds
  <2>2. LearningFits' /\ JournalTyped'
    BY <1>3, <2>1 DEF JournalInv, JournalTyped, LearningFits, NotLearning
  <2> QED
    BY <1>2, <2>1, <2>2, KeptFits DEF JournalInv
<1> QED
  BY <1>4, <1>5, <1>6 DEF Learn

LEMMA JournalStep == JournalInv /\ [Next]_vars => JournalInv'
<1> SUFFICES ASSUME JournalInv, [Next]_vars
             PROVE  JournalInv'
  OBVIOUS
<1>1. ASSUME NEW r \in Raters, NEW c \in Calls, RateResult(r, c)
      PROVE  JournalInv'
  <2>1. Answered(call, c)
    BY <1>1 DEF RateResult, Answered, Over
  <2> QED
    BY <1>1, <2>1, RatingKeeps DEF RateResult
<1>2. CASE Tick
  <2>1. now < MaxTime /\ now' = now + 1 /\ UNCHANGED <<files, call, rater, window, learning>>
    BY <1>2 DEF Tick
  <2>2. now \in Days /\ now' \in Days /\ now \in Nat
    BY <2>1, JournalAssumption DEF JournalInv, JournalTyped, Days
  <2>3. JournalTyped'
    BY <2>1, <2>2 DEF JournalInv, JournalTyped
  <2>4. \A c \in Calls : call[c].ts \in Nat
    BY DEF JournalInv, JournalTyped, Days
  <2>5. CallsStamped'
    BY <2>1, <2>2, <2>4 DEF JournalInv, CallsStamped
  <2> QED
    BY <2>1, <2>3, <2>5, StillKept, KeptFits DEF JournalInv
<1>3. CASE UNCHANGED vars
  <2>1. UNCHANGED <<now, files, call, rater, window, learning>>
    BY <1>3 DEF vars
  <2>2. JournalTyped' /\ CallsStamped'
    BY <2>1 DEF JournalInv, JournalTyped, CallsStamped
  <2> QED
    BY <2>1, <2>2, StillKept, KeptFits DEF JournalInv
<1> QED
  BY <1>1, <1>2, <1>3, SettleKeeps, RecordKeeps, RestartKeeps, RateTraceKeeps, WriteRatingKeeps,
     ObserveKeeps, LearnKeeps DEF Next, RateStep

(* The inductive invariant: a line is the first of its call, ratings are of calls that *)
(* have answered, and so are the windows and the rows a rebuild holds.                 *)
THEOREM JournalInvariant == JournalSpec => []JournalInv
BY JournalInit, JournalStep, PTL DEF JournalSpec

(* For any number of days, limit and horizon, and however threads wrote the rows, one *)
(* reverse pass reads the newest calls, each with its newest rating                   *)
(* (FileStore._read_tail).                                                            *)
THEOREM TailIsJoined == JournalSpec => []TailIsTheJoin
<1>1. JournalInv => TailIsTheJoin
  BY InvJoins DEF JournalInv
<1> QED
  BY <1>1, JournalInvariant, PTL

(* A window counts answered calls of its model, each once, however often they are    *)
(* rated, and whatever a rebuild read meanwhile (Optimizer.record_quality,           *)
(* load_scores, Learner._apply_scores_and_metrics).                                  *)
THEOREM OneObservationOfEach == JournalSpec => []OneObservationEach
<1>1. JournalInv => OneObservationEach
  BY DEF JournalInv, WindowsFit, OneEach, Answered, OneObservationEach
<1> QED
  BY <1>1, JournalInvariant, PTL

----------------------------------------------------------------------------
(* The streaks of failures. *)

Settlements == [at : {"running", "record", "over", "past"}, status : Statuses \cup {"none"},
                budget : Nat, ts : Nat]

(* A call that has settled has its status, and streaks are numbers. *)
StreaksTyped ==
  /\ now \in Nat
  /\ call \in [Calls -> Settlements]
  /\ fails \in [Models -> Nat]
  /\ \A c \in Calls : call[c].at = "record" => call[c].status \in Statuses

(* The calls of a model that are over in this process, and those that cooled it. *)
OverOf(m) == {c \in Calls : Model[c] = m /\ call[c].at = "over"}
DownOf(m) == {c \in OverOf(m) : call[c].status \in Cooled}

Counted(m) == (\A c \in OverOf(m) : call[c].status # "ok") => fails[m] = Cardinality(DownOf(m))

LossInv == StreaksTyped /\ \A m \in Models : Counted(m)

LEMMA LossInvIsIt == LossInv => LossDoesNotBlind
BY DEF LossInv, Counted, OverOf, DownOf, LossDoesNotBlind

LEMMA LossInit == Init => LossInv
<1> SUFFICES ASSUME Init PROVE LossInv
  OBVIOUS
<1>1. StreaksTyped
  BY DEF Init, StreaksTyped, Settlements, Statuses
<1>2. ASSUME NEW m \in Models
      PROVE  Counted(m)
  <2>1. DownOf(m) = {}
    BY DEF Init, DownOf, OverOf
  <2> QED
    BY <2>1, FS_EmptySet DEF Init, Counted
<1> QED
  BY <1>1, <1>2 DEF LossInv

(* A call being recorded is not over yet; once it is, its model's count is one    *)
(* more where it cooled it.                                                       *)
LEMMA RecordCounts ==
  ASSUME LossInv, NEW c \in Calls, Record(c)
  PROVE  LossInv'
<1>1. /\ call[c].at = "record" /\ fails' = Streak(c)
      /\ call' = [call EXCEPT ![c].at = "over"] /\ now' = now
  BY DEF Record
<1>2. \A d \in Calls : /\ call'[d].status = call[d].status
                       /\ call'[d].at = IF d = c THEN "over" ELSE call[d].at
  BY <1>1 DEF LossInv, StreaksTyped, Settlements
<1>3. StreaksTyped'
  <2>1. call[c] \in Settlements /\ Model[c] \in Models
    BY JournalAssumption DEF LossInv, StreaksTyped
  <2>2. [call[c] EXCEPT !.at = "over"] \in Settlements
    BY <2>1 DEF Settlements
  <2>3. call' \in [Calls -> Settlements]
    BY <1>1, <2>2 DEF LossInv, StreaksTyped
  <2>4. fails' \in [Models -> Nat]
    BY <1>1, <2>1 DEF LossInv, StreaksTyped, Streak
  <2> QED
    BY <1>1, <1>2, <2>3, <2>4 DEF LossInv, StreaksTyped
<1>4. ASSUME NEW m \in Models
      PROVE  Counted(m)'
  <2>0. Model[c] \in Models
    BY JournalAssumption
  <2>1. /\ OverOf(m)' = IF Model[c] = m THEN OverOf(m) \cup {c} ELSE OverOf(m)
        /\ c \notin OverOf(m)
    <3>1. c \notin OverOf(m)
      BY <1>1 DEF OverOf
    <3>2. \A d \in Calls : d \in OverOf(m)' <=> d \in OverOf(m) \/ (d = c /\ Model[c] = m)
      BY <1>2 DEF OverOf
    <3>3. OverOf(m)' \subseteq Calls /\ OverOf(m) \subseteq Calls
      BY DEF OverOf
    <3>4. CASE Model[c] = m
      <4>1. OverOf(m)' = OverOf(m) \cup {c}
        BY <3>2, <3>3, <3>4
      <4> QED
        BY <3>1, <3>4, <4>1
    <3>5. CASE Model[c] # m
      <4>1. OverOf(m)' = OverOf(m)
        BY <3>2, <3>3, <3>5
      <4> QED
        BY <3>1, <3>5, <4>1
    <3> QED
      BY <3>4, <3>5
  <2>2. DownOf(m)' = IF Model[c] = m /\ call[c].status \in Cooled
                     THEN DownOf(m) \cup {c} ELSE DownOf(m)
    <3>1. \A d \in OverOf(m)' : d \in Calls /\ call'[d].status = call[d].status
      BY <1>2 DEF OverOf
    <3>2. CASE Model[c] = m
      BY <2>1, <3>1, <3>2 DEF DownOf
    <3>3. CASE Model[c] # m
      BY <2>1, <3>1, <3>3 DEF DownOf
    <3> QED
      BY <3>2, <3>3
  <2>3. IsFiniteSet(DownOf(m)) /\ c \notin DownOf(m)
    <3>1. DownOf(m) \subseteq Calls
      BY DEF DownOf, OverOf
    <3> QED
      BY <2>1, <3>1, FS_Subset, JournalAssumption DEF DownOf
  <2>4. Cardinality(DownOf(m) \cup {c}) = Cardinality(DownOf(m)) + 1
    BY <2>3, FS_AddElement
  <2>5. fails'[m] = CASE Model[c] = m /\ call[c].status = "ok" -> 0
                      [] Model[c] = m /\ call[c].status \in Cooled -> fails[m] + 1
                      [] OTHER -> fails[m]
    BY <1>1, <2>0 DEF Streak, LossInv, StreaksTyped
  <2>6. CASE Model[c] = m /\ call[c].status = "ok"
    BY <1>2, <2>1, <2>6 DEF Counted
  <2>7. CASE Model[c] = m /\ call[c].status \in Cooled
    <3>1. (\A d \in OverOf(m)' : call'[d].status # "ok") => \A d \in OverOf(m) : call[d].status # "ok"
      BY <1>2, <2>1 DEF OverOf
    <3> QED
      BY <2>2, <2>4, <2>5, <2>7, <3>1 DEF LossInv, Counted
  <2>8. CASE Model[c] # m \/ call[c].status \notin Cooled \cup {"ok"}
    <3>1. (\A d \in OverOf(m)' : call'[d].status # "ok") => \A d \in OverOf(m) : call[d].status # "ok"
      BY <1>2, <2>1 DEF OverOf
    <3> QED
      BY <2>2, <2>5, <2>8, <3>1 DEF LossInv, Counted
  <2> QED
    BY <2>6, <2>7, <2>8
<1> QED
  BY <1>3, <1>4 DEF LossInv

(* A restart forgets the failures and the calls they were of. *)
LEMMA RestartCounts ==
  ASSUME LossInv, Restart
  PROVE  LossInv'
<1>1. /\ now' = now /\ fails' = [m \in Models |-> 0]
      /\ call' = [c \in Calls |-> CASE call[c].at = "over" -> [call[c] EXCEPT !.at = "past"]
                                    [] call[c].at = "record" -> Lost
                                    [] OTHER -> call[c]]
  BY DEF Restart
<1>2. ASSUME NEW c \in Calls
      PROVE  call'[c] \in Settlements /\ call'[c].at \notin {"over", "record"}
  <2>1. call[c] \in Settlements
    BY DEF LossInv, StreaksTyped
  <2> QED
    BY <1>1, <2>1 DEF Settlements, Lost
<1>3. StreaksTyped'
  BY <1>1, <1>2 DEF LossInv, StreaksTyped
<1>4. ASSUME NEW m \in Models
      PROVE  Counted(m)'
  <2>1. DownOf(m)' = {}
    BY <1>2 DEF DownOf, OverOf
  <2> QED
    BY <1>1, <2>1, FS_EmptySet DEF Counted
<1> QED
  BY <1>3, <1>4 DEF LossInv

(* Until then a settlement only waits for its row. *)
LEMMA SettleCounts ==
  ASSUME LossInv, NEW c \in Calls, Settle(c)
  PROVE  LossInv'
<1>1. PICK s \in Statuses, b \in Budgets :
        /\ call' = [call EXCEPT ![c] =
             [at |-> "record", status |-> s, budget |-> IF s \in OverBudget THEN b ELSE 0, ts |-> now]]
  BY DEF Settle
<1>2. call[c].at = "running" /\ now' = now /\ fails' = fails
  BY DEF Settle
<1>3. b \in Nat
  BY JournalAssumption
<1>4. \A d \in Calls : /\ call'[d] \in Settlements
                       /\ d # c => call'[d] = call[d]
                       /\ d = c => call'[d].at = "record" /\ call'[d].status = s
  BY <1>1, <1>2, <1>3 DEF LossInv, StreaksTyped, Settlements
<1>5. StreaksTyped'
  BY <1>1, <1>2, <1>4 DEF LossInv, StreaksTyped
<1>6. ASSUME NEW m \in Models
      PROVE  Counted(m)'
  <2>1. OverOf(m)' = OverOf(m) /\ c \notin OverOf(m)
    BY <1>2, <1>4 DEF OverOf
  <2>2. DownOf(m)' = DownOf(m)
    BY <1>4, <2>1 DEF DownOf, OverOf
  <2> QED
    BY <1>2, <1>4, <2>1, <2>2 DEF LossInv, Counted, OverOf
<1> QED
  BY <1>5, <1>6 DEF LossInv

LEMMA LossStep == LossInv /\ [Next]_vars => LossInv'
<1> SUFFICES ASSUME LossInv, [Next]_vars
             PROVE  LossInv'
  OBVIOUS
<1>1. ASSUME UNCHANGED <<call, fails>>, now' = now \/ now' = now + 1
      PROVE  LossInv'
  BY <1>1 DEF LossInv, StreaksTyped, Counted, OverOf, DownOf
<1>2. ASSUME NEW r \in Raters, RateStep(r) \/ \E c \in Calls : RateResult(r, c) \/ RateTrace(r, c)
      PROVE  LossInv'
  BY <1>1, <1>2 DEF RateStep, WriteRating, Observe, RateResult, RateTrace
<1>3. CASE Learn
  BY <1>1, <1>3 DEF Learn, ReadRows, LoadScores, ApplyBounds
<1>4. CASE Tick
  BY <1>1, <1>4 DEF Tick
<1>5. CASE UNCHANGED vars
  BY <1>1, <1>5 DEF vars
<1> QED
  BY <1>2, <1>3, <1>4, <1>5, RecordCounts, RestartCounts, SettleCounts DEF Next

(* A lost row costs the learner nothing: until its model answers, every cooled *)
(* failure counts (Router._log_call, Optimizer.observe).                       *)
THEOREM LossesAreCounted == JournalSpec => []LossDoesNotBlind
<1>1. JournalSpec => []LossInv
  BY LossInit, LossStep, PTL DEF JournalSpec
<1> QED
  BY <1>1, LossInvIsIt, PTL
=============================================================================
