--------------------------- MODULE SyncBrokerProofs ---------------------------
(***************************************************************************)
(* What a close of the synchronous broker leaves, for any number of        *)
(* threads and streams.                                                    *)
(***************************************************************************)
EXTENDS SyncBroker, TLAPS

Aware == {"cancel", "gather", "source", "done"}

(* Where a stream's cleanup stands, and whether the broker still owns it. *)
StreamOK(s) ==
  /\ handle[s].at = "unmade" => handle[s] = Unmade /\ s \notin kept
  /\ handle[s].at = "closed" <=> handle[s].cleanup \in Aware
  /\ s \in owned <=> handle[s].at # "unmade" /\ handle[s].cleanup # "done"
  /\ handle[s].cleanup \in {"source", "done"} => handle[s].active = Nobody
  /\ handle[s].cleanup = "gather" => handle[s].active # Nobody
  /\ handle[s].active # Nobody =>
       /\ At(handle[s].active, "pull", "running")
       /\ call[handle[s].active].on = s

(* What a thread waits for. *)
ThreadOK(t) ==
  /\ call[t].op = "none" => call[t] = Idle
  /\ call[t].op \in {"open", "pull", "close"} => call[t].on \in Streams
  /\ call[t].op \in {"ask", "shutdown"} => call[t].on = Nobody
  /\ call[t].op # "none" => call[t].at # "idle"
  /\ call[t].at = "ended" => call[t].op = "shutdown"
  /\ call[t].op = "open" =>
       /\ call[t].at = "posting" /\ handle[call[t].on].at = "unmade"
       /\ \A u \in Threads : call[u].on = call[t].on => u = t
  /\ call[t].op \in {"pull", "close"} => handle[call[t].on].at # "unmade"
  /\ At(t, "pull", "running") => handle[call[t].on].active = t
  /\ At(t, "close", "running") => handle[call[t].on].cleanup \in Aware \ {"done"}

(* There is one teardown, and it goes forward. *)
TeardownOK ==
  /\ finalizer \in {"armed", "posted"} => closing = "open"
  /\ finalizer = "armed" => \A t \in Threads : call[t].op # "shutdown"
  /\ \A t \in Threads : call[t].op = "shutdown" =>
       /\ finalizer = "detached"
       /\ \A u \in Threads : call[u].op = "shutdown" => u = t
       /\ call[t].at \in {"posting", "posted"} => closing = "open"
       /\ call[t].at = "ended" => closing = "ended"
  /\ loop # "running" => closing = "ended"

(* What the broker found when it closed is being settled, then is settled. *)
FoundIsSettled ==
  /\ closing = "settling" => \A s \in owned : handle[s].late \/ handle[s].at = "closed"
  /\ closing = "ended" => \A s \in owned : handle[s].late

SettleInv ==
  /\ SyncBrokerTypeOK
  /\ \A s \in Streams : StreamOK(s)
  /\ \A t \in Threads : ThreadOK(t)
  /\ TeardownOK
  /\ FoundIsSettled

-----------------------------------------------------------------------------
LEMMA SettleInit == Init => SettleInv
BY SyncAssumption
   DEF Init, SettleInv, SyncBrokerTypeOK, StreamOK, ThreadOK, TeardownOK, FoundIsSettled, Idle,
       Unmade, Aware, At

Calls == [op : {"none", "open", "pull", "ask", "close", "shutdown"},
          on : Streams \cup {Nobody},
          at : {"idle", "posting", "posted", "running", "ended"}]
Handles == [at : {"unmade", "open", "closed"}, late : BOOLEAN, armed : BOOLEAN,
            active : Threads \cup {Nobody},
            cleanup : {"none", "posted", "cancel", "gather", "source", "done"}]

LEMMA HandleTyped ==
  ASSUME NEW h \in Handles
  PROVE  /\ \A x \in BOOLEAN : [h EXCEPT !.armed = x] \in Handles
         /\ \A x \in {"none", "posted", "cancel", "gather", "source", "done"} :
              [h EXCEPT !.armed = FALSE, !.cleanup = x] \in Handles
         /\ \A x \in BOOLEAN : [h EXCEPT !.at = "open", !.late = x, !.armed = TRUE] \in Handles
         /\ Closing(h) \in Handles
BY DEF Handles, Closing

(* Every step keeps the types. *)
LEMMA SettleTypes == SyncBrokerTypeOK /\ [Next]_vars => SyncBrokerTypeOK'
<1> SUFFICES ASSUME SyncBrokerTypeOK, [Next]_vars
             PROVE  SyncBrokerTypeOK'
  OBVIOUS
<1> USE SyncAssumption DEF SyncBrokerTypeOK, hostVars, ownerVars, Does, Moves, Returns, At, Idle
<1>0. handle \in [Streams -> Handles] /\ call \in [Threads -> Calls]
  BY DEF Handles, Calls
<1>1. ASSUME NEW t \in Threads, NEW s \in Streams, Open(t, s)
      PROVE  SyncBrokerTypeOK'
  BY <1>1 DEF Open
<1>2. ASSUME NEW t \in Threads, NEW s \in Streams, Pull(t, s)
      PROVE  SyncBrokerTypeOK'
  BY <1>2 DEF Pull
<1>3. ASSUME NEW t \in Threads, NEW s \in Streams, CloseStream(t, s)
      PROVE  SyncBrokerTypeOK'
  <2>1. handle' \in [Streams -> Handles]
    BY <1>3, <1>0, HandleTyped DEF CloseStream
  <2>2. call' \in [Threads -> Calls]
    BY <1>3 DEF CloseStream, Calls
  <2> QED
    BY <1>3, <2>1, <2>2 DEF CloseStream, Handles, Calls
<1>4. ASSUME NEW t \in Threads, Owned(t)
      PROVE  SyncBrokerTypeOK'
  <2> DEFINE s == call[t].on
  <2>1. s \in Streams \cup {Nobody}
    OBVIOUS
  <2>2. handle' = [handle EXCEPT ![s] =
                    [handle[s] EXCEPT !.at = "open", !.late = closing \notin {"open", "asked"},
                                      !.armed = TRUE]]
    BY <1>4 DEF Owned
  <2>3. handle' \in [Streams -> Handles]
    BY <1>0, <2>2, HandleTyped
  <2> QED
    BY <1>4, <2>1, <2>3 DEF Owned, Handles
<1>5. ASSUME NEW t \in Threads, Ask(t)
      PROVE  SyncBrokerTypeOK'
  BY <1>5 DEF Ask
<1>6. ASSUME NEW t \in Threads, CloseBroker(t)
      PROVE  SyncBrokerTypeOK'
  BY <1>6 DEF CloseBroker
<1>7. ASSUME NEW t \in Threads, Post(t)
      PROVE  SyncBrokerTypeOK'
  BY <1>7 DEF Post
<1>8. ASSUME NEW t \in Threads, StopLoop(t)
      PROVE  SyncBrokerTypeOK'
  BY <1>8 DEF StopLoop
<1>9. ASSUME NEW t \in Threads, Join(t)
      PROVE  SyncBrokerTypeOK'
  BY <1>9 DEF Join
<1>10. ASSUME NEW t \in Threads, TakeLock(t)
      PROVE  SyncBrokerTypeOK'
  BY <1>10 DEF TakeLock
<1>11. ASSUME NEW t \in Threads, FreeLock(t)
      PROVE  SyncBrokerTypeOK'
  BY <1>11 DEF FreeLock
<1>12. ASSUME NEW t \in Threads, Collect(t)
      PROVE  SyncBrokerTypeOK'
  BY <1>12 DEF Collect
<1>13. ASSUME NEW t \in Threads, Start(t)
      PROVE  SyncBrokerTypeOK'
  <2>1. handle' \in [Streams -> Handles]
    <3> DEFINE s == call[t].on
    <3>1. \/ handle' = handle
          \/ handle' = [handle EXCEPT ![s] = [handle[s] EXCEPT !.active = t]]
          \/ handle' = [handle EXCEPT ![s] = Closing(handle[s])]
      BY <1>13 DEF Start
    <3>2. s \in Streams => handle[s] \in Handles
      BY <1>0
    <3>3. s \in Streams => Closing(handle[s]) \in Handles
      BY <3>2, HandleTyped
    <3>4. s \in Streams => [handle[s] EXCEPT !.active = t] \in Handles
      BY <3>2 DEF Handles
    <3> QED
      BY <1>0, <3>1, <3>3, <3>4
  <2>2. call' \in [Threads -> Calls]
    BY <1>0, <1>13 DEF Start, Calls
  <2>3. closing' \in {"open", "asked", "settling", "ended"} /\ UNCHANGED <<loop, hostVars, owned, lock>>
    BY <1>13 DEF Start
  <2> QED
    BY <2>1, <2>2, <2>3 DEF Handles, Calls
<1>14. ASSUME NEW t \in Threads, Delivered(t)
      PROVE  SyncBrokerTypeOK'
  BY <1>14 DEF Delivered
<1>15. ASSUME NEW t \in Threads, Answered(t)
      PROVE  SyncBrokerTypeOK'
  BY <1>15 DEF Answered
<1>16. ASSUME NEW s \in Streams, Cancel(s)
      PROVE  SyncBrokerTypeOK'
  BY <1>16 DEF Cancel
<1>17. ASSUME NEW s \in Streams, Cancelled(s)
      PROVE  SyncBrokerTypeOK'
  BY <1>17 DEF Cancelled
<1>18. ASSUME NEW s \in Streams, Settled(s)
      PROVE  SyncBrokerTypeOK'
  BY <1>18 DEF Settled
<1>19. ASSUME NEW s \in Streams, Drop(s)
      PROVE  SyncBrokerTypeOK'
  <2>1. handle' \in [Streams -> Handles]
    BY <1>19, <1>0, HandleTyped DEF Drop
  <2> QED
    BY <1>19, <2>1 DEF Drop, Handles
<1>20. ASSUME NEW s \in Streams, Abandoned(s)
      PROVE  SyncBrokerTypeOK'
  <2>1. handle' \in [Streams -> Handles]
    BY <1>20, <1>0, HandleTyped DEF Abandoned
  <2> QED
    BY <1>20, <2>1 DEF Abandoned, Handles
<1>21. ASSUME CloseOwned
      PROVE  SyncBrokerTypeOK'
  <2>1. handle' \in [Streams -> Handles]
    BY <1>21, <1>0, HandleTyped DEF CloseOwned
  <2> QED
    BY <1>21, <2>1 DEF CloseOwned, Handles
<1>22. ASSUME ClosePorts
      PROVE  SyncBrokerTypeOK'
  BY <1>22 DEF ClosePorts
<1>23. ASSUME TeardownEnds
      PROVE  SyncBrokerTypeOK'
  BY <1>23 DEF TeardownEnds
<1>24. ASSUME LoopEnds
      PROVE  SyncBrokerTypeOK'
  BY <1>24 DEF LoopEnds
<1>25. ASSUME TeardownStarts
      PROVE  SyncBrokerTypeOK'
  BY <1>25 DEF TeardownStarts
<1>26. ASSUME DropBroker
      PROVE  SyncBrokerTypeOK'
  BY <1>26 DEF DropBroker
<1>27. ASSUME UNCHANGED vars
      PROVE  SyncBrokerTypeOK'
  BY <1>27 DEF vars
<1> QED
  BY <1>1, <1>2, <1>3, <1>4, <1>5, <1>6, <1>7, <1>8, <1>9, <1>10, <1>11, <1>12, <1>13, <1>14, <1>15, <1>16, <1>17, <1>18, <1>19, <1>20, <1>21, <1>22, <1>23, <1>24, <1>25, <1>26, <1>27 DEF Next, ThreadSteps, StreamSteps

-----------------------------------------------------------------------------
(* What the invariant says, one part after the other. *)

StreamsOK == \A s \in Streams : StreamOK(s)
ThreadsOK == \A t \in Threads : ThreadOK(t)

(* A thread that turns to something else, and neither leaves a pull nor enters one, *)
(* disturbs nobody, if what it goes to is in order itself.                          *)
LEMMA CallAside ==
  ASSUME SyncBrokerTypeOK, StreamsOK, ThreadsOK, UNCHANGED <<handle, owned, kept>>,
         NEW t \in Threads, NEW r, call' = [call EXCEPT ![t] = r],
         ~At(t, "pull", "running"),
         \A u \in Threads \ {t} : call[u].op = "open" => call[u].on # r.on,
         ThreadOK(t)'
  PROVE  StreamsOK' /\ ThreadsOK'
<1>1. StreamsOK'
  BY DEF SyncBrokerTypeOK, StreamsOK, StreamOK, At
<1>2. ASSUME NEW u \in Threads, u # t
      PROVE  ThreadOK(u)'
  <2>1. call'[u] = call[u] /\ call'[t] = r
    BY <1>2 DEF SyncBrokerTypeOK
  <2>2. \A v \in Threads \ {t} : call'[v] = call[v]
    BY DEF SyncBrokerTypeOK
  <2> QED
    BY <1>2, <2>1, <2>2 DEF ThreadsOK, ThreadOK, At
<1> QED
  BY <1>1, <1>2 DEF ThreadsOK

(* So does it leave the teardown alone, unless it begins or ends one. *)
LEMMA TeardownAside ==
  ASSUME SyncBrokerTypeOK, TeardownOK, FoundIsSettled,
         UNCHANGED <<finalizer, closing, loop, handle, owned>>,
         NEW t \in Threads, NEW r, call' = [call EXCEPT ![t] = r],
         r.op = "shutdown" => call[t].op = "shutdown",
         r.op = "shutdown" /\ r.at \in {"posting", "posted"} => call[t].at \in {"posting", "posted"},
         r.op = "shutdown" /\ r.at = "ended" => closing = "ended"
  PROVE  TeardownOK' /\ FoundIsSettled'
<1>1. \A u \in Threads : call'[u] = IF u = t THEN r ELSE call[u]
  BY DEF SyncBrokerTypeOK
<1>2. FoundIsSettled'
  BY DEF FoundIsSettled
<1>3. TeardownOK'
  BY <1>1 DEF TeardownOK
<1> QED
  BY <1>2, <1>3

(* A step that leaves threads and streams alone keeps both parts. *)
LEMMA AllAside ==
  ASSUME StreamsOK, ThreadsOK, UNCHANGED <<call, handle, owned, kept>>
  PROVE  StreamsOK' /\ ThreadsOK'
BY DEF StreamsOK, ThreadsOK, StreamOK, ThreadOK, At

(* What a thread begins, posts and returns from on its own. *)
LEMMA HostSteps ==
  ASSUME SettleInv, SyncBrokerTypeOK', NEW t \in Threads,
         \/ \E s \in Streams : Open(t, s) \/ Pull(t, s)
         \/ Ask(t) \/ Post(t) \/ Join(t) \/ Answered(t)
  PROVE  SettleInv'
<1>0. SyncBrokerTypeOK /\ StreamsOK /\ ThreadsOK /\ TeardownOK /\ FoundIsSettled
  BY DEF SettleInv, StreamsOK, ThreadsOK
<1> DEFINE To(op, on, at) == [op |-> op, on |-> on, at |-> at]
<1>1. ASSUME NEW s \in Streams, Open(t, s)
      PROVE  SettleInv'
  <2> DEFINE r == To("open", s, "posting")
  <2>1. /\ call' = [call EXCEPT ![t] = r]
        /\ UNCHANGED <<handle, owned, kept, finalizer, closing, loop>>
        /\ ~At(t, "pull", "running")
    BY <1>0, <1>1 DEF Open, Does, Free, At, hostVars, ownerVars
  <2>2. call'[t] = r
    BY <1>0, <2>1 DEF SyncBrokerTypeOK
  <2>3. \A u \in Threads \ {t} : call[u].op = "open" => call[u].on # r.on
    BY <1>0, <1>1, SyncAssumption DEF Open, Does, Free, At, hostVars, ownerVars, ThreadsOK, ThreadOK
  <2>4. ThreadOK(t)'
    BY <1>0, <1>1, <2>1, <2>2, SyncAssumption DEF Open, Does, Free, At, hostVars, ownerVars, ThreadsOK, ThreadOK, SyncBrokerTypeOK
  <2>5. StreamsOK' /\ ThreadsOK'
    BY <1>0, <2>1, <2>3, <2>4, CallAside
  <2>6. /\ r.op = "shutdown" => call[t].op = "shutdown"
        /\ r.op = "shutdown" /\ r.at \in {"posting", "posted"} => call[t].at \in {"posting", "posted"}
        /\ r.op = "shutdown" /\ r.at = "ended" => closing = "ended"
    BY <1>0, <1>1 DEF Open, Does, Free, At, hostVars, ownerVars, SyncBrokerTypeOK
  <2>7. TeardownOK' /\ FoundIsSettled'
    BY <1>0, <2>1, <2>6, TeardownAside
  <2> QED
    BY <2>5, <2>7 DEF SettleInv, StreamsOK, ThreadsOK
<1>2. ASSUME NEW s \in Streams, Pull(t, s)
      PROVE  SettleInv'
  <2> DEFINE r == To("pull", s, "posting")
  <2>1. /\ call' = [call EXCEPT ![t] = r]
        /\ UNCHANGED <<handle, owned, kept, finalizer, closing, loop>>
        /\ ~At(t, "pull", "running")
    BY <1>0, <1>2 DEF Pull, Does, Free, At, hostVars, ownerVars
  <2>2. call'[t] = r
    BY <1>0, <2>1 DEF SyncBrokerTypeOK
  <2>3. \A u \in Threads \ {t} : call[u].op = "open" => call[u].on # r.on
    BY <1>0, <1>2, SyncAssumption DEF Pull, Does, Free, At, hostVars, ownerVars, ThreadsOK, ThreadOK
  <2>4. ThreadOK(t)'
    BY <1>0, <1>2, <2>1, <2>2, SyncAssumption DEF Pull, Does, Free, At, hostVars, ownerVars, ThreadsOK, ThreadOK, SyncBrokerTypeOK
  <2>5. StreamsOK' /\ ThreadsOK'
    BY <1>0, <2>1, <2>3, <2>4, CallAside
  <2>6. /\ r.op = "shutdown" => call[t].op = "shutdown"
        /\ r.op = "shutdown" /\ r.at \in {"posting", "posted"} => call[t].at \in {"posting", "posted"}
        /\ r.op = "shutdown" /\ r.at = "ended" => closing = "ended"
    BY <1>0, <1>2 DEF Pull, Does, Free, At, hostVars, ownerVars, SyncBrokerTypeOK
  <2>7. TeardownOK' /\ FoundIsSettled'
    BY <1>0, <2>1, <2>6, TeardownAside
  <2> QED
    BY <2>5, <2>7 DEF SettleInv, StreamsOK, ThreadsOK
<1>3. ASSUME Ask(t)
      PROVE  SettleInv'
  <2> DEFINE r == To("ask", Nobody, "posting")
  <2>1. /\ call' = [call EXCEPT ![t] = r]
        /\ UNCHANGED <<handle, owned, kept, finalizer, closing, loop>>
        /\ ~At(t, "pull", "running")
    BY <1>0, <1>3 DEF Ask, Does, Free, At, hostVars, ownerVars
  <2>2. call'[t] = r
    BY <1>0, <2>1 DEF SyncBrokerTypeOK
  <2>3. \A u \in Threads \ {t} : call[u].op = "open" => call[u].on # r.on
    BY <1>0, <1>3, SyncAssumption DEF Ask, Does, Free, At, hostVars, ownerVars, ThreadsOK, ThreadOK
  <2>4. ThreadOK(t)'
    BY <1>0, <1>3, <2>1, <2>2, SyncAssumption DEF Ask, Does, Free, At, hostVars, ownerVars, ThreadsOK, ThreadOK, SyncBrokerTypeOK
  <2>5. StreamsOK' /\ ThreadsOK'
    BY <1>0, <2>1, <2>3, <2>4, CallAside
  <2>6. /\ r.op = "shutdown" => call[t].op = "shutdown"
        /\ r.op = "shutdown" /\ r.at \in {"posting", "posted"} => call[t].at \in {"posting", "posted"}
        /\ r.op = "shutdown" /\ r.at = "ended" => closing = "ended"
    BY <1>0, <1>3 DEF Ask, Does, Free, At, hostVars, ownerVars, SyncBrokerTypeOK
  <2>7. TeardownOK' /\ FoundIsSettled'
    BY <1>0, <2>1, <2>6, TeardownAside
  <2> QED
    BY <2>5, <2>7 DEF SettleInv, StreamsOK, ThreadsOK
<1>4. ASSUME Post(t), loop # "closed"
      PROVE  SettleInv'
  <2> DEFINE r == [call[t] EXCEPT !.at = "posted"]
  <2>1. /\ call' = [call EXCEPT ![t] = r]
        /\ UNCHANGED <<handle, owned, kept, finalizer, closing, loop>>
        /\ ~At(t, "pull", "running")
    BY <1>0, <1>4 DEF Post, Moves, At, hostVars, ownerVars
  <2>2. call'[t] = r
    BY <1>0, <2>1 DEF SyncBrokerTypeOK
  <2>3. \A u \in Threads \ {t} : call[u].op = "open" => call[u].on # r.on
    BY <1>0, <1>4, SyncAssumption DEF Post, Moves, At, hostVars, ownerVars, ThreadsOK, ThreadOK
  <2>4. ThreadOK(t)'
    <3>1. call'[t].op = call[t].op /\ call'[t].on = call[t].on /\ call'[t].at = "posted"
      BY <1>0, <2>2 DEF SyncBrokerTypeOK
    <3>2. \A u \in Threads \ {t} : call'[u] = call[u]
      BY <1>0, <2>1 DEF SyncBrokerTypeOK
    <3> QED
      BY <1>0, <1>4, <2>1, <3>1, <3>2 DEF Post, At, Idle, ThreadsOK, ThreadOK
  <2>5. StreamsOK' /\ ThreadsOK'
    BY <1>0, <2>1, <2>3, <2>4, CallAside
  <2>6. /\ r.op = "shutdown" => call[t].op = "shutdown"
        /\ r.op = "shutdown" /\ r.at \in {"posting", "posted"} => call[t].at \in {"posting", "posted"}
        /\ r.op = "shutdown" /\ r.at = "ended" => closing = "ended"
    BY <1>0, <1>4 DEF Post, Moves, At, hostVars, ownerVars, SyncBrokerTypeOK
  <2>7. TeardownOK' /\ FoundIsSettled'
    BY <1>0, <2>1, <2>6, TeardownAside
  <2> QED
    BY <2>5, <2>7 DEF SettleInv, StreamsOK, ThreadsOK
<1>5. ASSUME Post(t), loop = "closed"
      PROVE  SettleInv'
  <2> DEFINE r == Idle
  <2>1. /\ call' = [call EXCEPT ![t] = r]
        /\ UNCHANGED <<handle, owned, kept, finalizer, closing, loop>>
        /\ ~At(t, "pull", "running")
    BY <1>0, <1>5 DEF Post, Returns, Idle, At, hostVars, ownerVars
  <2>2. call'[t] = r
    BY <1>0, <2>1 DEF SyncBrokerTypeOK
  <2>3. \A u \in Threads \ {t} : call[u].op = "open" => call[u].on # r.on
    BY <1>0, <1>5, SyncAssumption DEF Post, Returns, Idle, At, hostVars, ownerVars, ThreadsOK, ThreadOK
  <2>4. ThreadOK(t)'
    BY <1>0, <1>5, <2>1, <2>2, SyncAssumption DEF Post, Returns, Idle, At, hostVars, ownerVars, ThreadsOK, ThreadOK, SyncBrokerTypeOK
  <2>5. StreamsOK' /\ ThreadsOK'
    BY <1>0, <2>1, <2>3, <2>4, CallAside
  <2>6. /\ r.op = "shutdown" => call[t].op = "shutdown"
        /\ r.op = "shutdown" /\ r.at \in {"posting", "posted"} => call[t].at \in {"posting", "posted"}
        /\ r.op = "shutdown" /\ r.at = "ended" => closing = "ended"
    BY <1>0, <1>5 DEF Post, Returns, Idle, At, hostVars, ownerVars, SyncBrokerTypeOK
  <2>7. TeardownOK' /\ FoundIsSettled'
    BY <1>0, <2>1, <2>6, TeardownAside
  <2> QED
    BY <2>5, <2>7 DEF SettleInv, StreamsOK, ThreadsOK
<1>6. ASSUME Join(t) \/ Answered(t)
      PROVE  SettleInv'
  <2> DEFINE r == Idle
  <2>1. /\ call' = [call EXCEPT ![t] = r]
        /\ UNCHANGED <<handle, owned, kept, finalizer, closing, loop>>
        /\ ~At(t, "pull", "running")
    BY <1>0, <1>6 DEF Join, Answered, Returns, Idle, At, hostVars, ownerVars
  <2>2. call'[t] = r
    BY <1>0, <2>1 DEF SyncBrokerTypeOK
  <2>3. \A u \in Threads \ {t} : call[u].op = "open" => call[u].on # r.on
    BY <1>0, <1>6, SyncAssumption DEF Join, Answered, Returns, Idle, At, hostVars, ownerVars, ThreadsOK, ThreadOK
  <2>4. ThreadOK(t)'
    BY <1>0, <1>6, <2>1, <2>2, SyncAssumption DEF Join, Answered, Returns, Idle, At, hostVars, ownerVars, ThreadsOK, ThreadOK, SyncBrokerTypeOK
  <2>5. StreamsOK' /\ ThreadsOK'
    BY <1>0, <2>1, <2>3, <2>4, CallAside
  <2>6. /\ r.op = "shutdown" => call[t].op = "shutdown"
        /\ r.op = "shutdown" /\ r.at \in {"posting", "posted"} => call[t].at \in {"posting", "posted"}
        /\ r.op = "shutdown" /\ r.at = "ended" => closing = "ended"
    BY <1>0, <1>6 DEF Join, Answered, Returns, Idle, At, hostVars, ownerVars, SyncBrokerTypeOK
  <2>7. TeardownOK' /\ FoundIsSettled'
    BY <1>0, <2>1, <2>6, TeardownAside
  <2> QED
    BY <2>5, <2>7 DEF SettleInv, StreamsOK, ThreadsOK
<1> QED
  BY <1>1, <1>2, <1>3, <1>4, <1>5, <1>6

(* A teardown is asked for, and runs. *)
LEMMA TeardownSteps ==
  ASSUME SettleInv, SyncBrokerTypeOK',
         \/ \E t \in Threads : CloseBroker(t) \/ StopLoop(t) \/ Collect(t)
         \/ ClosePorts \/ TeardownEnds \/ LoopEnds \/ TeardownStarts
  PROVE  SettleInv'
<1>0. SyncBrokerTypeOK /\ StreamsOK /\ ThreadsOK /\ TeardownOK /\ FoundIsSettled
  BY DEF SettleInv, StreamsOK, ThreadsOK
<1>1. ASSUME NEW t \in Threads, CloseBroker(t)
      PROVE  SettleInv'
  <2> DEFINE r == [op |-> "shutdown", on |-> Nobody, at |-> "posting"]
  <2>1. /\ call' = [call EXCEPT ![t] = r]
        /\ UNCHANGED <<handle, owned, kept, closing, loop>>
        /\ call[t].at = "idle" /\ finalizer = "armed" /\ finalizer' = "detached"
    BY <1>1 DEF CloseBroker, Free, Does, ownerVars
  <2>2. \A u \in Threads : call'[u] = IF u = t THEN r ELSE call[u]
    BY <1>0, <2>1 DEF SyncBrokerTypeOK
  <2>3. \A u \in Threads \ {t} : call[u].op = "open" => call[u].on # r.on
    BY <1>0, SyncAssumption DEF ThreadsOK, ThreadOK
  <2>4. ThreadOK(t)'
    BY <2>2 DEF ThreadOK, At
  <2>5. StreamsOK' /\ ThreadsOK'
    BY <1>0, <2>1, <2>3, <2>4, CallAside DEF At
  <2>6. TeardownOK'
    BY <1>0, <2>1, <2>2 DEF TeardownOK
  <2> QED
    BY <1>0, <2>1, <2>5, <2>6 DEF SettleInv, StreamsOK, ThreadsOK, FoundIsSettled
<1>2. ASSUME TeardownEnds
      PROVE  SettleInv'
  <2>1. CASE UNCHANGED call
    BY <1>0, <1>2, <2>1, AllAside
       DEF TeardownEnds, SettleInv, StreamsOK, ThreadsOK, TeardownOK, FoundIsSettled, hostVars, ownerVars
  <2>2. ASSUME NEW t \in Threads, At(t, "shutdown", "running"), Moves(t, "ended"), UNCHANGED loop
        PROVE  SettleInv'
    <3> DEFINE r == [call[t] EXCEPT !.at = "ended"]
    <3>1. /\ call' = [call EXCEPT ![t] = r]
          /\ UNCHANGED <<handle, owned, kept, finalizer, closing, loop>>
          /\ closing = "ended"
      BY <1>2, <2>2 DEF TeardownEnds, Moves, hostVars, ownerVars
    <3>2. r.op = "shutdown" /\ r.on = Nobody /\ r.at = "ended"
      BY <1>0, <2>2 DEF At, SyncBrokerTypeOK, ThreadsOK, ThreadOK
    <3>3. \A u \in Threads \ {t} : call[u].op = "open" => call[u].on # r.on
      BY <1>0, <3>2, SyncAssumption DEF ThreadsOK, ThreadOK
    <3>4. ThreadOK(t)'
      <4>1. call'[t] = r
        BY <1>0, <3>1 DEF SyncBrokerTypeOK
      <4> QED
        BY <3>2, <4>1 DEF ThreadOK, At
    <3>5. StreamsOK' /\ ThreadsOK'
      BY <1>0, <2>2, <3>1, <3>3, <3>4, CallAside DEF At
    <3>6. TeardownOK' /\ FoundIsSettled'
      BY <1>0, <2>2, <3>1, <3>2, TeardownAside DEF At
    <3> QED
      BY <3>5, <3>6 DEF SettleInv, StreamsOK, ThreadsOK
  <2> QED
    BY <1>2, <2>1, <2>2 DEF TeardownEnds
<1>3. ASSUME NEW t \in Threads, StopLoop(t)
      PROVE  SettleInv'
  BY <1>0, <1>3, AllAside
     DEF StopLoop, At, SettleInv, StreamsOK, ThreadsOK, TeardownOK, FoundIsSettled, hostVars, ownerVars
<1>4. ASSUME NEW t \in Threads, Collect(t)
      PROVE  SettleInv'
  BY <1>0, <1>4, AllAside
     DEF Collect, SettleInv, StreamsOK, ThreadsOK, TeardownOK, FoundIsSettled, ownerVars
<1>5. ASSUME ClosePorts
      PROVE  SettleInv'
  BY <1>0, <1>5, AllAside
     DEF ClosePorts, SettleInv, StreamsOK, ThreadsOK, TeardownOK, FoundIsSettled, hostVars, SyncBrokerTypeOK
<1>6. ASSUME LoopEnds
      PROVE  SettleInv'
  BY <1>0, <1>6, AllAside
     DEF LoopEnds, SettleInv, StreamsOK, ThreadsOK, TeardownOK, FoundIsSettled, hostVars, ownerVars
<1>7. ASSUME TeardownStarts
      PROVE  SettleInv'
  BY <1>0, <1>7, AllAside
     DEF TeardownStarts, SettleInv, StreamsOK, ThreadsOK, TeardownOK, FoundIsSettled
<1> QED
  BY <1>1, <1>2, <1>3, <1>4, <1>5, <1>6, <1>7

(* What a close has found stays so while nothing is added and nothing reopened. *)
LEMMA FoundAside ==
  ASSUME SyncBrokerTypeOK, FoundIsSettled, UNCHANGED closing, NEW s \in Streams,
         owned' \subseteq owned,
         \A x \in Streams \ {s} : handle'[x] = handle[x],
         handle'[s].late = handle[s].late,
         handle[s].at = "closed" => handle'[s].at = "closed"
  PROVE  FoundIsSettled'
<1> SUFFICES ASSUME NEW x \in owned'
             PROVE  /\ closing = "settling" => handle'[x].late \/ handle'[x].at = "closed"
                    /\ closing = "ended" => handle'[x].late
  BY DEF FoundIsSettled
<1>1. x \in owned /\ x \in Streams
  BY DEF SyncBrokerTypeOK
<1>2. CASE x = s
  BY <1>1, <1>2 DEF FoundIsSettled
<1>3. CASE x # s
  BY <1>1, <1>3 DEF FoundIsSettled
<1> QED
  BY <1>2, <1>3

(* A stream is dropped, or its cleanup goes on: no thread is moved. *)
LEMMA CleanupSteps ==
  ASSUME SettleInv, SyncBrokerTypeOK', NEW s \in Streams,
         Cancel(s) \/ Drop(s) \/ Abandoned(s)
  PROVE  SettleInv'
<1>0. SyncBrokerTypeOK /\ StreamsOK /\ ThreadsOK /\ TeardownOK /\ FoundIsSettled
  BY DEF SettleInv, StreamsOK, ThreadsOK
<1>1. UNCHANGED <<call, loop, finalizer, closing, owned>> /\ kept' \subseteq kept
  BY DEF Cancel, Drop, Abandoned, hostVars, ownerVars
<1>2. /\ \A x \in Streams \ {s} : handle'[x] = handle[x]
      /\ handle'[s].late = handle[s].late
      /\ handle'[s].active = handle[s].active
      /\ handle[s].at # "unmade" => handle'[s].at # "unmade"
      /\ handle[s].at = "closed" => handle'[s].at = "closed"
  <2>1. CASE Cancel(s)
    BY <1>0, <2>1 DEF Cancel, SyncBrokerTypeOK
  <2>2. CASE Drop(s)
    BY <1>0, <2>2 DEF Drop, SyncBrokerTypeOK
  <2>3. CASE Abandoned(s)
    BY <1>0, <2>3 DEF Abandoned, Closing, SyncBrokerTypeOK
  <2> QED
    BY <2>1, <2>2, <2>3
<1>3. StreamOK(s)'
  <2>0. StreamOK(s)
    BY <1>0 DEF StreamsOK
  <2>1. CASE Cancel(s)
    <3>1. handle'[s].cleanup = IF handle[s].active = Nobody THEN "source" ELSE "gather"
      BY <1>0, <2>1 DEF Cancel, SyncBrokerTypeOK
    <3>2. handle'[s].at = handle[s].at /\ handle[s].at # "unmade" /\ handle[s].cleanup = "cancel"
      BY <1>0, <2>0, <2>1 DEF Cancel, SyncBrokerTypeOK, StreamOK, Unmade
    <3> QED
      BY <1>1, <1>2, <2>0, <3>1, <3>2 DEF StreamOK, At, Aware
  <2>2. CASE Drop(s)
    <3>1. /\ handle'[s].cleanup \in {handle[s].cleanup, "posted"}
          /\ handle'[s].cleanup # handle[s].cleanup => handle[s].cleanup = "none"
      BY <1>0, <2>2 DEF Drop, SyncBrokerTypeOK
    <3>2. handle'[s].at = handle[s].at /\ handle[s].at # "unmade"
      BY <1>0, <2>0, <2>2 DEF Drop, SyncBrokerTypeOK, StreamOK
    <3> QED
      BY <1>1, <1>2, <2>0, <3>1, <3>2 DEF StreamOK, At, Aware
  <2>3. CASE Abandoned(s)
    <3>1. handle'[s].cleanup = "cancel" /\ handle'[s].at = "closed"
      BY <1>0, <2>3 DEF Abandoned, Closing, SyncBrokerTypeOK
    <3>2. handle[s].at # "unmade" /\ handle[s].cleanup = "posted"
      BY <2>0, <2>3 DEF Abandoned, StreamOK, Unmade
    <3> QED
      BY <1>1, <1>2, <2>0, <3>1, <3>2 DEF StreamOK, At, Aware
  <2> QED
    BY <2>1, <2>2, <2>3
<1>4. StreamsOK'
  BY <1>0, <1>1, <1>2, <1>3 DEF StreamsOK, StreamOK, At
<1>5. handle[s].cleanup \in Aware \ {"done"} => handle'[s].cleanup \in Aware \ {"done"}
  <2>1. CASE Cancel(s)
    BY <1>0, <2>1 DEF Cancel, SyncBrokerTypeOK, Aware
  <2>2. CASE Drop(s)
    BY <1>0, <2>2 DEF Drop, SyncBrokerTypeOK, Aware
  <2>3. CASE Abandoned(s)
    BY <2>3 DEF Abandoned, Aware
  <2> QED
    BY <2>1, <2>2, <2>3
<1>6. handle[s].at # "unmade" /\ handle'[s].at # "unmade"
  BY <1>0, <1>2 DEF Cancel, Drop, Abandoned, StreamsOK, StreamOK, Unmade
<1>7. ThreadsOK'
  <2> SUFFICES ASSUME NEW t \in Threads
               PROVE  ThreadOK(t)'
    BY DEF ThreadsOK
  <2>1. ThreadOK(t)
    BY <1>0 DEF ThreadsOK
  <2>2. CASE call[t].on = s
    BY <1>1, <1>2, <1>5, <1>6, <2>1, <2>2 DEF ThreadOK, At
  <2>3. CASE call[t].on # s
    BY <1>1, <1>2, <2>1, <2>3 DEF ThreadOK, At
  <2> QED
    BY <2>2, <2>3
<1>8. TeardownOK' /\ FoundIsSettled'
  <2>1. TeardownOK'
    BY <1>0, <1>1 DEF TeardownOK
  <2> QED
    BY <1>0, <1>1, <1>2, <2>1, FoundAside
<1> QED
  BY <1>4, <1>7, <1>8 DEF SettleInv, StreamsOK, ThreadsOK

(* The broker closes what it owns at that moment. *)
LEMMA OwnedIsClosed ==
  ASSUME SettleInv, SyncBrokerTypeOK', CloseOwned
  PROVE  SettleInv'
<1>0. SyncBrokerTypeOK /\ StreamsOK /\ ThreadsOK /\ TeardownOK /\ FoundIsSettled
  BY DEF SettleInv, StreamsOK, ThreadsOK
<1>1. UNCHANGED <<call, loop, finalizer, kept, owned>> /\ closing = "asked" /\ closing' = "settling"
  BY DEF CloseOwned, hostVars
<1>2. ASSUME NEW s \in Streams
      PROVE  /\ handle'[s].late = handle[s].late
             /\ handle'[s].active = handle[s].active
             /\ s \in owned => handle'[s].at = "closed" /\ handle'[s].cleanup \in Aware \ {"done"}
             /\ handle'[s] # handle[s] =>
                  s \in owned /\ handle[s].cleanup \in {"none", "posted"} /\ handle'[s].cleanup = "cancel"
  <2>1. handle'[s] = IF s \in owned THEN Closing(handle[s]) ELSE handle[s]
    BY DEF CloseOwned
  <2>2. StreamOK(s) /\ handle[s] \in Handles
    BY <1>0 DEF StreamsOK, SyncBrokerTypeOK, Handles
  <2> QED
    BY <2>1, <2>2 DEF Closing, StreamOK, Handles, Aware
<1>3. StreamsOK'
  <2> SUFFICES ASSUME NEW s \in Streams
               PROVE  StreamOK(s)'
    BY DEF StreamsOK
  <2>1. StreamOK(s)
    BY <1>0 DEF StreamsOK
  <2>2. CASE handle'[s] = handle[s]
    BY <1>1, <2>1, <2>2 DEF StreamOK, At
  <2>3. CASE handle'[s] # handle[s]
    BY <1>1, <1>2, <2>1, <2>3 DEF StreamOK, At, Aware
  <2> QED
    BY <2>2, <2>3
<1>4. ThreadsOK'
  <2>1. \A s \in Streams : handle'[s].at = "unmade" <=> handle[s].at = "unmade"
    BY <1>0, <1>1, <1>2 DEF StreamsOK, StreamOK
  <2>2. \A s \in Streams : handle[s].cleanup \in Aware \ {"done"} => handle'[s].cleanup \in Aware \ {"done"}
    BY <1>2
  <2> QED
    BY <1>0, <1>1, <1>2, <2>1, <2>2 DEF ThreadsOK, ThreadOK, At
<1>5. TeardownOK' /\ FoundIsSettled'
  BY <1>0, <1>1, <1>2 DEF TeardownOK, FoundIsSettled, SyncBrokerTypeOK
<1> QED
  BY <1>3, <1>4, <1>5 DEF SettleInv, StreamsOK, ThreadsOK

(* One thread and one stream move together: what is left to show of the others. *)
LEMMA PairAside ==
  ASSUME SyncBrokerTypeOK, StreamsOK, ThreadsOK, NEW t \in Threads, NEW s \in Streams,
         \A u \in Threads \ {t} : call'[u] = call[u],
         \A x \in Streams \ {s} : handle'[x] = handle[x],
         owned' \ {s} = owned \ {s}, kept' \ {s} = kept \ {s},
         At(t, "pull", "running") => call[t].on = s,
         call[t].op = "open" => call[t].on = s,
         call'[t].on \in {call[t].on, s, Nobody},
         StreamOK(s)', ThreadOK(t)',
         \A u \in Threads \ {t} : call[u].on = s => ThreadOK(u)'
  PROVE  StreamsOK' /\ ThreadsOK'
<1>1. ASSUME NEW x \in Streams \ {s}
      PROVE  StreamOK(x)'
  <2>1. StreamOK(x)
    BY DEF StreamsOK
  <2>2. handle[x].active # Nobody => handle[x].active \in Threads \ {t}
    BY <2>1 DEF StreamOK, At, SyncBrokerTypeOK
  <2> QED
    BY <2>1, <2>2 DEF StreamOK, At
<1>2. ASSUME NEW u \in Threads \ {t}, call[u].on # s
      PROVE  ThreadOK(u)'
  <2>1. ThreadOK(u)
    BY DEF ThreadsOK
  <2>2. call[u].op = "open" => call'[t].on # call[u].on
    BY <1>2, <2>1, SyncAssumption DEF ThreadOK
  <2>3. \A x \in Streams : x # s => handle'[x] = handle[x]
    OBVIOUS
  <2> QED
    BY <1>2, <2>1, <2>2, <2>3 DEF ThreadOK, At
<1> QED
  BY <1>1, <1>2 DEF StreamsOK, ThreadsOK

(* A stream comes in, late where the broker has looked already. *)
LEMMA OwnedStep ==
  ASSUME SettleInv, SyncBrokerTypeOK', NEW t \in Threads, Owned(t)
  PROVE  SettleInv'
<1>0. SyncBrokerTypeOK /\ StreamsOK /\ ThreadsOK /\ TeardownOK /\ FoundIsSettled
  BY DEF SettleInv, StreamsOK, ThreadsOK
<1>a. PICK s \in Streams : s = call[t].on
  BY <1>0 DEF Owned, At, ThreadsOK, ThreadOK
<1>1. /\ At(t, "open", "posting") /\ s = call[t].on
      /\ handle[s] = Unmade
      /\ \A u \in Threads : call[u].on = s => u = t
  BY <1>0, <1>a DEF Owned, At, ThreadsOK, ThreadOK, StreamsOK, StreamOK
<1>2. /\ \A u \in Threads : call'[u] = IF u = t THEN Idle ELSE call[u]
      /\ \A x \in Streams \ {s} : handle'[x] = handle[x]
      /\ handle'[s].at = "open" /\ (handle'[s].late <=> closing \notin {"open", "asked"})
      /\ handle'[s].active = Nobody /\ handle'[s].cleanup = "none"
      /\ owned' = owned \cup {s} /\ kept' = kept \cup {s}
      /\ UNCHANGED <<loop, finalizer, closing>>
  BY <1>0, <1>1 DEF Owned, Returns, SyncBrokerTypeOK, Unmade
<1>3. StreamOK(s)'
  BY <1>2 DEF StreamOK, Aware
<1>4. ThreadOK(t)'
  BY <1>2 DEF ThreadOK, Idle, At
<1>5. StreamsOK' /\ ThreadsOK'
  BY <1>0, <1>1, <1>2, <1>3, <1>4, PairAside DEF At, Idle
<1>6. TeardownOK'
  BY <1>0, <1>1, <1>2 DEF TeardownOK, Idle, At
<1>7. FoundIsSettled'
  BY <1>0, <1>2 DEF FoundIsSettled, SyncBrokerTypeOK
<1> QED
  BY <1>5, <1>6, <1>7 DEF SettleInv, StreamsOK, ThreadsOK

(* A thread closes a stream it holds. *)
LEMMA CloseStreamStep ==
  ASSUME SettleInv, SyncBrokerTypeOK', NEW t \in Threads, NEW s \in Streams, CloseStream(t, s)
  PROVE  SettleInv'
<1>0. SyncBrokerTypeOK /\ StreamsOK /\ ThreadsOK /\ TeardownOK /\ FoundIsSettled
  BY DEF SettleInv, StreamsOK, ThreadsOK
<1>1. call[t] = Idle /\ StreamOK(s) /\ handle[s].at # "unmade"
  BY <1>0 DEF CloseStream, Free, ThreadsOK, ThreadOK, StreamsOK, StreamOK
<1>2. /\ \A u \in Threads \ {t} : call'[u] = call[u]
      /\ call'[t] \in {Idle, [op |-> "close", on |-> s, at |-> "posting"]}
      /\ \A x \in Streams \ {s} : handle'[x] = handle[x]
      /\ handle'[s].at = handle[s].at /\ handle'[s].late = handle[s].late
      /\ handle'[s].active = handle[s].active /\ handle'[s].cleanup = handle[s].cleanup
      /\ UNCHANGED <<owned, kept, loop, finalizer, closing>>
  BY <1>0, <1>1 DEF CloseStream, Does, SyncBrokerTypeOK, hostVars, ownerVars
<1>3. StreamOK(s)'
  <2>1. handle[s].active # Nobody => handle[s].active \in Threads \ {t}
    BY <1>0, <1>1 DEF StreamOK, Idle, At, SyncBrokerTypeOK
  <2> QED
    BY <1>1, <1>2, <2>1 DEF StreamOK, At
<1>4. ASSUME NEW u \in Threads, call[u].on = s \/ u = t
      PROVE  ThreadOK(u)'
  <2>1. ThreadOK(u) /\ ThreadOK(t)
    BY <1>0 DEF ThreadsOK
  <2>2. CASE u = t
    BY <1>1, <1>2, <2>2 DEF ThreadOK, Idle, At
  <2>3. CASE u # t
    BY <1>1, <1>2, <1>4, <2>1, <2>3 DEF ThreadOK, At
  <2> QED
    BY <2>2, <2>3
<1>5. StreamsOK' /\ ThreadsOK'
  BY <1>0, <1>1, <1>2, <1>3, <1>4, PairAside DEF At, Idle
<1>6. TeardownOK'
  BY <1>0, <1>1, <1>2 DEF TeardownOK, Idle
<1>7. FoundIsSettled'
  BY <1>0, <1>2, FoundAside
<1> QED
  BY <1>5, <1>6, <1>7 DEF SettleInv, StreamsOK, ThreadsOK

(* A pull ends on its own. *)
LEMMA DeliveredStep ==
  ASSUME SettleInv, SyncBrokerTypeOK', NEW t \in Threads, Delivered(t)
  PROVE  SettleInv'
<1>0. SyncBrokerTypeOK /\ StreamsOK /\ ThreadsOK /\ TeardownOK /\ FoundIsSettled
  BY DEF SettleInv, StreamsOK, ThreadsOK
<1>a. PICK s \in Streams : s = call[t].on
  BY <1>0 DEF Delivered, At, ThreadsOK, ThreadOK
<1>1. At(t, "pull", "running") /\ s = call[t].on /\ StreamOK(s) /\ handle[s].active = t
  BY <1>0, <1>a DEF Delivered, At, ThreadsOK, ThreadOK, StreamsOK
<1>2. /\ \A u \in Threads : call'[u] = IF u = t THEN Idle ELSE call[u]
      /\ \A x \in Streams \ {s} : handle'[x] = handle[x]
      /\ handle'[s].at = handle[s].at /\ handle'[s].late = handle[s].late
      /\ handle'[s].active = Nobody /\ handle'[s].cleanup = handle[s].cleanup
      /\ handle[s].cleanup # "gather"
      /\ UNCHANGED <<owned, kept, loop, finalizer, closing>>
  BY <1>0, <1>1 DEF Delivered, Returns, SyncBrokerTypeOK, hostVars, ownerVars
<1>3. StreamOK(s)'
  BY <1>1, <1>2, SyncAssumption DEF StreamOK, Unmade
<1>4. ASSUME NEW u \in Threads, call[u].on = s \/ u = t
      PROVE  ThreadOK(u)'
  <2>1. ThreadOK(u) /\ ThreadOK(t)
    BY <1>0 DEF ThreadsOK
  <2>2. CASE u = t
    BY <1>2, <2>2 DEF ThreadOK, Idle, At
  <2>3. CASE u # t
    BY <1>1, <1>2, <1>4, <2>1, <2>3 DEF ThreadOK, At, Idle
  <2> QED
    BY <2>2, <2>3
<1>5. StreamsOK' /\ ThreadsOK'
  BY <1>0, <1>1, <1>2, <1>3, <1>4, PairAside DEF At, Idle
<1>6. TeardownOK'
  BY <1>0, <1>1, <1>2 DEF TeardownOK, Idle, At
<1>7. FoundIsSettled'
  BY <1>0, <1>2, FoundAside
<1> QED
  BY <1>5, <1>6, <1>7 DEF SettleInv, StreamsOK, ThreadsOK

(* The loop takes up a pull, *)
LEMMA StartPull ==
  ASSUME SettleInv, SyncBrokerTypeOK', NEW t \in Threads, Start(t), call[t].op = "pull"
  PROVE  SettleInv'
<1>0. SyncBrokerTypeOK /\ StreamsOK /\ ThreadsOK /\ TeardownOK /\ FoundIsSettled
  BY DEF SettleInv, StreamsOK, ThreadsOK
<1>a. PICK s \in Streams : s = call[t].on
  BY <1>0 DEF ThreadsOK, ThreadOK
<1>1. StreamOK(s) /\ ThreadOK(t) /\ call[t].at = "posted" /\ handle[s].at # "unmade" /\ s = call[t].on
  BY <1>0, <1>a DEF Start, ThreadsOK, ThreadOK, StreamsOK
<1>2. /\ UNCHANGED <<owned, kept, loop, finalizer, closing>>
      /\ \A u \in Threads \ {t} : call'[u] = call[u]
      /\ \A x \in Streams \ {s} : handle'[x] = handle[x]
      /\ handle'[s].at = handle[s].at /\ handle'[s].late = handle[s].late
      /\ handle'[s].cleanup = handle[s].cleanup
      /\ \/ call'[t] = Idle /\ handle'[s] = handle[s]
         \/ /\ call'[t].op = "pull" /\ call'[t].on = s /\ call'[t].at = "running"
            /\ handle[s].at # "closed" /\ handle[s].active = Nobody /\ handle'[s].active = t
  BY <1>0, <1>1 DEF Start, Moves, Returns, SyncBrokerTypeOK, hostVars
<1>3. StreamOK(s)'
  <2>1. handle[s].active # Nobody => handle[s].active \in Threads \ {t}
    BY <1>0, <1>1 DEF StreamOK, At, SyncBrokerTypeOK
  <2>2. CASE call'[t] = Idle /\ handle'[s] = handle[s]
    BY <1>1, <1>2, <2>1, <2>2 DEF StreamOK, At
  <2>3. CASE call'[t] # Idle
    BY <1>1, <1>2, <2>3, SyncAssumption DEF StreamOK, At, Aware
  <2> QED
    BY <1>2, <2>2, <2>3 DEF Idle
<1>4. ASSUME NEW u \in Threads, call[u].on = s \/ u = t
      PROVE  ThreadOK(u)'
  <2>1. ThreadOK(u)
    BY <1>0 DEF ThreadsOK
  <2>2. CASE u = t
    BY <1>1, <1>2, <2>2 DEF ThreadOK, Idle, At
  <2>3. CASE u # t
    BY <1>1, <1>2, <1>4, <2>1, <2>3, SyncAssumption DEF ThreadOK, At, Idle
  <2> QED
    BY <2>2, <2>3
<1>5. StreamsOK' /\ ThreadsOK'
  BY <1>0, <1>1, <1>2, <1>3, <1>4, PairAside DEF At, Idle
<1>6. TeardownOK'
  BY <1>0, <1>1, <1>2 DEF TeardownOK, Idle
<1>7. FoundIsSettled'
  BY <1>0, <1>2, FoundAside
<1> QED
  BY <1>5, <1>6, <1>7 DEF SettleInv, StreamsOK, ThreadsOK

(* the close of a stream, *)
LEMMA StartClose ==
  ASSUME SettleInv, SyncBrokerTypeOK', NEW t \in Threads, Start(t), call[t].op = "close"
  PROVE  SettleInv'
<1>0. SyncBrokerTypeOK /\ StreamsOK /\ ThreadsOK /\ TeardownOK /\ FoundIsSettled
  BY DEF SettleInv, StreamsOK, ThreadsOK
<1>a. PICK s \in Streams : s = call[t].on
  BY <1>0 DEF ThreadsOK, ThreadOK
<1>1. StreamOK(s) /\ ThreadOK(t) /\ call[t].at = "posted" /\ handle[s].at # "unmade" /\ s = call[t].on
  BY <1>0, <1>a DEF Start, ThreadsOK, ThreadOK, StreamsOK
<1>2. /\ UNCHANGED <<owned, kept, loop, finalizer, closing>>
      /\ \A u \in Threads \ {t} : call'[u] = call[u]
      /\ \A x \in Streams \ {s} : handle'[x] = handle[x]
      /\ handle'[s] = Closing(handle[s])
      /\ \/ call'[t] = Idle
         \/ /\ call'[t].op = "close" /\ call'[t].on = s /\ call'[t].at = "running"
            /\ handle[s].cleanup # "done"
  BY <1>0, <1>1 DEF Start, Moves, Returns, SyncBrokerTypeOK, hostVars
<1>3. /\ handle'[s].late = handle[s].late /\ handle'[s].active = handle[s].active
      /\ handle'[s].at = "closed" /\ handle'[s].cleanup \in Aware
      /\ handle'[s].cleanup = "done" <=> handle[s].cleanup = "done"
      /\ handle'[s].cleanup = handle[s].cleanup \/ handle'[s].cleanup = "cancel"
      /\ handle[s].cleanup \in Aware => handle'[s] = handle[s]
  <2>1. handle[s] \in Handles
    BY <1>0 DEF SyncBrokerTypeOK, Handles
  <2> QED
    BY <1>1, <1>2, <2>1 DEF Closing, StreamOK, Handles, Aware
<1>4. StreamOK(s)'
  <2>1. handle[s].active # Nobody => handle[s].active \in Threads \ {t}
    BY <1>0, <1>1 DEF StreamOK, At, SyncBrokerTypeOK
  <2> QED
    BY <1>1, <1>2, <1>3, <2>1 DEF StreamOK, At
<1>5. ASSUME NEW u \in Threads, call[u].on = s \/ u = t
      PROVE  ThreadOK(u)'
  <2>1. ThreadOK(u)
    BY <1>0 DEF ThreadsOK
  <2>2. CASE u = t
    BY <1>1, <1>2, <1>3, <2>2 DEF ThreadOK, Idle, At
  <2>3. CASE u # t
    BY <1>1, <1>2, <1>3, <1>5, <2>1, <2>3 DEF ThreadOK, At, Idle
  <2> QED
    BY <2>2, <2>3
<1>6. StreamsOK' /\ ThreadsOK'
  BY <1>0, <1>1, <1>2, <1>4, <1>5, PairAside DEF At, Idle
<1>7. TeardownOK'
  BY <1>0, <1>1, <1>2 DEF TeardownOK, Idle
<1>8. FoundIsSettled'
  BY <1>0, <1>2, <1>3, FoundAside
<1> QED
  BY <1>6, <1>7, <1>8 DEF SettleInv, StreamsOK, ThreadsOK

(* a call, and the teardown. *)
LEMMA StartOther ==
  ASSUME SettleInv, SyncBrokerTypeOK', NEW t \in Threads, Start(t),
         call[t].op \in {"ask", "shutdown"}
  PROVE  SettleInv'
<1>0. SyncBrokerTypeOK /\ StreamsOK /\ ThreadsOK /\ TeardownOK /\ FoundIsSettled
  BY DEF SettleInv, StreamsOK, ThreadsOK
<1>1. /\ UNCHANGED <<handle, owned, kept, finalizer, loop>>
      /\ call' = [call EXCEPT ![t] = [call[t] EXCEPT !.at = "running"]]
      /\ call[t].at = "posted"
      /\ closing' = IF call[t].op = "shutdown" THEN "asked" ELSE closing
  BY <1>0 DEF Start, Moves, hostVars
<1>2. /\ \A u \in Threads \ {t} : call'[u] = call[u]
      /\ call'[t].op = call[t].op /\ call'[t].on = Nobody /\ call'[t].at = "running"
  BY <1>0, <1>1 DEF SyncBrokerTypeOK, ThreadsOK, ThreadOK
<1>3. ThreadOK(t)'
  BY <1>2 DEF ThreadOK, At
<1>4. \A u \in Threads \ {t} : call[u].op = "open" => call[u].on # call'[t].on
  BY <1>0, <1>2, SyncAssumption DEF ThreadsOK, ThreadOK
<1>5. StreamsOK' /\ ThreadsOK'
  <2>1. [call[t] EXCEPT !.at = "running"].on = call'[t].on
    BY <1>0, <1>1 DEF SyncBrokerTypeOK
  <2> QED
    BY <1>0, <1>1, <1>3, <1>4, <2>1, CallAside DEF At
<1>6. TeardownOK'
  BY <1>0, <1>1, <1>2 DEF TeardownOK
<1>7. FoundIsSettled'
  BY <1>0, <1>1 DEF FoundIsSettled
<1> QED
  BY <1>5, <1>6, <1>7 DEF SettleInv, StreamsOK, ThreadsOK

(* A pull that was cancelled ends, and gives its thread back. *)
LEMMA CancelledStep ==
  ASSUME SettleInv, SyncBrokerTypeOK', NEW s \in Streams, Cancelled(s)
  PROVE  SettleInv'
<1>0. SyncBrokerTypeOK /\ StreamsOK /\ ThreadsOK /\ TeardownOK /\ FoundIsSettled
  BY DEF SettleInv, StreamsOK, ThreadsOK
<1>a. StreamOK(s) /\ handle[s].cleanup = "gather"
  BY <1>0 DEF Cancelled, StreamsOK
<1>b. PICK t \in Threads : t = handle[s].active
  BY <1>0, <1>a DEF StreamOK, SyncBrokerTypeOK
<1>1. At(t, "pull", "running") /\ call[t].on = s /\ handle[s].active = t
  BY <1>a, <1>b, SyncAssumption DEF StreamOK
<1>2. /\ UNCHANGED <<owned, kept, loop, finalizer, closing>>
      /\ \A u \in Threads : call'[u] = IF u = t THEN Idle ELSE call[u]
      /\ \A x \in Streams \ {s} : handle'[x] = handle[x]
      /\ handle'[s].at = handle[s].at /\ handle'[s].late = handle[s].late
      /\ handle'[s].active = Nobody /\ handle'[s].cleanup = "source"
  BY <1>0, <1>1 DEF Cancelled, Returns, SyncBrokerTypeOK, hostVars, ownerVars
<1>3. StreamOK(s)'
  BY <1>a, <1>2 DEF StreamOK, Unmade, Aware
<1>4. ASSUME NEW u \in Threads, call[u].on = s \/ u = t
      PROVE  ThreadOK(u)'
  <2>1. ThreadOK(u)
    BY <1>0 DEF ThreadsOK
  <2>2. CASE u = t
    BY <1>2, <2>2 DEF ThreadOK, Idle, At
  <2>3. CASE u # t
    BY <1>1, <1>2, <1>4, <2>1, <2>3 DEF ThreadOK, At, Idle, Aware
  <2> QED
    BY <2>2, <2>3
<1>5. StreamsOK' /\ ThreadsOK'
  BY <1>0, <1>1, <1>2, <1>3, <1>4, PairAside DEF At, Idle
<1>6. TeardownOK'
  BY <1>0, <1>1, <1>2 DEF TeardownOK, Idle, At
<1>7. FoundIsSettled'
  BY <1>0, <1>2, FoundAside
<1> QED
  BY <1>5, <1>6, <1>7 DEF SettleInv, StreamsOK, ThreadsOK

(* A stream is settled, and whoever waits for it goes on. *)
LEMMA SettledStep ==
  ASSUME SettleInv, SyncBrokerTypeOK', NEW s \in Streams, Settled(s)
  PROVE  SettleInv'
<1>0. SyncBrokerTypeOK /\ StreamsOK /\ ThreadsOK /\ TeardownOK /\ FoundIsSettled
  BY DEF SettleInv, StreamsOK, ThreadsOK
<1>1. StreamOK(s) /\ handle[s].cleanup = "source" /\ handle[s].active = Nobody
  BY <1>0 DEF Settled, StreamsOK, StreamOK
<1>2. /\ UNCHANGED <<kept, loop, finalizer, closing>> /\ owned' = owned \ {s}
      /\ \A x \in Streams \ {s} : handle'[x] = handle[x]
      /\ handle'[s].at = handle[s].at /\ handle'[s].late = handle[s].late
      /\ handle'[s].active = Nobody /\ handle'[s].cleanup = "done"
  BY <1>0, <1>1 DEF Settled, SyncBrokerTypeOK, hostVars
<1>3. \A u \in Threads : call'[u] = IF At(u, "close", "running") /\ call[u].on = s THEN Idle ELSE call[u]
  BY DEF Settled
<1>4. ASSUME NEW x \in Streams
      PROVE  StreamOK(x)'
  <2>1. StreamOK(x)
    BY <1>0 DEF StreamsOK
  <2>2. CASE x = s
    BY <1>1, <1>2, <2>2 DEF StreamOK, Unmade, Aware
  <2>3. CASE x # s
    <3>1. handle[x].active # Nobody => /\ handle[x].active \in Threads
                                       /\ call[handle[x].active].op = "pull"
      BY <1>0, <2>1 DEF StreamOK, At, SyncBrokerTypeOK
    <3> QED
      BY <1>2, <1>3, <2>1, <2>3, <3>1 DEF StreamOK, At
  <2> QED
    BY <2>2, <2>3
<1>5. ASSUME NEW u \in Threads
      PROVE  ThreadOK(u)'
  <2>1. ThreadOK(u)
    BY <1>0 DEF ThreadsOK
  <2>2. CASE At(u, "close", "running") /\ call[u].on = s
    BY <1>3, <2>2 DEF ThreadOK, Idle, At
  <2>3. CASE ~(At(u, "close", "running") /\ call[u].on = s)
    <3>1. call'[u] = call[u]
      BY <1>3, <2>3
    <3>2. \A x \in Streams : (handle'[x].at = "unmade" <=> handle[x].at = "unmade")
                             /\ handle'[x].active = handle[x].active
      BY <1>1, <1>2
    <3>3. call[u].op = "open" => \A v \in Threads : call'[v].on = call[u].on => v = u
      BY <1>3, <2>1, SyncAssumption DEF ThreadOK, Idle
    <3>4. call[u].on # s /\ call[u].on \in Streams => handle'[call[u].on] = handle[call[u].on]
      BY <1>2
    <3>5. At(u, "close", "running") => call[u].on # s
      BY <2>3
    <3> QED
      BY <2>1, <3>1, <3>2, <3>3, <3>4, <3>5 DEF ThreadOK, At
  <2> QED
    BY <2>2, <2>3
<1>6. TeardownOK'
  BY <1>0, <1>2, <1>3 DEF TeardownOK, Idle, At
<1>7. FoundIsSettled'
  BY <1>0, <1>2, FoundAside
<1> QED
  BY <1>4, <1>5, <1>6, <1>7 DEF SettleInv

-----------------------------------------------------------------------------
LEMMA SettleStep == SettleInv /\ [Next]_vars => SettleInv'
<1> SUFFICES ASSUME SettleInv, [Next]_vars
             PROVE  SettleInv'
  OBVIOUS
<1>0. SyncBrokerTypeOK'
  BY SettleTypes DEF SettleInv
<1>1. ASSUME \/ \E t \in Threads : TakeLock(t) \/ FreeLock(t)
             \/ DropBroker
             \/ UNCHANGED vars
      PROVE  SettleInv'
  <2>1. UNCHANGED <<call, handle, owned, kept, finalizer, closing, loop>>
    BY <1>1 DEF TakeLock, FreeLock, DropBroker, vars, hostVars, ownerVars
  <2>2. StreamsOK' /\ ThreadsOK'
    BY <2>1, AllAside DEF SettleInv, StreamsOK, ThreadsOK
  <2> QED
    BY <1>0, <2>1, <2>2 DEF SettleInv, StreamsOK, ThreadsOK, TeardownOK, FoundIsSettled
<1>2. ASSUME NEW t \in Threads, Start(t)
      PROVE  SettleInv'
  BY <1>0, <1>2, StartPull, StartClose, StartOther DEF Start
<1>3. ASSUME NEW t \in Threads, ThreadSteps(t)
      PROVE  SettleInv'
  BY <1>0, <1>1, <1>2, <1>3, HostSteps, TeardownSteps, OwnedStep, CloseStreamStep, DeliveredStep
     DEF ThreadSteps
<1>4. ASSUME NEW s \in Streams, StreamSteps(s)
      PROVE  SettleInv'
  BY <1>0, <1>4, CleanupSteps, CancelledStep, SettledStep DEF StreamSteps
<1>5. CASE CloseOwned \/ ClosePorts \/ TeardownEnds \/ LoopEnds \/ TeardownStarts
  BY <1>0, <1>5, OwnedIsClosed, TeardownSteps
<1> QED
  BY <1>1, <1>3, <1>4, <1>5 DEF Next

(* The state of threads, handles and teardown is well typed and in order.    *)
THEOREM SettleInvariant == SyncBrokerSpec => []SettleInv
BY SettleInit, SettleStep, PTL DEF SyncBrokerSpec

(* What close() finds it settles before the loop stops, and no thread stays  *)
(* in a pull or a close of it (Broker.close over AsyncBroker._close).        *)
THEOREM ClosedIsSettled == SyncBrokerSpec => []SettledWhenClosed
<1>1. SettleInv => SettledWhenClosed
  <2> SUFFICES ASSUME SettleInv, loop = "closed"
               PROVE  /\ \A s \in owned : handle[s].late
                      /\ \A t \in Threads : call[t].op \in {"pull", "close"} /\ call[t].at = "running"
                                             => handle[call[t].on].late
    BY DEF SettledWhenClosed
  <2>1. \A s \in owned : handle[s].late
    BY DEF SettleInv, TeardownOK, FoundIsSettled
  <2>2. ASSUME NEW t \in Threads, call[t].op \in {"pull", "close"}, call[t].at = "running"
        PROVE  call[t].on \in owned
    <3>1. ThreadOK(t) /\ call[t].on \in Streams
      BY <2>2 DEF SettleInv, ThreadOK
    <3>2. StreamOK(call[t].on)
      BY <3>1 DEF SettleInv
    <3> QED
      BY <2>2, <3>1, <3>2, SyncAssumption DEF ThreadOK, StreamOK, At
  <2> QED
    BY <2>1, <2>2
<1> QED
  BY <1>1, SettleInvariant, PTL
-----------------------------------------------------------------------------
(* Once the finalizer is at work somebody waits for the teardown or posts it, and the     *)
(* thread that holds the executor's lock is in no call.                                   *)
GoingOn ==
  /\ lock # Nobody => call[lock] = Idle
  /\ finalizer = "run" => closing # "open"
  /\ finalizer = "detached" /\ loop # "closed" => \E t \in Threads : call[t].op = "shutdown"
  /\ \A t \in Threads : At(t, "shutdown", "running") => closing # "open"

(* What a step leaves of that.                                                            *)
Proceeds ==
  /\ \A t \in Threads : lock = t /\ call[t] = Idle => call'[t] = Idle
  /\ loop # "closed" => \A t \in Threads : call[t].op = "shutdown" => call'[t].op = "shutdown"
  /\ \A t \in Threads : call'[t].op = "shutdown" /\ call'[t].at = "running" =>
       At(t, "shutdown", "running") \/ closing' # "open"
  /\ closing' = "open" => closing = "open"
  /\ finalizer' = "run" => finalizer = "run" \/ closing' # "open"
  /\ finalizer' = "detached" => finalizer = "detached" \/ \E t \in Threads : call'[t].op = "shutdown"
  /\ loop' # "closed" => loop # "closed"
  /\ lock' # Nobody => lock' = lock \/ call'[lock'] = Idle

(* Nobody in a call of the broker holds the lock. *)
LEMMA IdleThread ==
  ASSUME SettleInv, NEW t \in Threads
  PROVE  /\ call[t] \in Calls /\ call \in [Threads -> Calls]
         /\ call[t].at = "idle" => call[t] = Idle
         /\ call[t] = Idle => call[t].at = "idle" /\ call[t].op = "none"
         /\ Idle \in Calls /\ Idle.op = "none" /\ Idle.at = "idle"
<1>1. call \in [Threads -> Calls]
  BY DEF SettleInv, SyncBrokerTypeOK, Calls
<1>2. call[t].at = "idle" => call[t] = Idle
  BY DEF SettleInv, ThreadOK
<1>3. Idle \in Calls /\ Idle.op = "none" /\ Idle.at = "idle"
  BY DEF Idle, Calls
<1> QED BY <1>1, <1>2, <1>3

(* A thread goes on in the call it is in, or starts one. *)
LEMMA MovesOn ==
  ASSUME SettleInv, NEW t \in Threads, NEW p, Moves(t, p)
  PROVE  /\ call'[t].op = call[t].op /\ call'[t].at = p
         /\ \A u \in Threads \ {t} : call'[u] = call[u]
<1>1. call \in [Threads -> Calls] /\ call[t] \in Calls
  BY IdleThread
<1>2. call' = [call EXCEPT ![t] = [call[t] EXCEPT !.at = p]]
  BY <1>1 DEF Moves
<1> QED BY <1>1, <1>2 DEF Calls

LEMMA DoesSo ==
  ASSUME SettleInv, NEW t \in Threads, NEW op, NEW s, NEW p, Does(t, op, s, p)
  PROVE  /\ call'[t].op = op /\ call'[t].at = p
         /\ \A u \in Threads \ {t} : call'[u] = call[u]
<1>1. call \in [Threads -> Calls]
  BY IdleThread
<1> QED BY <1>1 DEF Does

LEMMA ReturnsSo ==
  ASSUME SettleInv, NEW t \in Threads, Returns(t)
  PROVE  call'[t] = Idle /\ \A u \in Threads \ {t} : call'[u] = call[u]
<1>1. call \in [Threads -> Calls]
  BY IdleThread
<1> QED BY <1>1 DEF Returns

LEMMA ThreadProceeds ==
  ASSUME SettleInv, NEW t \in Threads, ThreadSteps(t)
  PROVE  Proceeds
<1>1. \A u \in Threads : /\ call[u].at = "idle" => call[u] = Idle
                         /\ call[u] = Idle => call[u].at = "idle" /\ call[u].op = "none"
  BY IdleThread
<1>2. Idle.op = "none" /\ Idle.at = "idle" /\ Nobody \notin Threads
  BY IdleThread, SyncAssumption
<1>3. CASE \E s \in Streams : Open(t, s) \/ Pull(t, s)
  <2>1. PICK s : Does(t, "open", s, "posting") \/ Does(t, "pull", s, "posting")
    BY <1>3 DEF Open, Pull
  <2>2. call'[t].op \in {"open", "pull"} /\ \A u \in Threads \ {t} : call'[u] = call[u]
    BY <2>1, DoesSo
  <2> QED BY <1>1, <1>3, <2>2 DEF Open, Pull, Free, Proceeds, hostVars, ownerVars, At
<1>4. CASE \E s \in Streams : CloseStream(t, s)
  <2>1. UNCHANGED call \/ \E s : Does(t, "close", s, "posting")
    BY <1>4 DEF CloseStream
  <2>2. UNCHANGED call \/ (call'[t].op = "close" /\ \A u \in Threads \ {t} : call'[u] = call[u])
    BY <2>1, DoesSo
  <2> QED BY <1>1, <1>4, <2>2 DEF CloseStream, Free, Proceeds, hostVars, ownerVars, At
<1>5. CASE Owned(t) \/ Delivered(t) \/ Answered(t)
  <2>1. call'[t] = Idle /\ \A u \in Threads \ {t} : call'[u] = call[u]
    BY <1>5, ReturnsSo DEF Owned, Delivered, Answered
  <2>2. call[t].op \in {"open", "pull", "ask"}
    BY <1>5 DEF Owned, Delivered, Answered, At
  <2> QED BY <1>1, <1>2, <1>5, <2>1, <2>2 DEF Owned, Delivered, Answered, Proceeds, hostVars, ownerVars, At
<1>6. CASE Ask(t)
  <2>1. call'[t].op = "ask" /\ \A u \in Threads \ {t} : call'[u] = call[u]
    BY <1>6, DoesSo DEF Ask
  <2> QED BY <1>1, <1>6, <2>1 DEF Ask, Free, Proceeds, hostVars, ownerVars, At
<1>7. CASE CloseBroker(t)
  <2>1. call'[t].op = "shutdown" /\ call'[t].at = "posting" /\ \A u \in Threads \ {t} : call'[u] = call[u]
    BY <1>7, DoesSo DEF CloseBroker
  <2> QED BY <1>1, <1>7, <2>1 DEF CloseBroker, Free, Proceeds, ownerVars, At
<1>8. CASE Post(t)
  <2>1. /\ call[t].at = "posting" /\ \A u \in Threads \ {t} : call'[u] = call[u]
        /\ \/ loop = "closed" /\ call'[t] = Idle
           \/ call'[t].op = call[t].op /\ call'[t].at = "posted"
    BY <1>8, ReturnsSo, MovesOn DEF Post
  <2> QED BY <1>1, <1>2, <1>8, <2>1 DEF Post, Proceeds, hostVars, ownerVars, At
<1>9. CASE StopLoop(t) \/ FreeLock(t)
  BY <1>9 DEF StopLoop, FreeLock, Proceeds, hostVars, ownerVars, At
<1>10. CASE Join(t)
  <2>1. loop = "closed" /\ call'[t] = Idle /\ \A u \in Threads \ {t} : call'[u] = call[u]
    BY <1>10, ReturnsSo DEF Join
  <2> QED BY <1>1, <1>2, <1>10, <2>1 DEF Join, Proceeds, hostVars, ownerVars, At
<1>11. CASE TakeLock(t)
  BY <1>1, <1>11 DEF TakeLock, Free, Proceeds, hostVars, ownerVars, At
<1>12. CASE Collect(t)
  BY <1>12 DEF Collect, Proceeds, ownerVars, At
<1>13. CASE Start(t)
  <2>1. /\ call[t].at = "posted" /\ \A u \in Threads \ {t} : call'[u] = call[u]
        /\ \/ call[t].op \in {"pull", "close"} /\ call'[t] = Idle
           \/ call[t].op # "shutdown" /\ call'[t].op = call[t].op
           \/ call[t].op = "shutdown" /\ call'[t].op = "shutdown" /\ closing' = "asked"
    BY <1>13, ReturnsSo, MovesOn DEF Start
  <2>2. UNCHANGED <<loop, finalizer, lock>> /\ closing' \in {closing, "asked"}
    BY <1>13 DEF Start, hostVars
  <2> QED BY <1>1, <1>2, <2>1, <2>2 DEF Proceeds, At
<1> QED BY <1>3, <1>4, <1>5, <1>6, <1>7, <1>8, <1>9, <1>10, <1>11, <1>12, <1>13 DEF ThreadSteps

LEMMA StreamProceeds ==
  ASSUME SettleInv, NEW s \in Streams, StreamSteps(s)
  PROVE  Proceeds
<1>1. \A u \in Threads : /\ call[u].at = "idle" => call[u] = Idle
                         /\ call[u] = Idle => call[u].at = "idle" /\ call[u].op = "none"
  BY IdleThread
<1>2. Idle.op = "none" /\ Idle.at = "idle" /\ Nobody \notin Threads
  BY SyncAssumption DEF Idle
<1>3. CASE Cancelled(s)
  <2> DEFINE t == handle[s].active
  <2>1. t \in Threads /\ call[t].op = "pull"
    <3>1. t # Nobody /\ StreamOK(s) /\ handle[s].active \in Threads \cup {Nobody}
      BY <1>3 DEF Cancelled, SettleInv, StreamOK, SyncBrokerTypeOK
    <3> QED BY <3>1 DEF StreamOK, At
  <2>2. call'[t] = Idle /\ \A u \in Threads \ {t} : call'[u] = call[u]
    BY <1>3, <2>1, ReturnsSo DEF Cancelled
  <2> HIDE DEF t
  <2> QED BY <1>1, <1>2, <1>3, <2>1, <2>2 DEF Cancelled, Proceeds, hostVars, ownerVars, At
<1>4. CASE Settled(s)
  <2>1. \A u \in Threads : \/ call[u].op = "close" /\ call'[u] = Idle
                           \/ call'[u] = call[u]
    BY <1>4 DEF Settled, At
  <2>2. UNCHANGED <<loop, finalizer, closing, lock>>
    BY <1>4 DEF Settled, hostVars
  <2> QED BY <1>1, <1>2, <2>1, <2>2 DEF Proceeds, At
<1>5. CASE Cancel(s) \/ Drop(s) \/ Abandoned(s)
  BY <1>5 DEF Cancel, Drop, Abandoned, Proceeds, hostVars, ownerVars, At
<1> QED BY <1>3, <1>4, <1>5 DEF StreamSteps

LEMMA StepProceeds ==
  ASSUME SettleInv, [Next]_vars
  PROVE  Proceeds
<1>1. CASE CloseOwned \/ ClosePorts \/ LoopEnds \/ TeardownStarts \/ DropBroker \/ UNCHANGED vars
  BY <1>1 DEF CloseOwned, ClosePorts, LoopEnds, TeardownStarts, DropBroker, Proceeds, hostVars,
     ownerVars, vars, At
<1>2. CASE TeardownEnds
  <2>1. UNCHANGED <<finalizer, closing, lock>> /\ closing = "ended" /\ (loop' # "closed" => loop # "closed")
    BY <1>2 DEF TeardownEnds, hostVars, ownerVars, LoopRuns
  <2>2. \/ UNCHANGED call
        \/ \E t \in Threads : At(t, "shutdown", "running") /\ Moves(t, "ended")
    BY <1>2 DEF TeardownEnds
  <2>3. ASSUME NEW t \in Threads, At(t, "shutdown", "running"), Moves(t, "ended")
        PROVE  Proceeds
    <3>1. call'[t].op = "shutdown" /\ \A u \in Threads \ {t} : call'[u] = call[u]
      BY <2>3, MovesOn DEF At
    <3>2. call[t] # Idle
      BY <2>3, IdleThread DEF At
    <3> QED BY <2>1, <2>3, <3>1, <3>2 DEF Proceeds, At
  <2> QED BY <2>1, <2>2, <2>3 DEF Proceeds, At
<1> QED BY <1>1, <1>2, ThreadProceeds, StreamProceeds DEF Next

LEMMA AlwaysGoingOn == SyncBrokerSpec => [](SettleInv /\ GoingOn)
<1>1. Init => GoingOn
  BY DEF Init, GoingOn, Idle, At
<1>2. SettleInv /\ GoingOn /\ [Next]_vars => GoingOn'
  <2> SUFFICES ASSUME SettleInv, GoingOn, [Next]_vars
               PROVE  GoingOn'
    OBVIOUS
  <2>1. Proceeds
    BY StepProceeds
  <2>2. lock' # Nobody => call'[lock'] = Idle
    <3>1. lock \in Threads \cup {Nobody}
      BY DEF SettleInv, SyncBrokerTypeOK
    <3> QED BY <2>1, <3>1 DEF Proceeds, GoingOn
  <2>3. \A t \in Threads : call'[t].op = "shutdown" /\ call'[t].at = "running" => closing' # "open"
    BY <2>1 DEF Proceeds, GoingOn
  <2>4. finalizer' = "run" => closing' # "open"
    BY <2>1 DEF Proceeds, GoingOn
  <2>5. finalizer' = "detached" /\ loop' # "closed" => \E t \in Threads : call'[t].op = "shutdown"
    BY <2>1 DEF Proceeds, GoingOn
  <2> QED BY <2>2, <2>3, <2>4, <2>5 DEF GoingOn, At
<1> QED BY <1>1, <1>2, SettleInvariant, PTL DEF SyncBrokerSpec

(* The teardown never stalls and no pull that a close has cut is forgotten:  *)
(* there is always a step to take, and it is nobody's who waits for it       *)
(* (Broker.close, _shutdown, _stop_after_teardown, StreamHandle._close).     *)
THEOREM NoCircleOfWaiting == SyncBrokerSpec => []NobodyWaitsInACircle
<1>1. SettleInv /\ GoingOn => NobodyWaitsInACircle
  <2> SUFFICES ASSUME SettleInv, GoingOn PROVE NobodyWaitsInACircle
    OBVIOUS
  <2>1. ASSUME NEW s \in Streams, handle[s].at = "closed", handle[s].active # Nobody
        PROVE  handle[s].cleanup \in {"cancel", "gather"} /\ (loop = "closed" => handle[s].late)
    <3>1. StreamOK(s)
      BY DEF SettleInv
    <3>2. handle[s].cleanup \in {"cancel", "gather"}
      BY <2>1, <3>1 DEF StreamOK, Aware
    <3>3. s \in owned
      BY <2>1, <3>1, <3>2 DEF StreamOK
    <3> QED BY <3>2, <3>3 DEF SettleInv, TeardownOK, FoundIsSettled
  <2>2. ASSUME finalizer # "armed", loop # "closed", finalizer # "posted", loop # "stopping",
               ~\E t \in Threads : call[t].op = "shutdown" /\ call[t].at \in {"posting", "posted", "ended"},
               closing # "asked"
        PROVE  \/ closing = "settling" /\ (\/ \A s \in owned : handle[s].late
                                          \/ \E s \in owned : handle[s].cleanup \in {"cancel", "gather", "source"})
               \/ closing = "ended" /\ (\/ finalizer = "run"
                                       \/ \E t \in Threads : At(t, "shutdown", "running"))
    <3>1. finalizer = "run" \/ \E t \in Threads : At(t, "shutdown", "running")
      <4>1. CASE finalizer = "detached"
        <5>1. PICK t \in Threads : call[t].op = "shutdown"
          BY <2>2, <4>1 DEF GoingOn
        <5>2. call[t] \in Calls /\ call[t].at # "idle"
          BY <5>1, IdleThread DEF SettleInv, ThreadOK
        <5> QED BY <2>2, <5>1, <5>2 DEF Calls, At
      <4> QED BY <2>2, <4>1 DEF SettleInv, SyncBrokerTypeOK
    <3>2. closing \in {"settling", "ended"}
      BY <2>2, <3>1 DEF GoingOn, SettleInv, SyncBrokerTypeOK
    <3>3. ASSUME closing = "settling", NEW s \in owned, ~handle[s].late
          PROVE  handle[s].cleanup \in {"cancel", "gather", "source"}
      <4>1. s \in Streams /\ handle[s].at = "closed"
        BY <3>3 DEF SettleInv, SyncBrokerTypeOK, FoundIsSettled
      <4>2. StreamOK(s)
        BY <4>1 DEF SettleInv
      <4> QED BY <3>3, <4>1, <4>2 DEF StreamOK, Aware
    <3> QED BY <3>1, <3>2, <3>3
  <2>3. lock # Nobody => call[lock] = Idle
    BY DEF GoingOn
  <2> QED BY <2>1, <2>2, <2>3 DEF NobodyWaitsInACircle
<1> QED BY <1>1, AlwaysGoingOn, PTL
===============================================================================
