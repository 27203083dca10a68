----------------------------- MODULE BrokerProofs -----------------------------
(***************************************************************************)
(* The provisioning of the pool against the syncs beside it, for any       *)
(* tasks, names and lists.                                                 *)
(***************************************************************************)
EXTENDS Broker, TLAPS

(* Where a task stands while a pool is built, and while a list is synced. *)
Rebuilding == {"seed", "seeding", "map", "mapped", "relearn"}
Building == {"load", "loaded"} \cup Rebuilding
Written == {"synced", "syncing", "report"}
Syncing == {"fetch", "current", "mirror"} \cup Written

(* Before a pool is provisioned nobody has passed the gate, and nothing failed. *)
Spots == {"idle", "gate", "filled", "wait"} \cup Building \cup Syncing
Labels == {"route", "disable", "enable", "provision", "fill", "attempt", "sync", "last"}
Frames == [at : Spots, then : Seq(Labels), list : SUBSET Names, seen : [Names -> Verdicts],
           name : SUBSET Names]

Typed ==
  /\ registry \subseteq Names /\ pool \subseteq Names
  /\ verdicts \in [Names -> Verdicts]
  /\ task \in [Tasks -> Frames]
  /\ \A t \in Tasks : task[t].at # "idle" => task[t].then # <<>>

(* Somebody has written the registry and has its rebuild to come. *)
Pending == \E t \in Tasks : task[t].at \in Written \cup {"wait"}

(* Only the holder of the lock builds a pool or fills the registry, and what it *)
(* builds is what the registry says, or somebody is to build it again.          *)
FrameOK(t) ==
  /\ task[t].at \in Building => lock = t /\ task[t].then[1] = "provision"
  /\ task[t].at = "filled" => lock = t
  /\ lock = t => \/ task[t].at \in {"filled"} \cup Building
                 \/ task[t].at \in Syncing /\ task[t].then[1] = "fill"
  /\ task[t].at \in Syncing /\ task[t].then[1] = "fill" => lock = t /\ filling
  /\ filling /\ lock = t => task[t].at \in Syncing /\ task[t].then[1] = "fill"
  /\ task[t].at = "loaded" => task[t].list = registry \/ Pending
  /\ task[t].at \in Rebuilding => pool = registry \/ Pending

Gate ==
  /\ lock \in Tasks \cup {Nobody}
  /\ filling => lock # Nobody
  /\ \A t \in Tasks : FrameOK(t)

Unprovisioned == closing = "open" /\ events = 0 /\ ~provisioned

GateInv == events \in Nat /\ (Unprovisioned => Typed /\ Gate)

-----------------------------------------------------------------------------
(* The holder of the lock moves, or takes it: nobody else builds or fills. *)
LEMMA HolderMoves ==
  ASSUME Typed, Gate, NEW t \in Tasks, lock \in {t, Nobody}, lock' = t,
         task' \in [Tasks -> Frames], \A u \in Tasks \ {t} : task'[u] = task[u],
         task'[t].at # "idle" => task'[t].then # <<>>,
         registry' \subseteq Names, pool' \subseteq Names, verdicts' \in [Names -> Verdicts],
         FrameOK(t)'
  PROVE  Typed' /\ Gate'
<1>0. t # Nobody
  BY BrokerAssumption
<1>1. Typed'
  BY DEF Typed
<1>2. ASSUME NEW u \in Tasks, u # t
      PROVE  FrameOK(u)'
  <2>1. FrameOK(u) /\ u # Nobody
    BY BrokerAssumption DEF Gate
  <2>2. /\ task[u].at \notin Building \cup {"filled"}
        /\ ~(task[u].at \in Syncing /\ task[u].then[1] = "fill")
    BY <1>2, <2>1 DEF FrameOK
  <2>3. task'[u] = task[u]
    BY <1>2
  <2> QED
    BY <1>2, <2>2, <2>3 DEF FrameOK, Building
<1> QED
  BY <1>0, <1>1, <1>2 DEF Gate

(* Somebody else moves: it builds nothing, and what it has written stays announced *)
(* while a pool is being built.                                                    *)
LEMMA BystanderMoves ==
  ASSUME Typed, Gate, NEW t \in Tasks, lock # t, UNCHANGED <<lock, filling, pool>>,
         task' \in [Tasks -> Frames], \A u \in Tasks \ {t} : task'[u] = task[u],
         task'[t].at # "idle" => task'[t].then # <<>>,
         registry' \subseteq Names, verdicts' \in [Names -> Verdicts],
         task'[t].at \notin Building \cup {"filled"},
         ~(task'[t].at \in Syncing /\ task'[t].then[1] = "fill"),
         registry' = registry \/ task'[t].at \in Written,
         task[t].at \in Written \cup {"wait"} => task'[t].at \in Written \cup {"wait"} \/ lock = Nobody \/ filling
  PROVE  Typed' /\ Gate'
<1>1. Typed'
  BY DEF Typed
<1>2. FrameOK(t)'
  BY DEF FrameOK, Building
<1>3. lock # Nobody /\ ~filling /\ Pending => Pending'
  BY DEF Pending
<1>4. task'[t].at \in Written => Pending'
  BY DEF Pending
<1>5. ASSUME NEW u \in Tasks, u # t
      PROVE  FrameOK(u)'
  <2>1. FrameOK(u) /\ u # Nobody /\ task'[u] = task[u]
    BY <1>5, BrokerAssumption DEF Gate
  <2>2. task[u].at \in {"loaded"} \cup Rebuilding => lock = u /\ ~filling
    BY <2>1 DEF FrameOK, Building, Rebuilding, Syncing, Written
  <2> QED
    BY <1>3, <1>4, <2>1, <2>2 DEF FrameOK
<1> QED
  BY <1>1, <1>2, <1>5 DEF Gate

(* What a step does to one task, whoever it is. *)
Moves(t, p) ==
  /\ task' \in [Tasks -> Frames]
  /\ \A u \in Tasks \ {t} : task'[u] = task[u]
  /\ task'[t].at = p

-----------------------------------------------------------------------------
(* The rebuild under the lock. *)
LEMMA RebuildKeeps ==
  ASSUME Typed, Gate, NEW t \in Tasks,
         \/ Load(t) \/ Reconcile(t) \/ MapRead(t) \/ Resync(t)
         \/ SeedRead(t, "seed", pool, "seeding", "map") \/ SeedWrite(t, "seeding", "map")
  PROVE  Typed' /\ Gate'
<1>0. FrameOK(t) /\ task[t] \in Frames
  BY DEF Gate, Typed
<1> USE DEF Building, Rebuilding, Written, At
<1>1. CASE Load(t)
  <2>1. Moves(t, "loaded") /\ task'[t].then = task[t].then /\ task'[t].list = registry
    BY <1>0, <1>1 DEF Load, Typed, Moves, Frames, Spots
  <2>2. UNCHANGED <<registry, verdicts, pool, lock, filling>> /\ At(t, "load")
    BY <1>1 DEF Load, ports, poolVars, gateVars
  <2>3. FrameOK(t)'
    BY <1>0, <2>1, <2>2 DEF FrameOK, Moves, Syncing
  <2>4. task[t].then # <<>>
    BY <2>2 DEF Typed
  <2> QED
    BY <1>0, <2>1, <2>2, <2>3, <2>4, HolderMoves DEF Moves, Typed, FrameOK
<1>2. CASE Reconcile(t)
  <2>1. Moves(t, "seed") /\ task'[t].then = task[t].then /\ pool' = task[t].list
    BY <1>0, <1>2 DEF Reconcile, Typed, Moves, Frames, Spots
  <2>2. UNCHANGED <<registry, verdicts, lock, filling>> /\ At(t, "loaded")
    BY <1>2 DEF Reconcile, ports, gateVars
  <2>3. Pending => Pending'
    BY <2>1, <2>2 DEF Pending, Moves
  <2>4. FrameOK(t)'
    BY <1>0, <2>1, <2>2, <2>3 DEF FrameOK, Moves, Syncing
  <2>5. task[t].then # <<>>
    BY <2>2 DEF Typed
  <2> QED
    BY <1>0, <2>1, <2>2, <2>4, <2>5, HolderMoves DEF Moves, Typed, FrameOK, Frames
<1>3. CASE \/ MapRead(t) \/ Resync(t)
           \/ SeedRead(t, "seed", pool, "seeding", "map") \/ SeedWrite(t, "seeding", "map")
  <2>1. PICK p \in Rebuilding : Moves(t, p) /\ task'[t].then = task[t].then /\ verdicts' \in [Names -> Verdicts]
    <3>1. CASE MapRead(t)
      BY <1>0, <3>1 DEF MapRead, Typed, Moves, Frames, Spots, ports
    <3>2. CASE Resync(t)
      <4>1. Unread \in [Names -> Verdicts]
        BY DEF Unread, Verdicts
      <4> QED
        BY <1>0, <3>2, <4>1 DEF Resync, Typed, Moves, Frames, Spots, ports
    <3>3. CASE SeedRead(t, "seed", pool, "seeding", "map")
      <4>1. Unread \in [Names -> Verdicts]
        BY DEF Unread, Verdicts
      <4> QED
        BY <1>0, <3>3, <4>1 DEF SeedRead, Typed, Moves, Frames, Spots, ports
    <3>4. CASE SeedWrite(t, "seeding", "map")
      <4>1. Unread \in [Names -> Verdicts]
        BY DEF Unread, Verdicts
      <4>2. verdicts' \in [Names -> Verdicts]
        BY <1>0, <3>4 DEF SeedWrite, Frames, Verdicts
      <4> QED
        BY <1>0, <3>4, <4>1, <4>2 DEF SeedWrite, Typed, Moves, Frames, Spots
    <3> QED
      BY <1>3, <3>1, <3>2, <3>3, <3>4
  <2>2. UNCHANGED <<registry, pool, lock, filling>> /\ task[t].at \in Rebuilding
    BY <1>3 DEF MapRead, Resync, SeedRead, SeedWrite, ports, poolVars, gateVars
  <2>3. Pending => Pending'
    BY <2>1, <2>2 DEF Pending, Moves
  <2>4. FrameOK(t)'
    BY <1>0, <2>1, <2>2, <2>3 DEF FrameOK, Moves, Syncing
  <2>5. task[t].then # <<>>
    BY <2>2 DEF Typed
  <2> QED
    BY <1>0, <2>1, <2>2, <2>4, <2>5, HolderMoves DEF Moves, Typed, FrameOK
<1> QED
  BY <1>1, <1>2, <1>3

-----------------------------------------------------------------------------
(* A sync, for the fill or for somebody else. *)
LEMMA UnreadTyped == Unread \in [Names -> Verdicts]
BY DEF Unread, Verdicts

(* It goes from one await to the next. *)
LEMMA SyncMoves ==
  ASSUME Typed, Gate, NEW t \in Tasks, NEW p \in Syncing, task[t].at \in Syncing, Moves(t, p),
         task'[t].then = task[t].then, UNCHANGED <<lock, filling, pool>>,
         registry' \subseteq Names, verdicts' \in [Names -> Verdicts],
         registry' = registry \/ p \in Written,
         task[t].at \in Written => p \in Written
  PROVE  Typed' /\ Gate'
<1>0. FrameOK(t) /\ task[t].then # <<>>
  BY DEF Gate, Typed, Syncing, Written
<1>1. p \notin Building \cup {"filled", "idle", "wait"}
  BY DEF Building, Rebuilding, Syncing, Written
<1>2. task[t].at \notin Building \cup {"filled", "idle", "wait"}
  BY DEF Building, Rebuilding, Syncing, Written
<1>3. CASE lock = t
  <2>1. FrameOK(t)'
    BY <1>0, <1>1, <1>2, <1>3 DEF FrameOK, Moves, Building
  <2> QED
    BY <1>0, <1>3, <2>1, HolderMoves DEF Moves, Typed
<1>4. CASE lock # t
  <2>1. ~(task[t].then[1] = "fill")
    BY <1>0, <1>4 DEF FrameOK
  <2> QED
    BY <1>0, <1>1, <1>2, <1>4, <2>1, BystanderMoves DEF Moves
<1> QED
  BY <1>3, <1>4

(* Its end: a fill that is over, or a rebuild to come, once nobody fills. *)
LEMMA SyncEndsKeep ==
  ASSUME Typed, Gate, NEW t \in Tasks, task[t].at \in Syncing, NEW failed \in BOOLEAN,
         failed <=> task[t].at \notin Written,
         SyncEnds(t, failed), UNCHANGED <<lock, pool, registry, verdicts>>
  PROVE  Typed' /\ Gate'
<1>0. FrameOK(t) /\ task[t].then # <<>> /\ task[t] \in Frames
  BY DEF Gate, Typed, Syncing, Written
<1>1. task[t].then \in Seq(Labels) /\ task[t].then[1] \in Labels
  <2>1. task[t].then \in Seq(Labels)
    BY <1>0 DEF Frames
  <2> QED
    BY <1>0, <2>1
<1>2. CASE task[t].then[1] = "fill"
  <2>1. lock = t /\ filling
    BY <1>0, <1>2 DEF FrameOK
  <2> DEFINE s == <<"provision">> \o Tail(task[t].then)
  <2>2. s \in Seq(Labels) /\ s[1] = "provision" /\ s # <<>>
    <3>1. Tail(task[t].then) \in Seq(Labels)
      BY <1>0, <1>1
    <3>2. <<"provision">> \in Seq(Labels)
      BY DEF Labels
    <3> QED
      BY <3>1, <3>2
  <2>3. /\ filling' = FALSE
        /\ task' = [task EXCEPT ![t] = [Idle EXCEPT !.at = "load", !.then = s]]
    BY <1>2, <2>1 DEF SyncEnds, Goes
  <2>4. [Idle EXCEPT !.at = "load", !.then = s] \in Frames
    BY <2>2, UnreadTyped DEF Idle, Frames, Spots, Building
  <2>5. Moves(t, "load") /\ task'[t].then = s
    BY <2>3, <2>4 DEF Moves, Typed, Idle
  <2>6. FrameOK(t)'
    BY <2>1, <2>2, <2>3, <2>5 DEF FrameOK, Moves, Syncing, Written, Building, Rebuilding
  <2> QED
    BY <2>1, <2>2, <2>5, <2>6, HolderMoves DEF Moves, Typed
<1>3. CASE task[t].then[1] # "fill"
  <2>1. lock # t /\ UNCHANGED filling
    BY <1>0, <1>3 DEF FrameOK, SyncEnds, Syncing, Written, Building, Rebuilding
  <2>3. PICK p \in {"idle", "wait"}, s \in Seq(Labels) :
          /\ task' = [task EXCEPT ![t] = [Idle EXCEPT !.at = p, !.then = s]]
          /\ p = "wait" => s # <<>>
          /\ failed \/ filling \/ p = "wait"
    <3>1. <<>> \in Seq(Labels) /\ <<"last">> \in Seq(Labels) /\ <<task[t].then[1]>> \in Seq(Labels)
      BY <1>1 DEF Labels
    <3>2. CASE failed
      BY <1>3, <3>1, <3>2 DEF SyncEnds, Goes, Attempted
    <3>3. CASE ~failed /\ filling
      BY <1>1, <1>3, <3>1, <3>3 DEF SyncEnds, Goes, Attempted, Over, Labels
    <3>4. CASE ~failed /\ ~filling
      BY <1>3, <3>1, <3>4 DEF SyncEnds, Goes
    <3> QED
      BY <3>2, <3>3, <3>4
  <2>4. Moves(t, p) /\ task'[t].then = s
    <3>1. [Idle EXCEPT !.at = p, !.then = s] \in Frames
      BY UnreadTyped DEF Idle, Frames, Spots
    <3> QED
      BY <2>3, <3>1 DEF Moves, Typed, Idle
  <2> QED
    BY <2>1, <2>3, <2>4, BystanderMoves DEF Moves, Typed, Syncing, Written, Building, Rebuilding
<1> QED
  BY <1>2, <1>3

LEMMA SyncKeeps ==
  ASSUME Typed, Gate, NEW t \in Tasks,
         \/ Fetch(t) \/ Merge(t) \/ Mirror(t) \/ Report(t)
         \/ SeedRead(t, "synced", registry, "syncing", "report") \/ SeedWrite(t, "syncing", "report")
  PROVE  Typed' /\ Gate'
<1>0. task[t] \in Frames
  BY DEF Typed
<1> USE DEF Syncing, Written, At
<1>1. CASE Fetch(t)
  <2>1. Moves(t, "current") /\ task'[t].then = task[t].then
    BY <1>0, <1>1, BrokerAssumption DEF Fetch, Typed, Moves, Frames, Spots
  <2> QED
    BY <1>1, <2>1, SyncMoves DEF Fetch, Typed, ports, poolVars, gateVars
<1>2. CASE Merge(t)
  <2>1. CASE SyncEnds(t, TRUE)
    BY <1>2, <2>1, SyncEndsKeep DEF Merge, ports, poolVars
  <2>2. CASE task' = [task EXCEPT ![t] = [task[t] EXCEPT !.at = "report", !.list = {}]] /\ UNCHANGED filling
    <3>1. Moves(t, "report") /\ task'[t].then = task[t].then
      BY <1>0, <2>2 DEF Typed, Moves, Frames, Spots
    <3> QED
      BY <1>2, <2>2, <3>1, SyncMoves DEF Merge, Typed, ports, poolVars
  <2>3. CASE task' = [task EXCEPT ![t] = [task[t] EXCEPT !.at = "mirror"]] /\ UNCHANGED filling
    <3>1. Moves(t, "mirror") /\ task'[t].then = task[t].then
      BY <1>0, <2>3 DEF Typed, Moves, Frames, Spots
    <3> QED
      BY <1>2, <2>3, <3>1, SyncMoves DEF Merge, Typed, ports, poolVars
  <2> QED
    BY <1>2, <2>1, <2>2, <2>3 DEF Merge
<1>3. CASE Mirror(t)
  <2>1. Moves(t, "synced") /\ task'[t].then = task[t].then /\ registry' \subseteq Names
    BY <1>0, <1>3 DEF Mirror, Typed, Moves, Frames, Spots
  <2> QED
    BY <1>3, <2>1, SyncMoves DEF Mirror, Typed, poolVars, gateVars
<1>4. CASE Report(t)
  BY <1>4, SyncEndsKeep DEF Report, ports, poolVars
<1>5. CASE SeedRead(t, "synced", registry, "syncing", "report")
  <2>1. PICK p \in {"syncing", "report"} : Moves(t, p) /\ task'[t].then = task[t].then
    BY <1>0, <1>5, UnreadTyped DEF SeedRead, Typed, Moves, Frames, Spots
  <2> QED
    BY <1>5, <2>1, SyncMoves DEF SeedRead, Typed, ports, poolVars, gateVars
<1>6. CASE SeedWrite(t, "syncing", "report")
  <2>1. Moves(t, "report") /\ task'[t].then = task[t].then
    BY <1>0, <1>6, UnreadTyped DEF SeedWrite, Typed, Moves, Frames, Spots
  <2>2. verdicts' \in [Names -> Verdicts]
    BY <1>0, <1>6 DEF SeedWrite, Frames, Verdicts
  <2> QED
    BY <1>6, <2>1, <2>2, SyncMoves DEF SeedWrite, Typed, poolVars, gateVars
<1> QED
  BY <1>1, <1>2, <1>3, <1>4, <1>5, <1>6

-----------------------------------------------------------------------------
(* The gate, and what does not wait for it. *)

(* An idle task that begins something holds nothing and announces nothing. *)
LEMMA Begins ==
  ASSUME Typed, Gate, NEW t \in Tasks, At(t, "idle"),
         NEW p \in {"idle", "gate", "fetch"}, Moves(t, p),
         p # "idle" => task'[t].then # <<>>, p = "fetch" => task'[t].then[1] # "fill",
         UNCHANGED <<registry, verdicts, pool, lock, filling>>
  PROVE  Typed' /\ Gate'
<1>1. lock # t
  BY DEF Gate, FrameOK, At, Building, Rebuilding, Syncing, Written
<1> QED
  BY <1>1, BystanderMoves DEF Moves, Typed, At, Building, Rebuilding, Syncing, Written

LEMMA GateKeeps ==
  ASSUME Typed, Gate, ~provisioned, NEW t \in Tasks,
         \/ Call(t, "route", {}) \/ Acquire(t) \/ Fill(t) \/ Sync(t) \/ Wait(t)
  PROVE  Typed' /\ Gate'
<1>0. FrameOK(t) /\ task[t] \in Frames /\ t # Nobody
  BY BrokerAssumption DEF Gate, Typed
<1>1. CASE Call(t, "route", {})
  <2>1. <<"route">> \in Seq(Labels) /\ <<"route">> # <<>>
    BY DEF Labels
  <2>2. task' = [task EXCEPT ![t] = [Idle EXCEPT !.at = "gate", !.then = <<"route">>, !.name = {}]]
    BY <1>1 DEF Call
  <2>3. [Idle EXCEPT !.at = "gate", !.then = <<"route">>, !.name = {}] \in Frames
    BY <2>1, UnreadTyped DEF Idle, Frames, Spots
  <2>4. Moves(t, "gate") /\ task'[t].then = <<"route">>
    BY <2>2, <2>3 DEF Moves, Typed, Idle
  <2>5. At(t, "idle") /\ UNCHANGED <<registry, verdicts, pool, lock, filling>>
    BY <1>1 DEF Call, ports, gateVars
  <2> QED
    BY <2>1, <2>4, <2>5, Begins
<1>2. CASE Sync(t)
  <2>1. <<"sync">> \in Seq(Labels) /\ <<"sync">> # <<>> /\ <<"sync">>[1] # "fill"
    BY DEF Labels
  <2>2. task' = [task EXCEPT ![t] = [Idle EXCEPT !.at = "fetch", !.then = <<"sync">>]]
    BY <1>2 DEF Sync, Goes
  <2>3. [Idle EXCEPT !.at = "fetch", !.then = <<"sync">>] \in Frames
    BY <2>1, UnreadTyped DEF Idle, Frames, Spots, Syncing
  <2>4. Moves(t, "fetch") /\ task'[t].then = <<"sync">>
    BY <2>2, <2>3 DEF Moves, Typed, Idle
  <2>5. At(t, "idle") /\ UNCHANGED <<registry, verdicts, pool, lock, filling>>
    BY <1>2 DEF Sync, ports, poolVars, gateVars
  <2> QED
    BY <2>1, <2>4, <2>5, Begins
<1>3. CASE Acquire(t)
  <2>1. At(t, "gate") /\ lock = Nobody /\ lock' = t /\ ~filling
    BY <1>3 DEF Acquire, Gate
  <2>2. UNCHANGED <<registry, verdicts, pool, filling>>
    BY <1>3 DEF Acquire, ports
  <2>3. task[t].then \in Seq(Labels) /\ task[t].then # <<>>
    BY <1>0, <2>1 DEF Typed, Frames, At
  <2>4. <<"provision">> \o task[t].then \in Seq(Labels) /\ (<<"provision">> \o task[t].then)[1] = "provision"
        /\ <<"provision">> \o task[t].then # <<>>
    <3>1. <<"provision">> \in Seq(Labels)
      BY DEF Labels
    <3> QED
      BY <2>3, <3>1
  <2>5. CASE attempted
    <3>1. task' = [task EXCEPT ![t] = [task[t] EXCEPT !.at = "load", !.then = <<"provision">> \o task[t].then]]
      BY <1>3, <2>5 DEF Acquire
    <3>2. Moves(t, "load") /\ task'[t].then = <<"provision">> \o task[t].then
      BY <1>0, <2>4, <3>1 DEF Moves, Typed, Frames, Spots, Building
    <3>3. FrameOK(t)'
      BY <2>1, <2>2, <2>4, <3>2 DEF FrameOK, Moves, Building, Rebuilding, Syncing, Written
    <3> QED
      BY <2>1, <2>2, <2>4, <3>2, <3>3, HolderMoves DEF Moves, Typed
  <2>6. CASE ~attempted
    <3>1. task' = [task EXCEPT ![t] = [task[t] EXCEPT !.at = "filled", !.then = task[t].then]]
      BY <1>3, <2>6 DEF Acquire
    <3>2. Moves(t, "filled") /\ task'[t].then = task[t].then
      BY <1>0, <3>1 DEF Moves, Typed, Frames, Spots
    <3>3. FrameOK(t)'
      BY <2>1, <2>2, <3>2 DEF FrameOK, Moves, Building, Rebuilding, Syncing, Written
    <3> QED
      BY <2>1, <2>2, <2>3, <3>2, <3>3, HolderMoves DEF Moves, Typed
  <2> QED
    BY <2>5, <2>6
<1>4. CASE Fill(t)
  <2>1. At(t, "filled") /\ lock = t /\ ~filling
    BY <1>0, <1>4 DEF Fill, FrameOK, At, Syncing, Written
  <2>2. UNCHANGED <<registry, verdicts, pool, lock>>
    BY <1>4 DEF Fill, ports, poolVars
  <2>3. task[t].then \in Seq(Labels)
    BY <1>0 DEF Frames
  <2>4. ASSUME NEW l \in {"fill", "provision"}
        PROVE  /\ <<l>> \o task[t].then \in Seq(Labels) /\ (<<l>> \o task[t].then)[1] = l
               /\ <<l>> \o task[t].then # <<>>
    <3>1. <<l>> \in Seq(Labels)
      BY DEF Labels
    <3> QED
      BY <2>3, <3>1
  <2>5. CASE registry = {}
    <3>1. /\ filling' = TRUE
          /\ task' = [task EXCEPT ![t] = [task[t] EXCEPT !.at = "fetch", !.then = <<"fill">> \o task[t].then]]
      BY <1>4, <2>5 DEF Fill
    <3>2. Moves(t, "fetch") /\ task'[t].then = <<"fill">> \o task[t].then
      BY <1>0, <2>4, <3>1 DEF Moves, Typed, Frames, Spots, Syncing
    <3>3. FrameOK(t)'
      BY <2>1, <2>2, <2>4, <3>1, <3>2 DEF FrameOK, Moves, Building, Rebuilding, Syncing, Written
    <3> QED
      BY <2>1, <2>2, <2>4, <3>2, <3>3, HolderMoves DEF Moves, Typed
  <2>6. CASE registry # {}
    <3>1. /\ UNCHANGED filling
          /\ task' = [task EXCEPT ![t] = [task[t] EXCEPT !.at = "load", !.then = <<"provision">> \o task[t].then]]
      BY <1>4, <2>6 DEF Fill
    <3>2. Moves(t, "load") /\ task'[t].then = <<"provision">> \o task[t].then
      BY <1>0, <2>4, <3>1 DEF Moves, Typed, Frames, Spots, Building
    <3>3. FrameOK(t)'
      BY <2>1, <2>2, <2>4, <3>1, <3>2 DEF FrameOK, Moves, Building, Rebuilding, Syncing, Written
    <3> QED
      BY <2>1, <2>2, <2>4, <3>2, <3>3, HolderMoves DEF Moves, Typed
  <2> QED
    BY <2>5, <2>6
<1>5. CASE Wait(t)
  <2>1. At(t, "wait") /\ lock = Nobody /\ Over(t)
    BY <1>5 DEF Wait
  <2>2. UNCHANGED <<registry, verdicts, pool, lock, filling>>
    BY <1>5 DEF Wait, ports, poolVars, gateVars
  <2>3. task[t].then \in Seq(Labels) /\ task[t].then # <<>> /\ task[t].then[1] \in Labels
    <3>1. task[t].then \in Seq(Labels) /\ task[t].then # <<>>
      BY <1>0, <2>1 DEF Typed, Frames, At
    <3> QED
      BY <3>1
  <2>4. PICK p \in {"idle", "wait"}, s \in Seq(Labels) :
          /\ task' = [task EXCEPT ![t] = [Idle EXCEPT !.at = p, !.then = s]]
          /\ p = "wait" => s # <<>>
    <3>1. <<>> \in Seq(Labels) /\ <<"last">> \in Seq(Labels) /\ <<"last">> # <<>>
      BY DEF Labels
    <3> QED
      BY <2>1, <2>3, <3>1 DEF Over, Goes, Attempted, Labels
  <2>5. Moves(t, p) /\ task'[t].then = s
    <3>1. [Idle EXCEPT !.at = p, !.then = s] \in Frames
      BY UnreadTyped DEF Idle, Frames, Spots
    <3> QED
      BY <2>4, <3>1 DEF Moves, Typed, Idle
  <2> QED
    BY <1>0, <2>1, <2>2, <2>4, <2>5, BystanderMoves
       DEF Moves, Typed, Syncing, Written, Building, Rebuilding
<1> QED
  BY <1>1, <1>2, <1>3, <1>4, <1>5

(* The lock is given up over an empty registry. *)
LEMMA Releases ==
  ASSUME Typed, Gate, NEW t \in Tasks, lock = t, task[t].at \in Rebuilding,
         task' = [task EXCEPT ![t] = Idle], lock' = Nobody,
         UNCHANGED <<registry, verdicts, pool, filling>>
  PROVE  Typed' /\ Gate'
<1>1. <<>> \in Seq(Labels)
  OBVIOUS
<1>2. Idle \in Frames /\ Idle.at = "idle"
  BY <1>1, UnreadTyped DEF Idle, Frames, Spots
<1>3. Typed'
  BY <1>2 DEF Typed
<1>4. ~filling
  BY DEF Gate, FrameOK, Rebuilding, Syncing, Written
<1>5. ASSUME NEW u \in Tasks
      PROVE  FrameOK(u)'
  <2>1. FrameOK(u) /\ u # Nobody
    BY BrokerAssumption DEF Gate
  <2>2. CASE u = t
    BY <1>2, <1>4, <2>1, <2>2 DEF FrameOK, Typed, Building, Rebuilding, Syncing, Written
  <2>3. CASE u # t
    <3>1. task'[u] = task[u]
      BY <2>3
    <3>2. task[u].at \notin Building \cup {"filled"} /\ ~(task[u].at \in Syncing /\ task[u].then[1] = "fill")
      BY <2>1, <2>3 DEF FrameOK
    <3> QED
      BY <2>1, <3>1, <3>2 DEF FrameOK, Building
  <2> QED
    BY <2>2, <2>3
<1> QED
  BY <1>3, <1>4, <1>5 DEF Gate

(* direct() passes no gate; at most it starts the refresh that is due. *)
LEMMA DirectKeeps ==
  ASSUME Typed, Gate, NEW t \in Admins, Direct(t)
  PROVE  Typed' /\ Gate'
<1>0. t \in Tasks /\ Refresher \in Tasks /\ t # Refresher
  BY BrokerAssumption DEF Tasks
<1>1. UNCHANGED <<registry, verdicts, pool, lock, filling>> /\ At(t, "idle")
  BY DEF Direct, ports, poolVars, gateVars
<1>2. \/ task' = [task EXCEPT ![t] = Idle]
      \/ At(Refresher, "idle") /\ task' = [task EXCEPT ![t] = Idle, ![Refresher] = Start]
  BY DEF Direct, Scheduling, Due
<1>3. <<>> \in Seq(Labels) /\ <<"attempt">> \in Seq(Labels) /\ <<"attempt">> # <<>>
      /\ <<"attempt">>[1] # "fill"
  BY DEF Labels
<1>4. Idle \in Frames /\ Start \in Frames
  BY <1>3, UnreadTyped DEF Idle, Start, Frames, Spots, Syncing
<1>5. Start.at = "fetch" /\ Start.then = <<"attempt">> /\ Idle.at = "idle"
  BY DEF Start, Idle
<1>6. /\ task' \in [Tasks -> Frames]
      /\ \A u \in Tasks \ {t, Refresher} : task'[u] = task[u]
      /\ task'[t] = Idle
      /\ \/ task'[Refresher] = task[Refresher]
         \/ At(Refresher, "idle") /\ task'[Refresher] = Start
  <2>1. task \in [Tasks -> Frames]
    BY DEF Typed
  <2>2. CASE task' = [task EXCEPT ![t] = Idle]
    <3>1. task'[t] = Idle /\ \A u \in Tasks \ {t} : task'[u] = task[u]
      BY <1>0, <2>1, <2>2
    <3>2. task' \in [Tasks -> Frames]
      BY <1>4, <2>1, <2>2
    <3> QED
      BY <1>0, <3>1, <3>2
  <2>3. CASE At(Refresher, "idle") /\ task' = [task EXCEPT ![t] = Idle, ![Refresher] = Start]
    BY <1>0, <1>4, <2>1, <2>3
  <2> QED
    BY <1>2, <2>2, <2>3
<1>7. Typed'
  BY <1>0, <1>1, <1>3, <1>5, <1>6 DEF Typed
<1>8. Pending => Pending'
  BY <1>0, <1>1, <1>6 DEF Pending, At, Written
<1>9. ASSUME NEW u \in Tasks
      PROVE  FrameOK(u)'
  <2>1. FrameOK(u)
    BY DEF Gate
  <2>2. CASE task'[u] = task[u]
    BY <1>1, <1>8, <2>1, <2>2 DEF FrameOK
  <2>3. CASE task[u].at = "idle" /\ task'[u] \in {Idle, Start}
    BY <1>1, <1>3, <1>5, <2>1, <2>3 DEF FrameOK, Building, Rebuilding, Syncing, Written
  <2> QED
    BY <1>1, <1>6, <2>2, <2>3 DEF At
<1> QED
  BY <1>1, <1>7, <1>9 DEF Gate

(* The clock runs beside it all. *)
LEMMA NothingKeeps ==
  ASSUME Typed, Gate, UNCHANGED <<registry, verdicts, pool, lock, filling, task>>
  PROVE  Typed' /\ Gate'
BY DEF Typed, Gate, FrameOK, Pending

-----------------------------------------------------------------------------
LEMMA GateInit == Init => GateInv
<1> SUFFICES ASSUME Init PROVE GateInv
  OBVIOUS
<1>1. <<>> \in Seq(Labels)
  OBVIOUS
<1>2. Idle \in Frames /\ Idle.at = "idle"
  BY <1>1, UnreadTyped DEF Idle, Frames, Spots
<1>3. Typed
  BY <1>2, UnreadTyped, BrokerAssumption DEF Init, Typed
<1>4. Gate
  BY <1>2, BrokerAssumption DEF Init, Gate, FrameOK, Building, Rebuilding, Syncing, Written
<1> QED
  BY <1>3, <1>4 DEF Init, GateInv

(* A task's own step leaves the shutdown and the count of outside events alone. *)
LEMMA StepsAreQuiet ==
  ASSUME NEW t \in Tasks, Step(t) \/ Wait(t)
  PROVE  UNCHANGED <<closing, events>> /\ (provisioned => provisioned')
<1>1. CASE Load(t) \/ Reconcile(t) \/ MapRead(t) \/ Resync(t)
  BY <1>1 DEF Load, Reconcile, MapRead, Resync, gateVars
<1>2. CASE Rebuilt(t)
  BY <1>2 DEF Rebuilt, Provisioned
<1>3. CASE SyncStep(t)
  <2>1. CASE Fetch(t) \/ Mirror(t)
    BY <2>1 DEF Fetch, Mirror, gateVars
  <2>2. CASE Merge(t)
    BY <2>2, Zenon DEF Merge
  <2>3. CASE Report(t)
    BY <2>3 DEF Report
  <2> QED
    BY <1>3, <2>1, <2>2, <2>3 DEF SyncStep
<1>4. CASE Seed(t)
  <2>1. ASSUME NEW from, NEW names, NEW to, NEW past, SeedRead(t, from, names, to, past)
        PROVE  UNCHANGED <<closing, events, provisioned>>
    BY <2>1 DEF SeedRead, gateVars
  <2>2. ASSUME NEW from, NEW past, SeedWrite(t, from, past)
        PROVE  UNCHANGED <<closing, events, provisioned>>
    BY <2>2 DEF SeedWrite, gateVars
  <2> QED
    BY <1>4, <2>1, <2>2, Zenon DEF Seed
<1>5. CASE RequestStep(t)
  BY <1>5 DEF RequestStep, Fill, Answered, Raised, VerdictRead, VerdictWrite, gateVars
<1>6. CASE Wait(t)
  BY <1>6 DEF Wait, gateVars
<1> QED
  BY <1>1, <1>2, <1>3, <1>4, <1>5, <1>6 DEF Step, RebuildStep

(* Nothing goes back to an unprovisioned broker that nothing has happened to. *)
LEMMA OnlyForward ==
  ASSUME GateInv, Next, Unprovisioned'
  PROVE  /\ Unprovisioned
         /\ ~\E t \in Tasks : RebuildFails(t) \/ FetchFails(t) \/ ProvisioningFails(t)
         /\ ~Restart /\ ~Peer /\ ~Close /\ ~ClosePorts
         /\ \A t \in Admins, goal \in {"disable", "enable"}, n \in Names : ~Call(t, goal, {n})
<1>1. ~Event
  BY DEF Event, GateInv, Unprovisioned
<1>2. /\ ~\E t \in Tasks : RebuildFails(t) \/ FetchFails(t) \/ ProvisioningFails(t)
      /\ ~Restart /\ ~Peer
      /\ \A t \in Admins, goal \in {"disable", "enable"}, n \in Names : ~Call(t, goal, {n})
  BY <1>1 DEF RebuildFails, FetchFails, ProvisioningFails, Restart, Peer, Call
<1>3. ~Close /\ ~ClosePorts
  BY DEF Close, ClosePorts, Unprovisioned
<1>4. ASSUME NEW t \in Tasks, Step(t) \/ Wait(t)
      PROVE  UNCHANGED <<closing, events>> /\ (provisioned => provisioned')
  BY <1>4, StepsAreQuiet
<1>5. ASSUME NEW t \in Tasks, Call(t, "route", {}) \/ Acquire(t) \/ Exhausted(t) \/ Direct(t) \/ Sync(t)
      PROVE  UNCHANGED <<closing, events>> /\ (provisioned => provisioned')
  BY <1>5 DEF Call, Acquire, Exhausted, Direct, Sync, gateVars
<1>6. ASSUME Elapse
      PROVE  UNCHANGED <<closing, events>> /\ (provisioned => provisioned')
  BY <1>6 DEF Elapse, gateVars
<1>7. UNCHANGED <<closing, events>> /\ (provisioned => provisioned')
  BY <1>2, <1>3, <1>4, <1>5, <1>6, BrokerAssumption DEF Next, Tasks
<1> QED
  BY <1>2, <1>3, <1>7 DEF Unprovisioned

LEMMA GateStep == GateInv /\ [Next]_vars => GateInv'
<1> SUFFICES ASSUME GateInv, [Next]_vars
             PROVE  GateInv'
  OBVIOUS
<1>1. events' \in Nat
  <2>0. events \in Nat
    BY DEF GateInv
  <2>1. UNCHANGED vars => UNCHANGED events
    BY DEF vars
  <2>2. Event \/ UNCHANGED events \/ events' = 0 => events' \in Nat
    BY <2>0 DEF Event
  <2>3. ASSUME NEW t \in Tasks, Step(t) \/ Wait(t)
        PROVE  UNCHANGED events
    BY <2>3, StepsAreQuiet
  <2>4. ASSUME NEW t, RebuildFails(t) \/ FetchFails(t) \/ ProvisioningFails(t)
        PROVE  Event
    BY <2>4 DEF RebuildFails, FetchFails, ProvisioningFails
  <2>5. ASSUME NEW t, Acquire(t) \/ Exhausted(t) \/ Direct(t) \/ Sync(t)
        PROVE  UNCHANGED events
    BY <2>5 DEF Acquire, Exhausted, Direct, Sync
  <2>6. ASSUME NEW t, NEW goal, NEW n, Call(t, goal, n)
        PROVE  Event \/ UNCHANGED events
    BY <2>6 DEF Call
  <2>7. Elapse \/ Close \/ ClosePorts => UNCHANGED events
    BY DEF Elapse, Close, ClosePorts
  <2>8. Restart \/ Peer => Event
    BY DEF Restart, Peer
  <2> QED
    BY <2>1, <2>2, <2>3, <2>4, <2>5, <2>6, <2>7, <2>8 DEF Next
<1>2. ASSUME Unprovisioned', Next
      PROVE  Typed' /\ Gate'
  <2>0. Unprovisioned /\ Typed /\ Gate /\ ~provisioned
    BY <1>2, OnlyForward DEF GateInv, Unprovisioned
  <2>1. ASSUME NEW t \in Tasks, Step(t)
        PROVE  Typed' /\ Gate'
    <3>1. task[t].at \in Spots
      BY <2>0 DEF Typed, Frames
    <3>2. ~(Answered(t) \/ Raised(t) \/ VerdictRead(t) \/ VerdictWrite(t))
      BY <3>1 DEF Answered, Raised, VerdictRead, VerdictWrite, At, Spots, Building, Rebuilding,
                  Syncing, Written
    <3>3. CASE Rebuilt(t)
      <4>1. At(t, "relearn") /\ lock = t /\ task[t].then[1] = "provision"
        BY <2>0, <3>3 DEF Rebuilt, At, Gate, FrameOK, Building, Rebuilding
      <4>2. task' = [task EXCEPT ![t] = Idle] /\ lock' = Nobody /\ UNCHANGED <<registry, verdicts, pool, filling>>
        BY <1>2, <3>3, <4>1 DEF Rebuilt, Provisioned, Unprovisioned, ports
      <4> QED
        BY <2>0, <4>1, <4>2, Releases DEF At, Rebuilding
    <3> QED
      BY <2>0, <2>1, <3>2, <3>3, RebuildKeeps, SyncKeeps, GateKeeps
         DEF Step, RebuildStep, SyncStep, Seed, RequestStep
  <2>2. ASSUME NEW t \in Requests, Call(t, "route", {}) \/ Acquire(t) \/ Exhausted(t)
        PROVE  Typed' /\ Gate'
    <3>1. t \in Tasks /\ task[t].at \in Spots
      BY <2>0 DEF Typed, Frames, Tasks
    <3>2. ~Exhausted(t)
      BY <3>1 DEF Exhausted, At, Spots, Building, Rebuilding, Syncing, Written
    <3> QED
      BY <2>0, <2>2, <3>1, <3>2, GateKeeps
  <2>3. ASSUME NEW t \in Admins, Direct(t) \/ Sync(t)
        PROVE  Typed' /\ Gate'
    <3>1. t \in Tasks
      BY BrokerAssumption DEF Tasks
    <3> QED
      BY <2>0, <2>3, <3>1, DirectKeeps, GateKeeps
  <2>4. ASSUME NEW t \in Tasks, Wait(t)
        PROVE  Typed' /\ Gate'
    BY <2>0, <2>4, GateKeeps
  <2>5. CASE Elapse
    BY <2>0, <2>5, NothingKeeps DEF Elapse, ports, poolVars, gateVars
  <2> QED
    BY <1>2, <2>1, <2>2, <2>3, <2>4, <2>5, OnlyForward DEF Next, Tasks
<1>3. ASSUME Unprovisioned', UNCHANGED vars
      PROVE  Typed' /\ Gate'
  <2>1. UNCHANGED <<registry, verdicts, pool, lock, filling, task, closing, events, provisioned>>
    BY <1>3 DEF vars, ports, poolVars, gateVars
  <2> QED
    BY <1>3, <2>1, NothingKeeps DEF GateInv, Unprovisioned
<1> QED
  BY <1>1, <1>2, <1>3 DEF GateInv

(* Who holds the lock, what it builds and who has written since, for any     *)
(* tasks: the inductive invariant of provisioning.                           *)
THEOREM GateInvariant == BrokerSpec => []GateInv
BY GateInit, GateStep, PTL DEF BrokerSpec

(* A write that lands while the pool is being provisioned is not lost: its   *)
(* writer waits the provisioning out and rebuilds (_rebuild_after_sync, the  *)
(* fill under the lock).                                                     *)
THEOREM WritesAreSeen == BrokerSpec => NoWriteIsMissed
<1>1. ASSUME GateInv, Next, provisioned', ~provisioned, closing = "open", events = 0
      PROVE  \/ pool = registry
             \/ \E t \in Tasks : task[t].at \in {"synced", "syncing", "report", "wait"}
  <2>0. Typed /\ Gate
    BY <1>1 DEF GateInv, Unprovisioned
  <2>1. PICK t \in Tasks : Rebuilt(t) /\ Provisioned(t)
    <3>1. ASSUME NEW t \in Tasks, Step(t)
          PROVE  Rebuilt(t) /\ Provisioned(t)
      BY <1>1, <3>1 DEF Step, RebuildStep, SyncStep, Seed, RequestStep, Load, Reconcile, MapRead, Resync,
              Rebuilt, Fetch, Merge, Mirror, Report, SeedRead, SeedWrite, Fill, Answered,
              Raised, VerdictRead, VerdictWrite, gateVars
    <3>2. \E t \in Tasks : Step(t)
      BY <1>1 DEF Next, Call, Acquire, Exhausted, Direct, Sync, Wait, RebuildFails, FetchFails,
                  ProvisioningFails, Elapse,
                  Close, ClosePorts, Restart, Peer, gateVars
    <3> QED
      BY <3>1, <3>2
  <2>2. task[t].at \in Rebuilding /\ FrameOK(t)
    BY <2>0, <2>1 DEF Rebuilt, At, Rebuilding, Gate
  <2> QED
    BY <2>2 DEF FrameOK, Pending, Written
<1>2. GateInv /\ [Next]_vars =>
        [provisioned' /\ ~provisioned /\ closing = "open" /\ events = 0 =>
           \/ pool = registry
           \/ \E t \in Tasks : task[t].at \in {"synced", "syncing", "report", "wait"}]_vars
  BY <1>1
<1> QED
  BY <1>2, GateInvariant, PTL DEF BrokerSpec, NoWriteIsMissed
===============================================================================
