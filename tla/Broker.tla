-------------------------------- MODULE Broker --------------------------------
(***************************************************************************)
(* One installation in one process: the provisioning gate, the four        *)
(* triggers of a rebuild, the refresh clock, the explicit sync, the admin  *)
(* verbs and the shutdown (broker/broker.py, broker/refresher.py,          *)
(* broker/catalog.py), over a registry and a file store that other         *)
(* processes edit too.                                                     *)
(*                                                                         *)
(* A task is a request or the background refresh.  `at` is the await it    *)
(* stands at, `then` what it returns to, innermost first.  A port is read  *)
(* at one moment and its answer used when the task resumes; what the code  *)
(* does between two awaits is one action.  Keys are KeyRing's, the merge   *)
(* is ModelList's, routing is Router's: here a sync makes the registry the *)
(* list that was fetched, and a routed call answers or finds the pool      *)
(* exhausted.                                                              *)
(***************************************************************************)
EXTENDS Integers, Sequences

CONSTANTS
  Names,      \* model names
  Requests,   \* the tasks of callers
  Admins,     \* those of them that sync, set verdicts and call direct()
  Refresher,  \* the background task
  Nobody,     \* no holder of the provision lock
  Filled,     \* what the registry may hold at the start
  Curated,    \* the curated list
  MaxEvents   \* bound on outside edits, admin verbs, failures and restarts

Tasks == Requests \cup {Refresher}

ASSUME BrokerAssumption ==
  /\ Refresher \notin Requests /\ Admins \subseteq Requests
  /\ Nobody \notin Tasks
  /\ Filled \subseteq SUBSET Names /\ Curated \subseteq Names
  /\ MaxEvents \in Nat

VARIABLES
  registry,     \* the stored list
  verdicts,     \* the disabled map of the store
  pool, latched,\* the live pool, and the slots withdrawn in it
  empty,        \* Catalog._empty
  provisioned,
  attempted,    \* ModelListRefresher._attempted
  filling,      \* ModelListRefresher._filling
  clock,        \* whether _next_refresh is unset, ahead, or reached
  quiet,        \* the debounce of the exhaustion trigger
  lock,         \* who holds _provision_lock
  task,
  closing,
  events

ports == <<registry, verdicts>>
poolVars == <<pool, latched, empty>>
gateVars == <<provisioned, attempted, filling, lock>>
clockVars == <<clock, quiet>>
vars == <<ports, poolVars, gateVars, clockVars, task, closing, events>>

Verdicts == {"unset", "enabled", "disabled"}
Unread == [n \in Names |-> "unset"]
Idle == [at |-> "idle", then |-> <<>>, list |-> {}, seen |-> Unread, name |-> {}]

At(t, p) == task[t].at = p

BrokerTypeOK ==
  /\ registry \subseteq Names
  /\ verdicts \in [Names -> Verdicts]
  /\ pool \subseteq Names /\ latched \subseteq pool /\ empty \in BOOLEAN
  /\ provisioned \in BOOLEAN /\ attempted \in BOOLEAN /\ filling \in BOOLEAN
  /\ clock \in {"unset", "ahead", "reached"} /\ quiet \in BOOLEAN
  /\ lock \in Tasks \cup {Nobody}
  /\ \A t \in Tasks :
       /\ task[t].at \in {"idle", "gate", "filled", "load", "loaded", "seed", "seeding", "map",
                          "mapped", "relearn", "fetch", "current", "mirror", "synced",
                          "syncing", "report", "wait", "verb", "ruling", "route", "again"}
       /\ Len(task[t].then) <= 2
       /\ task[t].list \subseteq Names /\ task[t].seen \in [Names -> Verdicts]
       /\ task[t].name \subseteq Names
  /\ closing \in {"open", "closing", "closed"}
  /\ events \in 0 .. MaxEvents

Init ==
  /\ registry \in Filled
  /\ verdicts = Unread
  /\ pool = {} /\ latched = {} /\ empty = FALSE
  /\ provisioned = FALSE /\ attempted = FALSE /\ filling = FALSE /\ lock = Nobody
  /\ clock = "unset" /\ quiet = FALSE
  /\ task = [t \in Tasks |-> Idle]
  /\ closing = "open" /\ events = 0

Event == events < MaxEvents /\ events' = events + 1

----------------------------------------------------------------------------
(* The clock. *)

Start == [Idle EXCEPT !.at = "fetch", !.then = <<"attempt">>]

Due(c) == c = "reached" /\ At(Refresher, "idle")

(* Task t goes on as `rec`, once it has fired a refresh that is due; `c` is the clock. *)
Scheduling(t, rec, c) ==
  /\ clock' = IF Due(c) THEN "ahead" ELSE c
  /\ task' = IF Due(c) THEN [task EXCEPT ![t] = rec, ![Refresher] = Start]
             ELSE [task EXCEPT ![t] = rec]

(* Armed once, by the age of the check record that another process left behind; the   *)
(* start fill sets the first deadline itself.                                         *)
Armed == IF clock # "unset" \/ filling THEN {clock} ELSE {"ahead", "reached"}

Elapse ==
  /\ clock = "ahead" \/ quiet
  /\ clock' = IF clock = "ahead" THEN "reached" ELSE clock
  /\ quiet' = FALSE
  /\ UNCHANGED <<ports, poolVars, gateVars, task, closing, events>>

(* direct(): no gate, but the clock, which it arms where an alias is followed. *)
Direct(t) ==
  /\ At(t, "idle") /\ closing = "open"
  /\ \E c \in Armed \cup {clock} : Scheduling(t, Idle, c)
  /\ UNCHANGED <<ports, poolVars, gateVars, quiet, closing, events>>

----------------------------------------------------------------------------
(* The gate. *)

(* What a caller of ensure_pool does with a pool: route, or set a verdict in the live *)
(* pool and then in the store.                                                        *)
Enter(t, goal, n, c) ==
  /\ Scheduling(t, [Idle EXCEPT !.at = IF goal = "route" THEN "route" ELSE "verb",
                               !.then = <<goal>>, !.name = n], c)
  /\ latched' = CASE goal = "disable" -> latched \cup (n \cap pool)
                  [] goal = "enable" -> latched \ n
                  [] OTHER -> latched

Call(t, goal, n) ==
  /\ At(t, "idle") /\ closing = "open"
  /\ IF goal = "route" THEN n = {} /\ UNCHANGED events ELSE n # {} /\ Event
  /\ \/ /\ provisioned
        /\ Enter(t, goal, n, clock)
     \/ /\ ~provisioned
        /\ task' = [task EXCEPT ![t] = [Idle EXCEPT !.at = "gate", !.then = <<goal>>, !.name = n]]
        /\ UNCHANGED <<latched, clock>>
  /\ UNCHANGED <<ports, pool, empty, gateVars, quiet, closing>>

(* The lock is granted; a pool provisioned meanwhile is entered at once. *)
Acquire(t) ==
  /\ At(t, "gate") /\ lock = Nobody
  /\ \/ /\ provisioned
        /\ Enter(t, task[t].then[1], task[t].name, clock)
        /\ UNCHANGED <<lock, attempted>>
     \/ /\ ~provisioned
        /\ lock' = t
        /\ attempted' = TRUE
        /\ task' = [task EXCEPT ![t].at = IF attempted THEN "load" ELSE "filled",
                                ![t].then = IF attempted THEN <<"provision">> \o @ ELSE @]
        /\ UNCHANGED <<latched, clock>>
  /\ UNCHANGED <<ports, pool, empty, provisioned, filling, quiet, closing, events>>

(* Fault: the fill asks for a rebuild like any other sync. *)
FillUnmarked(t) ==
  /\ At(t, "filled")
  /\ task' = [task EXCEPT ![t].at = IF registry = {} THEN "fetch" ELSE "load",
                          ![t].then = <<IF registry = {} THEN "fill" ELSE "provision">> \o @]
  /\ IF registry = {} THEN UNCHANGED clock ELSE clock' \in Armed
  /\ UNCHANGED <<ports, poolVars, gateVars, quiet, closing, events>>

(* before_provision: an empty registry is filled first. *)
Fill(t) ==
  /\ At(t, "filled")
  /\ \/ /\ registry = {}
        /\ filling' = TRUE
        /\ task' = [task EXCEPT ![t].at = "fetch", ![t].then = <<"fill">> \o @]
        /\ UNCHANGED clock
     \/ /\ registry # {}
        /\ clock' \in Armed
        /\ task' = [task EXCEPT ![t].at = "load", ![t].then = <<"provision">> \o @]
        /\ UNCHANGED filling
  /\ UNCHANGED <<ports, poolVars, provisioned, attempted, lock, quiet, closing, events>>

(* Whoever holds the lock is cancelled at its await, or the registry cannot be read:  *)
(* the lock is released, and a fill that was under way has set the deadline.  The     *)
(* attempt counts all the same, so a clock not armed by now stays unset.              *)
ProvisioningFails(t) ==
  /\ lock = t /\ Event
  /\ lock' = Nobody /\ filling' = FALSE
  /\ clock' = IF filling THEN "ahead" ELSE clock
  /\ task' = [task EXCEPT ![t] = Idle]
  /\ UNCHANGED <<ports, poolVars, provisioned, attempted, quiet, closing>>

(* check_not_empty. *)
Provisioned(t) ==
  /\ lock' = Nobody
  /\ \/ /\ empty
        /\ task' = [task EXCEPT ![t] = Idle]
        /\ UNCHANGED <<provisioned, clock, latched>>
     \/ /\ ~empty
        /\ provisioned' = TRUE
        /\ Enter(t, task[t].then[2], task[t].name, clock)

----------------------------------------------------------------------------
(* The rebuild. *)

(* The registry is read: the keys have been, and the answer is used on resuming. *)
Load(t) ==
  /\ At(t, "load")
  /\ task' = [task EXCEPT ![t].at = "loaded", ![t].list = registry]
  /\ UNCHANGED <<ports, poolVars, gateVars, clockVars, closing, events>>

Reconcile(t) ==
  /\ At(t, "loaded")
  /\ empty' = (task[t].list = {})
  /\ pool' = task[t].list
  /\ latched' = latched \cap task[t].list
  /\ task' = [task EXCEPT ![t].at = "seed", ![t].list = {}]
  /\ UNCHANGED <<ports, gateVars, clockVars, closing, events>>

(* seed_disabled of the file store: the map is read, and rewritten where a name is *)
(* missing, over two awaits.                                                       *)
SeedRead(t, from, names, to, past) ==
  /\ At(t, from)
  /\ task' = [task EXCEPT
       ![t].at = IF \E n \in names : verdicts[n] = "unset" THEN to ELSE past,
       ![t].seen = IF \E n \in names : verdicts[n] = "unset" THEN verdicts ELSE Unread,
       ![t].list = names]
  /\ UNCHANGED <<ports, poolVars, gateVars, clockVars, closing, events>>

SeedWrite(t, from, past) ==
  /\ At(t, from)
  /\ verdicts' = [n \in Names |-> IF n \in task[t].list /\ task[t].seen[n] = "unset"
                                  THEN "enabled" ELSE task[t].seen[n]]
  /\ task' = [task EXCEPT ![t].at = past, ![t].seen = Unread, ![t].list = {}]
  /\ UNCHANGED <<registry, poolVars, gateVars, clockVars, closing, events>>

MapRead(t) ==
  /\ At(t, "map")
  /\ task' = [task EXCEPT ![t].at = "mapped", ![t].seen = verdicts, ![t].list = {}]
  /\ UNCHANGED <<ports, poolVars, gateVars, clockVars, closing, events>>

(* Fault: the verdicts of the store only ever withdraw. *)
ResyncWithdraws(t) ==
  /\ At(t, "mapped")
  /\ latched' = latched \cup {n \in pool : task[t].seen[n] = "disabled"}
  /\ task' = [task EXCEPT ![t].at = "relearn", ![t].seen = Unread]
  /\ UNCHANGED <<ports, pool, empty, gateVars, clockVars, closing, events>>

(* Every verdict of the map is set in the live pool, or cleared. *)
Resync(t) ==
  LET seen == task[t].seen
  IN /\ At(t, "mapped")
     /\ latched' = {n \in pool : \/ seen[n] = "disabled"
                                 \/ n \in latched /\ seen[n] = "unset"}
     /\ task' = [task EXCEPT ![t].at = "relearn", ![t].seen = Unread]
     /\ UNCHANGED <<ports, pool, empty, gateVars, clockVars, closing, events>>

Goes(t, p, s) == task' = [task EXCEPT ![t] = [Idle EXCEPT !.at = p, !.then = s]]

(* The tail of _attempt: the deadline moves, and the pool is rebuilt once more. *)
Attempted(t) ==
  /\ clock' = "ahead"
  /\ IF filling THEN Goes(t, "idle", <<>>) ELSE Goes(t, "wait", <<"last">>)

(* A rebuild that is over, skipped or failed, outside the gate: an exhausted call has *)
(* its second pass, whatever became of it.                                            *)
Over(t) ==
  LET label == task[t].then[1]
  IN \/ label = "attempt" /\ Attempted(t)
     \/ label = "exhausted" /\ Goes(t, "again", <<>>) /\ UNCHANGED clock
     \/ label \in {"sync", "last"} /\ Goes(t, "idle", <<>>) /\ UNCHANGED clock

Rebuilt(t) ==
  /\ At(t, "relearn")
  /\ \/ task[t].then[1] = "provision" /\ Provisioned(t)
     \/ task[t].then[1] # "provision" /\ Over(t) /\ UNCHANGED <<provisioned, lock, latched>>
  /\ UNCHANGED <<ports, pool, empty, attempted, filling, quiet, closing, events>>

(* The registry cannot be read: a sync raises, the other triggers carry on.           *)
RebuildFails(t) ==
  /\ At(t, "load") /\ Event
  /\ task[t].then[1] # "provision"
  /\ Over(t)
  /\ UNCHANGED <<ports, poolVars, gateVars, quiet, closing>>

----------------------------------------------------------------------------
(* The sync. *)

Sync(t) ==
  /\ At(t, "idle") /\ closing = "open"
  /\ Goes(t, "fetch", <<"sync">>)
  /\ UNCHANGED <<ports, poolVars, gateVars, clockVars, closing, events>>

(* The end of a sync.  The fill goes back to provisioning, which reads the registry   *)
(* next; the others rebuild, unless the fill of somebody else is running; a failed    *)
(* sync that a caller made raises.                                                    *)
SyncEnds(t, failed) ==
  LET label == task[t].then[1]
  IN \/ /\ label = "fill"
        /\ filling' = FALSE /\ clock' = "ahead"
        /\ Goes(t, IF filling THEN "load" ELSE "wait", <<"provision">> \o Tail(task[t].then))
     \/ /\ label # "fill"
        /\ UNCHANGED filling
        /\ \/ failed /\ label = "sync" /\ Goes(t, "idle", <<>>) /\ UNCHANGED clock
           \/ failed /\ label = "attempt" /\ Attempted(t)
           \/ ~failed /\ filling /\ Over(t)
           \/ ~failed /\ ~filling /\ Goes(t, "wait", <<label>>) /\ UNCHANGED clock

Fetch(t) ==
  /\ At(t, "fetch")
  /\ task' = [task EXCEPT ![t].at = "current", ![t].list = Curated]
  /\ UNCHANGED <<ports, poolVars, gateVars, clockVars, closing, events>>

FetchFails(t) ==
  /\ At(t, "fetch") /\ Event
  /\ SyncEnds(t, TRUE)
  /\ UNCHANGED <<ports, poolVars, provisioned, attempted, lock, quiet, closing>>

(* The list fetched against the one stored: refused, no change, or mirrored. *)
Merge(t) ==
  LET src == task[t].list
  IN /\ At(t, "current")
     /\ \/ src = {} /\ registry # {} /\ SyncEnds(t, TRUE)
        \/ /\ src = registry
           /\ task' = [task EXCEPT ![t].at = "report", ![t].list = {}]
           /\ UNCHANGED <<filling, clock>>
        \/ /\ src # {} /\ src # registry
           /\ task' = [task EXCEPT ![t].at = "mirror"]
           /\ UNCHANGED <<filling, clock>>
     /\ UNCHANGED <<ports, poolVars, provisioned, attempted, lock, quiet, closing, events>>

Mirror(t) ==
  /\ At(t, "mirror")
  /\ registry' = task[t].list
  /\ task' = [task EXCEPT ![t].at = "synced", ![t].list = {}]
  /\ UNCHANGED <<verdicts, poolVars, gateVars, clockVars, closing, events>>

Report(t) ==
  /\ At(t, "report")
  /\ SyncEnds(t, FALSE)
  /\ UNCHANGED <<ports, poolVars, provisioned, attempted, lock, quiet, closing, events>>

(* Fault: no pool is live yet, so there is nothing to rebuild. *)
WaitNot(t) ==
  /\ At(t, "wait")
  /\ \/ provisioned /\ task' = [task EXCEPT ![t].at = "load"] /\ UNCHANGED clock
     \/ ~provisioned /\ Over(t)
  /\ UNCHANGED <<ports, poolVars, gateVars, quiet, closing, events>>

(* _rebuild_after_sync: a provisioning in progress is waited out. *)
Wait(t) ==
  /\ At(t, "wait") /\ lock = Nobody
  /\ \/ provisioned /\ task' = [task EXCEPT ![t].at = "load"] /\ UNCHANGED clock
     \/ ~provisioned /\ Over(t)
  /\ UNCHANGED <<ports, poolVars, gateVars, quiet, closing, events>>

----------------------------------------------------------------------------
(* Requests behind the gate. *)

Answered(t) ==
  /\ At(t, "route") \/ At(t, "again")
  /\ pool # latched
  /\ Goes(t, "idle", <<>>)
  /\ UNCHANGED <<ports, poolVars, gateVars, clockVars, closing, events>>

(* The error is raised: a second pass, the debounce, or a caller with every key. *)
Raised(t) ==
  /\ At(t, "route") \/ At(t, "again")
  /\ Goes(t, "idle", <<>>)
  /\ UNCHANGED <<ports, poolVars, gateVars, clockVars, closing, events>>

Exhausted(t) ==
  /\ At(t, "route") /\ ~quiet
  /\ quiet' = TRUE
  /\ Goes(t, "load", <<"exhausted">>)
  /\ UNCHANGED <<ports, poolVars, gateVars, clock, closing, events>>

(* set_disabled of the file store: the map is read and rewritten over two awaits. *)
VerdictRead(t) ==
  /\ At(t, "verb")
  /\ task' = [task EXCEPT ![t].at = "ruling", ![t].seen = verdicts]
  /\ UNCHANGED <<ports, poolVars, gateVars, clockVars, closing, events>>

VerdictWrite(t) ==
  /\ At(t, "ruling")
  /\ verdicts' = [n \in Names |-> IF n \in task[t].name
                                  THEN IF task[t].then[1] = "disable" THEN "disabled" ELSE "enabled"
                                  ELSE task[t].seen[n]]
  /\ task' = [task EXCEPT ![t] = Idle]
  /\ UNCHANGED <<registry, poolVars, gateVars, clockVars, closing, events>>

----------------------------------------------------------------------------
(* Shutdown, restart and the other processes. *)

Close ==
  /\ closing = "open"
  /\ closing' = "closing"
  /\ UNCHANGED <<ports, poolVars, gateVars, clockVars, task, events>>

(* A refresh under way is cancelled and waited for. *)
RefreshStopped == task' = [task EXCEPT ![Refresher] = Idle]

(* The streams have settled, and the refresh stops before the ports close. *)
ClosePorts ==
  /\ closing = "closing"
  /\ closing' = "closed"
  /\ RefreshStopped
  /\ UNCHANGED <<ports, poolVars, gateVars, clockVars, events>>

(* The process dies, or a closed one is started anew: the ports remain. *)
Restart ==
  /\ Event
  /\ pool' = {} /\ latched' = {} /\ empty' = FALSE
  /\ provisioned' = FALSE /\ attempted' = FALSE /\ filling' = FALSE /\ lock' = Nobody
  /\ clock' = "unset" /\ quiet' = FALSE
  /\ task' = [t \in Tasks |-> Idle]
  /\ closing' = "open"
  /\ UNCHANGED ports

Peer ==
  /\ Event
  /\ \/ registry' \in Filled \cup {Curated} /\ UNCHANGED verdicts
     \/ /\ \E n \in Names, v \in {"enabled", "disabled"} : verdicts' = [verdicts EXCEPT ![n] = v]
        /\ UNCHANGED registry
  /\ UNCHANGED <<poolVars, gateVars, clockVars, task, closing>>

----------------------------------------------------------------------------
Seed(t) ==
  \/ SeedRead(t, "seed", pool, "seeding", "map")
  \/ SeedRead(t, "synced", registry, "syncing", "report")
  \/ SeedWrite(t, "seeding", "map")
  \/ SeedWrite(t, "syncing", "report")

RebuildStep(t) == Load(t) \/ Reconcile(t) \/ MapRead(t) \/ Resync(t) \/ Rebuilt(t)
SyncStep(t) == Fetch(t) \/ Merge(t) \/ Mirror(t) \/ Report(t)
RequestStep(t) == Fill(t) \/ Answered(t) \/ Raised(t) \/ VerdictRead(t) \/ VerdictWrite(t)
Step(t) == RebuildStep(t) \/ SyncStep(t) \/ Seed(t) \/ RequestStep(t)

Next ==
  \/ \E t \in Requests :
       Call(t, "route", {}) \/ Acquire(t) \/ ProvisioningFails(t) \/ Exhausted(t)
  \/ \E t \in Admins : Direct(t) \/ Sync(t)
  \/ \E t \in Admins, goal \in {"disable", "enable"}, n \in Names : Call(t, goal, {n})
  \/ \E t \in Tasks : Step(t) \/ Wait(t) \/ RebuildFails(t) \/ FetchFails(t)
  \/ Elapse \/ Close \/ ClosePorts \/ Restart \/ Peer

BrokerSpec == Init /\ [][Next]_vars

(* Awaits end, the lock is first come first served, time passes and requests keep *)
(* coming.                                                                        *)
FairBrokerSpec ==
  /\ BrokerSpec
  /\ \A t \in Tasks : SF_vars(Step(t) \/ Acquire(t) \/ Wait(t))
  /\ WF_vars(Elapse)
  /\ WF_vars(\E t \in Requests : Call(t, "route", {}))

----------------------------------------------------------------------------
Mirrors == /\ pool = registry
           /\ \A n \in pool : /\ verdicts[n] = "disabled" => n \in latched
                              /\ verdicts[n] = "enabled" => n \notin latched

(* Whatever order rebuilds, syncs and verdicts ran in, and whatever of it failed, the  *)
(* pool of a running installation comes to what the registry and the disabled map say. *)
(* Once the refresh clock is set it needs nothing else; a first provisioning that      *)
(* failed before it armed the clock leaves it unset (ClockIsArmed).                    *)
PoolCatchesUp == <>[](closing # "open" \/ (provisioned /\ clock # "unset" => Mirrors))

(* The provision lock is always given up: the fill that runs inside it and the rebuild *)
(* of a sync, which waits for it, never wait for each other.                           *)
LockIsGivenUp == []<>(lock = Nobody)

(* A registry write that lands while the pool is being provisioned still reaches it:   *)
(* the pool is the registry's, or the task that wrote has its rebuild to come.         *)
NoWriteIsMissed ==
  [][provisioned' /\ ~provisioned /\ closing = "open" /\ events = 0 =>
       \/ pool = registry
       \/ \E t \in Tasks : task[t].at \in {"synced", "syncing", "report", "wait"}]_vars

(* "fill an empty registry blocking, otherwise arm the clock" (before_provision): a    *)
(* provisioned pool has a clock.  The code breaks it where the first attempt fails.    *)
ClockIsArmed == provisioned => clock # "unset"

(* "seeds the store's disabled map with any missing model names, never touching        *)
(* existing verdict values"                                                            *)
SeedsTouchNoVerdict ==
  [][\A t \in Tasks, p \in {"seeding", "syncing"} :
       SeedWrite(t, p, task'[t].at) =>
         \A n \in Names : verdicts[n] # "unset" => verdicts'[n] = verdicts[n]]_vars

(* "a refresh in flight would otherwise write through a registry whose driver is       *)
(* closing"                                                                            *)
NoRefreshOnceClosed == closing = "closed" => At(Refresher, "idle")
=============================================================================
