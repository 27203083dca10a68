# A TLA+ verification of llmbroker

llmbroker is an asyncio library that keeps a pool of LLMs and routes each chat
call over it: it picks a free model, fails over when a model fails, races
several where the caller asks for it, streams the answer, and remembers what it
learned. Its list of models is curated elsewhere and merged into a registry that
several processes share. This directory models that system in TLA+, checks it
with TLC and proves its main properties with TLAPS. Paths are relative to the
repository; `pool.py`, `router.py` and the like live in
`src/llmbroker/broker/`.

## The system

| Part | State | Operations | Works with | What is hard |
|---|---|---|---|---|
| LLM pool (`pool.py`) | one slot per name: config, `in_flight`, `cooldown_until`, `disabled`, `recovery_due`, `recovery_claimed`; the budget bounds | add, drop, set/clear_disabled, apply/raise/clear bound, acquire_many, take_free, release, clear_cooling, cool_down | routers (slots), catalog (membership, latch), learner (bounds) | calls queue on one condition; slots go and come back under running calls; who wakes whom; one exclusive recheck after a cooldown |
| Atomic router (`router.py`, `route_state.py`, `verdict.py`) | per call: lanes, what was tried, what refused, whether the budget is spent; per attempt: `settling`, `holds_slot`, `superseded`, the verdict | `_route` (rounds), `_alone`, `_race`, `_refill`, `_supersede`, `_abandon`, `_stop`, `_settled`, `_attempt`, `_dispose` | pool, key ring, provider, store and learner | lanes in tasks of their own; an answer, a failure, a crash and the deadline in one batch; cancellation at every await |
| Streaming (`streaming.py`, `stream_owner.py`, `result.py`) | lanes with buffered deltas, waves, the shown lane, delivered alternatives, a budget that can stand still, the receipt | pull, refill, window, race, another, close; per lane: delta, complete, fail, expire, settle | pool, router services, consumer | the consumer paces the lanes; a provisional answer is replaced; close at any moment |
| Key ring (`keyring.py`) | per scope: values, missing, rejected, known refs | resolve, payable, forget, refresh | routers (payable, 401), catalog (refresh) | reads are awaited while a rebuild clears and a 401 forgets |
| Broker, catalog and refresher (`broker.py`, `catalog.py`, `refresher.py`, `llms.py`) | pool against registry; the latch against the store's map; provisioned, attempted, filling; the clock; the lock | ensure_pool, rebuild, reconcile, resync, enable, disable, sync, schedule, aclose | all of the above | four triggers of a rebuild, not serialized; a start fill that races the clock; verdicts that change while they are applied |
| Model lists (`presets.py`, `curated.py`, `merge.py`, `model_list_file.py`, `aliases.py`, `backends/ports.py`) | the wheel's text, the cached text, upstream; the registry; resolved aliases | fetch, merge, mirror, write, resolve | refresher, catalog, other nodes | fetches that fail, caches that are lost, writers that die between rows |
| Journal and learning (`standalone/store.py`, `learning.py`, `optimizer.py`, `stats.py`) | day files; rating windows; budget bounds; streaks | record, rate, tail, relearn, observe, prune | routers (rows), results (ratings), pool (bounds) | rows and ratings out of order and over midnight; a rebuild replaces what was recorded while it read |
| Synchronous broker (`sync.py`) | a loop on a thread, the streams threads hold, one finalizer | post a coroutine and wait, open, pull, close, finalize | broker, results, the collector | threads, loop and collector; a close that meets a pull; a loop that stops |
| Rest (`http`, drivers, `external secrets`, `cli.py`, parsing, reports) | HTTP clients, tables, text | I/O and formatting | all | mostly delegation; see Not modelled |

What makes each part correct:

* **pool**: the count of a slot is the number of calls holding it; `parallel` is
  never exceeded; a recovery claim ends with its recovery; a queued call is
  woken by whatever can make a model free.
* **router**: a slot taken is handed back on every path; each attempt leaves the
  row it owes and only that; a refused model is not asked again; an answer is
  never lost to a deadline nor an exception to an answer; a call with a wait
  ends.
* **streaming**: the same for slots and rows, whatever close meets; text of two
  lanes is never mixed; complete answers are handed over once, in the order they
  were completed; a handle is rateable only once its row is written.
* **key ring**: a key the store has replaced does not stay in use; a rejection
  does not outlive the value it was of.
* **broker**: what was written last to registry and latch reaches the pool once
  the refresh clock is set; the lock of the start fill is given up.
* **model lists**: a sync empties no registry, touches no entry of the host and
  comes to the newest list; a declared alias holds.
* **journal**: the tail is the join of calls and ratings; a lost row does not
  blind the learner; what is learned comes to what is journaled.
* **synchronous broker**: what a close finds is settled when it returns; it ends
  a pull in flight; a teardown is finished.

## Modules

| Module | What it is |
|---|---|
| `SlotSemaphores` | the abstract promise of the pool: each slot is a counting semaphore, taken several at a time, returned one by one |
| `LLMPool`, `MCLLMPool`, `LLMPoolProofs` | the pool under the most general client a router can be; one of its waiters; theorems |
| `Router`, `MCRouter`, `RouterProofs`, `RouterOutcomeProofs` | EXTENDS `LLMPool`: the atomic routed call, lane by lane; keys and symmetry; theorems |
| `Stream`, `MCStream`, `StreamProofs` | one streamed call: lanes, owner and handle; lengths and symmetry; theorems |
| `KeyRing`, `MCKeyRing` | two rings over one secrets store; what the store starts with |
| `Broker`, `MCBroker`, `BrokerProofs` | one installation's triggers, latch, refresh clock and close; the two lists; theorems |
| `ModelList`, `MCModelList`, `ModelListProofs` | lists, merge, writers and aliases on several nodes; four versions; theorems |
| `Journal`, `MCJournal`, `JournalProofs` | the file store's journal and what is learned from it; one model, one trace; theorems |
| `SyncBroker`, `MCSyncBroker`, `SyncBrokerProofs` | threads, loop, streams and finalizer; theorems |

The modules meet at named seams. `Router` runs on `LLMPool` itself. `Stream`
takes acquisition as "some untried models, in rank order, or an error", which is
what `LLMPool` promises one call. `Router` takes the ring as the set of refs
that resolve, `Broker` takes a sync as "the registry is the list", and a routed
call as "answered or exhausted"; `KeyRing`, `ModelList`, `Router` and `Stream`
are those parts in full. `SyncBroker` takes a pull as "answered or quiet".

In every module an action is what the code does between two awaits (for threads,
between two hand-overs). A value read before an await and used after it is
kept in the variable that stands for the suspended frame.

### LLMPool

Every operation of the pool runs under one `asyncio.Condition` and has no await
inside except the wait of `acquire_many`. So each operation is one action, and
a call is `queued` while it is about to evaluate the pool and `blocked` in the
wait. `release`, `clear_cooling` and `clear_budget_bound` in `_finish_ok` follow
one another without a yield and are the one action `FinishOk`.

| TLA+ | Code |
|---|---|
| `members`, `cap`, `inFlight`, `disabled`, `due`, `claimed` | `_slots` and the fields `config.parallel`, `in_flight`, `disabled`, `recovery_due`, `recovery_claimed` |
| `cooling` | the slots whose `cooldown_until` lies ahead |
| `bound` | `_budget_bounds`, in units, 0 for none |
| `want`, `patience`, `timer` | the arguments of `acquire_many`: its filters, the time left of `queue_deadline` / `answer_deadline`, and the cooldowns `_wake_timeout` counted |
| `held` | the configs the call's lanes carry |
| `recovering`, `stale` | history only: which held slots were recoveries, and which were dropped since |

Time is abstract. A cooldown is running or over; a wait is a number of units,
and one unit is the slack the pool grants a bound. Ranking keeps its leading
key, whether the bound exceeds the budget; below it the ratings, weights and
order may decide anything, so any choice among equals is allowed.

### Router

A call is `fresh`, queues for slots (`queue`), drives one lane in its own task
(`alone`) or several in tasks of their own (`race`, `refill`), gives a race up
(`abandon`), settles its losers beside the answer (`settle`), and is `over`.
A lane's attempt is `opening` (its key is being resolved), `asking` (at its
provider), in `journal` (verdict applied, row being written) or `done`. Each
action is what the code does between two awaits: `Failed`, for instance, is
`_classify` with `_dispose` up to the await of `_record`.

`RaceWon`, `RaceLost` and `RaceCrashed` take the whole batch of lanes that are
done when `asyncio.wait` returns, as the loop of `_race` does. `live` is the
driver's list `live`; after a winner it keeps the lanes it superseded, which
`_stop` waits for. `cutting` is a pending `task.cancel()`; `Cut`, `StopUnopened`
and `Journal` are where it lands. `keyed` abstracts the key ring to the refs
that resolve.

Two kinds of cancellation are told apart. Normally a caller is cancelled at an
await where somebody owes the slot. `LateCancels` adds the windows where nobody
does: a lone lane still resolving its key, and a second cancellation that takes
the `_stop` tasks along. There the code leaks the slot (see Known divergences), so the
safety runs and the proof of `NoSlotLeaked` state `LateCancels = FALSE`, and the
liveness run has it TRUE.

Calls outside `Routed` are the pool's other clients: each takes one slot, holds
it and settles it in any way.

### Stream

`lane` is the table of attempts by model: the step each is at, its slot, its
row, its verdict, the deltas it has made and those read. An attempt that is
settling has handed back its slot; `Record` writes its row (the await in
`finish_ok`), and an answer then marks its own receipt in a step of its own
(`Settle`, the field `settled`). `waves` are the widths
asked for, `eligible` the models still open to the handle. `spent`, `lent` and
`pulled` are the budget that stands still between pulls; `wake`, `window`,
`early`, `shown` and `initial` are the race: the event the lanes set, the
selection window, and the lane whose text the caller reads. `answers`,
`terminal`, `receipt` and `raised` are what the handle holds, the receipt a copy
of its lane's; `pull`, `back`,
`needed` and `target` say where the caller's pull stands and what it returns to.

| Actor | Actions |
|---|---|
| a lane's task | `Begin`, `KeyGone`, `Delta`, `ReadOn`, `Complete`, `Fail`, `Expire`, `Record`, `Settle`, `Cut` |
| the clock | `BudgetSpent`, `WindowCloses` |
| the caller | `Pull`, `Another`, `Close` |
| the owner, in the caller's task | `Refill`, `Search`, `Listen`, `Read`, `Race`, `Resume`, `Acquire`, `NothingLeft`, `Continue`, `Answer`, `Seek`, `CloseLanes`, `CloseEnds` |

### KeyRing

`held`, `missing`, `rejected` and `known` are the ring's fields by scope, `store`
what the secrets store says. `Resolve`, `Lookup` and `Deliver` are a call's
resolution on its two sides of the read, through its own ring and the shared
one; `Accepted` and `Unauthorized` are what the provider makes of the key, the
latter with `forget`, whose value may no longer be the one the call spent.
`Rebuild`, `List`, `Refresh`, `Reread` and `Compare` are
`refresh` with its awaited read per rejected ref. `AdminSets` is the world.

### Broker

A task, a request or the background refresh, has a stack: `at` is the await it
stands at, `then` what it returns to. `registry` and `verdicts` are the shared
stores; `pool`, `latched` and `empty` the live view; `provisioned`, `attempted`,
`filling`, `clock` and `lock` the refresher's and the gate's fields. `Direct`,
`Call`, `Acquire`, `Fill`, `Load`, `Reconcile`, `SeedRead`/`SeedWrite`, `MapRead`,
`Resync`, `Rebuilt`, `RebuildFails` and `ProvisioningFails` are a rebuild and what
asks for it;
`Sync`, `Fetch`, `FetchFails`, `Merge`, `Mirror` and `Report` an attempt to
refresh; `VerdictRead` and `VerdictWrite` the file store's two halves of a
verdict; `Elapse`, `Peer`, `Restart`, `Close` and `ClosePorts` the rest of the
world. `ProvisioningFails` is any await under the provision lock that raises or is
cancelled; outside the lock a request is not cancelled.

### ModelList

An entry is the version of the list that stated it, `Own` for the host's. A sync
of a node reads the text (`ReadSource`: upstream, else cache, else wheel),
merges, and writes the file in one stroke (`WriteFile`) or row by row
(`Existing`, `Delete`, `Upsert`). `RefreshCatalog`, `ReadCatalog` and `Resolve`
are `direct=` aliases; `overlay` is the list of the process. `Curate`,
`HostAdds`, `Crash` and `LoseCache` are the world. `merge` is an operator on
sets with its refusals: an empty list over a filled registry, and own names.

### Journal

`files` are the day files in order of arrival, each line stamped with its time.
A call is settled (`Settle`: learner first, then the row is on its way), over
budget before its answer began (`missed`) or in the middle of it (`cut`, which
cools nothing and counts in no streak), and recorded (`Record`, which may fail);
a rating finds its row or its trace (`RateResult`, `RateTrace`), is written and
observed. `ReadRows`, `LoadScores` and `ApplyBounds` are the learner's rebuild around its awaits. `ReadTail` is the
store's reader, one pass over the lines from the newest back (`Pass`), and is
compared with the join it is meant to be.

### SyncBroker

A thread is posting, posted, running or ended in one of its calls; the loop is
running, stopping or closed; a handle knows its active pull, whether a close
came late, and its cleanup. `TakeLock` and `FreeLock` stand for any code of the
host that holds the executor's lock; `Collect` is the finalizer on a thread the
collector picked.

## Runs

Every run passes but `keyring_late_401`, which shows a divergence (see there). For
each property of the others the modules also hold the action or helper it
guards against, written as a plausible bug of that code (the definitions whose
comment begins "Fault:"); put in the place of the real one, TLC finds the property
violated. They are part of no specification.

| Run | What it asks, and shows |
|---|---|
| `llmpool` | two calls over a permanent and a volatile model: counts (`TypeOK`, `SlotsConserved`), `ClaimHasOwner`, `EveryWaitHasAWaker`, the refinement `ImplementsSemaphores`, and `OneWaiterIsWoken`: nobody waits for ever beside the rest of the pool's life |
| `router` | one call over three models and every cancellation somebody answers for: `EveryAttemptIsJournaled`, `AnswerIsDelivered`, `CrashReachesTheCaller`, `NeverAskedAgain`, `KeepsToThePool` |
| `router_contention` | a call beside another, under rebuilds and with keys that go: `NoSlotLeaked` |
| `router_live` | `BoundedCallEnds`: a call with a wait to spend ends |
| `stream` | two models, ordinary and raced, every fault, close at any point: `SlotsComeBack`, `OneRowEach`, `NeverSpliced`, `NoAnswerLeftBehind`, `RateableOnceJournaled`, `WithdrawnOnlyForAnEarlierAnswer`, `EveryPauseHasAWaker`, and `StreamComesToRest` |
| `stream_race` | a race of two with a third to refill: `AnswersInOrder`, `WithinTheWave` |
| `keyring` | keys replaced under lookups, refreshes and 401s: `StaleKeysAreFlushed`, `RejectionsFollowTheStore` |
| `keyring_late_401` | violated: `ReplacementIsUsed`. A 401 that comes after a rebuild or an edit withdraws a good key, and no rebuild takes it back |
| `broker` | fills, ticks, syncs, verdicts, failures, restart and close: `NoWriteIsMissed`, `PoolCatchesUp`, `LockIsGivenUp` |
| `modellist` | two nodes, four versions, failing fetches, lost caches, crashes: `NeverEmptied`, `OwnEntriesStay`, `AliasHolds`, `RegistryFollowsTheList`, `AliasFollowsTheCatalog` |
| `journal` | two calls, two raters, lost rows, midnight, restart, rebuilds: `TailIsTheJoin`, `OneObservationEach`, `LossDoesNotBlind`, `LearnedFollowsTheJournal` |
| `sync_broker` | two threads, two streams, collector and close: `SettledWhenClosed`, `CloseEndsAPull`, `TeardownIsFinished` |

### Bounds

* **`llmpool`: two models, two calls.** A race, a cover and a failover need two
  models; a lost wakeup, a claim and a capacity conflict need two calls. One
  model is permanent and one volatile, since the properties tell them apart.
  Capacity is 1, so that two calls fill it. Unlimited parallelism
  (`parallel=None`) behaves as a capacity no set of calls can reach. The proofs
  are for any numbers.
* **`MaxBudget` = 1**: a wait is None, 0, already spent, or one unit. One unit is
  the slack, so "within the bound" and "spent" both occur. `router_contention`
  uses 0: its question is about ownership, and waits that are None, 0 or spent
  remain.
* **One waiter in `OneWaiterIsWoken`**: the two calls are alike in everything the
  module and its constants say, so what holds of one holds of the other
  (`EveryWaiterIsWoken`), and TLC follows one call's wait instead of two.
* **`router`: three models, width up to 2**: a race of two with a third left for
  the refill. All models share one key there, so a 401 takes the key from under
  the sibling lanes.
* **`stream`: two models**, with two deltas in an ordinary stream (the budget
  stands still twice, between deltas and behind the last) and one in a race,
  which shows every order of two lanes. `stream_race` has a third model, for the
  refill and for two answers waiting, and one kind of failure.
* **`keyring`: two rings, two refs, one edit** of the store or failing lookup; the
  initial stores are all those with dead or missing keys in the scope. One edit
  is enough for every value read before an await to be stale after it.
* **`broker`: one request besides the refresher, two names, one outside event.**
  The request task may sync, flip the latch and route, one after the other, so
  that each meets a scheduled refresh at every await.
* **`modellist`: two nodes, two names, four versions**: one entry replaced, one
  renamed under its old name with the alias gone, and the empty list; one event.
  `Overlap` = FALSE keeps the host from stating an entry during a sync (see Known
  divergences).
* **`journal`: two calls, two raters, a window and a limit of two, one midnight,
  two events.** A window that drops its oldest and a limit that cuts a rating
  from its call both need no more.
* **`sync_broker`: two threads, two streams.** A third thread multiplies the
  states beyond a run's time and adds no role: one pulls or opens while the other
  closes, and the collector runs on either.
* **Symmetry**: models in `router` and `stream_race`. None in a run with liveness,
  nor where models differ.
* **Deadlock** is checked where the system never stops: the pool, the key ring,
  the lists. Calls, streams and brokers end for good, and the bounded events of
  `journal` and `broker` end too; those runs say `CHECK_DEADLOCK FALSE`.

### Fairness

* `LLMPool!Fairness`: as long as a cooldown runs or an attempt is at its provider,
  one of them ends in the end (`Passing`), because `_attempt` wraps the provider
  call in `asyncio.timeout`, bounded by the wait or by `HTTP_TIMEOUT`. It is one
  weak fairness condition: nobody is promised to end before another, and the
  callers, the admin and the rebuilds are owed nothing, not even that a woken call
  is run.
* `RouterFairness` is the same for the router: the driver's step, each lane's
  start, end and journaling, and the acquisition. A store write is taken to end.
* `Stream!Fairness`: as long as the owner, a lane or the selection window (a timer)
  has a step to take, one of them takes it (`Running`), no one before another.
  The caller owes nothing: it may never pull again, and the budget
  need never run out.
* `FairKeyRingSpec`: lookups end, calls go on, and rebuilds keep coming, as the
  refresh clock makes them.
* `FairBrokerSpec`: a task takes its next step, time passes, and requests keep
  being routed, since the clock is looked at only by traffic
  (`AsyncBroker.schedule`). Fairness of a task is strong because a step may need
  the lock that others take in turn; `asyncio.Lock` is first come, first served.
* `FairModelListSpec`: each node goes on with its syncs; one that has declared an
  alias also with its catalog.
* `FairJournalSpec`: as long as a row or a rating is on its way, one arrives
  (`Settling`), and rebuilds keep coming: the learner has a step to take in every
  state, so `[]<><<Learn>>_vars` is its weak fairness.
* `FairSyncBrokerSpec`: the loop and a thread inside a call go on; none for a
  provider's answer, none for the host's next call. The two steps that journal
  under the executor's lock are strongly fair: a lock that is free again and
  again is taken in the end.

## Proofs

`tlapm` checks everything below for every value of the constants, from the named
assumptions of each module only (finite sets, positive capacities and widths,
what the code can ask for).

* `LLMPoolProofs`. The inductive invariant is
  `IInv == TypeOK /\ HeldOK /\ SlotsConserved /\ WithinCap /\ ClaimHasOwner`.
  `CapRespected` alone is not inductive: `IsFree` reads the count, not the
  holders, so the two must be tied (`SlotsConserved`), and the count bounded
  (`WithinCap`). A count in turn is only tied to its holders while the history
  of what was dropped under them stays right, and a slot is held by running
  calls only (`HeldOK`). `StepKinds` sorts the steps into the few that touch
  any of this. `Invariant` proves it; `TypeCorrect`, `SlotsAreConserved`,
  `CapacityRespected` and `ClaimsAreOwned` read off it or its lemmas.
  `EveryWaiterHasAWaker` needs it for the step into the wait: a slot that is
  full or claimed has a holder, and every hand-back notifies.
  `PoolImplementsSemaphores` maps the initial states and each step to
  `SlotSemaphores` or to a stutter, using the invariant for "never one that is
  full". The runs have capacity 1; the interplay of a claim with other attempts
  on the same slot is the proofs' to cover.
* `RouterProofs`. `RouterKeepsToThePool` shows that each router step is a pool
  step or leaves the pool's variables alone, so that every theorem about
  `LLMPool` holds of the router: `RoutedCallsShareThePool` draws its invariants
  over, `RouterImplementsSemaphores` the refinement. `RouterTypeCorrect` and `NoSlotIsLeaked` rest on
  `RouterInvariant`: `NoSlotLeaked` alone is not inductive, because whether an
  opening lane is still owned depends on its driver. `LaneOK` adds which steps
  a lane may be in at each stage of the call: no lane is open between rounds,
  unfinished lanes are in `live`, a lone lane has no siblings, and an unopened
  lane left after a round is on its way to `_stop`. `NoSlotIsLeaked` assumes
  `~LateCancels`.
* `RouterOutcomeProofs`. `AttemptsAreJournaled`, `AnswersAreDelivered`,
  `CrashesReachTheCaller` and `NobodyIsAskedAgain` rest on `OutcomeInv`, which is
  `RouterInv` with `CallsOK`. Its `RowOK` says of each lane, by its step and
  verdict, whether its row is due or written and where its answer or exception
  is: still in the round, in the call's result, or beaten or superseded; and that
  only a lane that can still be cut is in `cutting`. Its `StageOK` ties a result
  to the stage the call is in, and the filter `want` of a queued call to what has
  refused so far. A slot is taken only by `AcquireLanes` within `want` and by
  `Refill` within `Untried`, so that no model is asked again.
* `StreamProofs`. `LaneOK(r)` ties a lane's step to its slot, its row and its
  verdict. `Ranked` says the positions of opened lanes are distinct and no larger
  than their number: the code picks the winner, the first buffered and the
  preferred lane by position, and the definitions that choose them need the
  least one to exist. With the types and `LookInv` (what the owner's pull may be
  looking at) this is `Good`, inductive: each action of owner, caller and clock
  is shown to have an `Effect` on lanes that only adds lanes, notes a decision
  or hands deltas of the shown lane over, and each step of a lane to be
  `Becomes`. On top of `Good` seven more invariants are inductive one after the
  other: what a closed stream leaves (`EverySlotComesBack`, `EveryAttemptHasOneRow`),
  whose text was delivered (`NoSplicing`, `WithdrawnForAnEarlierAnswer`), the
  receipts (`NoRatingBeforeTheRow`: a mark on a receipt, the handle's or one handed
  over, has a row behind it, and a handle that has ended has the mark),
  the terminal None (`NothingLeftBehind`),
  the order of answers (`AnswersComeInOrder`), the width of a wave and the
  owner's wakeup.
  * `NoWaveOverflows`: a refill counts, awaits and opens. `WaveInv` adds to the
    bound itself that what it counted is still missing when it opens, since no
    lane joins the wave meanwhile (`RefillAwaits`) and an answer handed over
    keeps its place (`FilledIs`).
  * `OwnerIsWoken` proves `EveryPauseHasAWaker`, the safety part of
    `StreamComesToRest`, from `WakeInv`. `PauseInv` says that an owner that
    pauses, or will after the refill it is in, has seen a running lane since it
    cleared the event, and still would: each step of a lane sets the event, or
    leaves the lane running and silent (`Paces`). `MarkInv` excludes the one that
    does neither, a lane that is cut. `LentInv` says that a shown lane held at a
    delta that was read has been told so, or its delta is with the reader, which
    is never so at the pause; `TextInv` that only an ordinary stream holds lanes,
    and that its answer is the text it showed.
* `ModelListProofs`. `OwnEntriesAreKept` needs that a sync under way plans to
  write back every own entry it does not delete (`UpsertsPlanned`,
  `OwnedIsPlanned`); `RegistryIsNeverEmptied` that it writes at least one row
  (`WritesSome`) and that a registry with nothing in it is being filled
  (`EmptyIsFilled`), for lists of which the first two have entries; `AliasIsHeld`
  that upstream is ahead of the wheel and no catalog cached on a node is the
  wheel's own (`NewerCopy`), and that a catalog read from the wheel is used only
  while the alias is unresolved (`FloorIsFirst`). That no mirror deletes a row it
  is going to write is part of the type invariant of `TypeCorrect`.
* `BrokerProofs`. `WritesAreSeen` is proved from `GateInv`: only the holder of the
  provision lock builds a pool or fills the registry, `filling` is set exactly
  while it fills, and what it has read or built is what the registry says, unless
  somebody has written since and has its rebuild to come (`Pending`). The
  invariant speaks of a broker that is open, not yet provisioned, and to which no
  outside event has happened, which is where `NoWriteIsMissed` speaks. Nothing
  leads back there (`OnlyForward`).
* `JournalProofs`. `JournalInvariant` proves `JournalInv`: each line lies
  in the day of its stamp and says of its call what the call was, and a call's own
  line comes before every other that names it (`FilesFit`); that is so because
  no stamp lies ahead (`CallsStamped`) and a rating is on its way only for a call
  that has answered, stamped no earlier than that call (`RatersFit`); and what the
  learner holds, or has read and will hold, is of such lines and one of a call
  (`WindowsFit`, `LearningFits`).
  `TailIsJoined` needs it for the pass of the reader: `PassOK` says what the
  reader has put together after the newest k lines, by induction on k.
  `OneObservationOfEach` reads off the windows' part. The induction is by the
  least number at which the statement fails (`NatLessThanWellFounded`), over a
  set, and the equations of the recursive functions are lemmas of their own.
  `LossesAreCounted` is proved from `Counted`: while no call of a model that is
  over has answered, the model's streak is the number of those that cooled it,
  whatever became of their rows.
* `SyncBrokerProofs`. `ClosedIsSettled` is proved from `SettleInv`: a stream is owned
  exactly while it is made and not done (`StreamOK`), a pull is active exactly
  while a thread is waiting for it (`ThreadOK`), there is one
  teardown, and it goes forward (`TeardownOK`), and a stream still owned is closed
  while the shutdown settles, and a latecomer once it has (`FoundIsSettled`).
  `NoCircleOfWaiting` adds `GoingOn`, proved from what each step leaves of it
  (`Proceeds`): whoever holds the executor's lock is in no call, a teardown that
  runs has begun, and a finalizer that is detached has left it to a thread in
  `close()`, which stays until the loop is closed.

Only model-checked: liveness, which is everything the key ring's run asks.
Liveness under fairness and ENABLED are outside what TLAPS proves here; of
`OneWaiterIsWoken` and `StreamComesToRest` the safety part is proved, that
whoever waits has somebody left to wake it (`EveryWaitHasAWaker`,
`EveryPauseHasAWaker`), and so it is of `TeardownIsFinished` and `CloseEndsAPull`
(`NobodyWaitsInACircle`, which is in no run of its own).

## Known divergences

Places where a document, comment or docstring says one thing and the modelled
code does another. The modules state each as a definition or keep it behind a
constant. No run asserts it, except `keyring_late_401`.

| Stated | Code | Definition |
|---|---|---|
| a recovery is exclusive (`specs/reference/rules/selection.md:59-61`, `pool.py:235`) | any attempt that ends clears `recovery_claimed`, also one older than the cooldown (`pool.py:419`, `446`); seen with `parallel` of 2 or more | `RecoveryIsExclusive` |
| `in_flight` is what runs (`pool.py:40`, `98`) | a release finds its slot by name and decrements a slot added again since (`pool.py:418`) | `RunningWithinCap` |
| only a model that will come back is waited for (`call-path.md:105-108`) | `set_disabled` wakes nobody (`pool.py:108-113`) | `WaitsOnlyOnTheReturning` |
| a client error outranks the clock (`call-path.md:58-60`) | the queue deadline does not look at it (`router.py:237-240`) | `ClientErrorOutranksTheClock` |
| nothing shrinks a model's capacity (`invariants.md:129-131`) | a cancellation between taking a slot and `holds_slot` (`router.py:450`), or a second one during `_settled` (`router.py:385-393`), leaves it counted; so does the 1024th failure in a row, whose backoff overflows (`router.py:465-469`) | `LateCancels` |
| an answer that names its lane keeps it (`call-path.md:246`, `286-288`, `invariants.md:120-123`) | `race.winner()` outranks a committed lane (`stream_owner.py:548`) | `NamingIsFixed` |
| the shown lane's own fault is what its reader gets (`call-path.md:336-338`) | `router._acquire` raises the call's last client error first (`router.py:238`); one that arrives during the await of `_refill_free` is masked (`stream_owner.py:321-332`, `465-502`) | in `Search`, `Acquire` |
| the value the provider rejected is withdrawn, in the ring that handed it over (`keyring.py:90-92`, `backends.md:317-323`), and a replaced key is used (`keyring.py:103-104`) | a late 401 withdraws whatever value the rings hold by then, the replacement or the shared key, and remembers it as rejected (`keyring.py:93-99`) | `ReplacementIsUsed`, in `keyring_late_401` |
| provisioning arms the clock unless it fills the registry (`refresher.py:69-71`) | a registry read that fails or is cancelled (`refresher.py:83`) comes after `_attempted` is set (74) and before `_arm` (91); later calls skip both, and nothing but `direct()` with an alias sets the clock | `ClockIsArmed` |
| seeding touches no verdict (`model-list.md:271-272`, `backends.md:280-282`) | the file store's read-modify-write puts an older map back (`standalone/store.py:238`) | `SeedsTouchNoVerdict` |
| no refresh once closed (`broker.py:384-385`, `refresher.py:130-133`) | `schedule()` after an await starts one (`broker.py:352`) | `NoRefreshOnceClosed` |
| the wheel's text never rolls the registry back (`model-list.md:29-36`) | the merge reads `presets.text` with its default floor (`merge.py:48`) | `FloorMovesNoEntry` |
| own entries are never touched (`invariants.md`, 22) | one stated between a sync's load and its mirror is replaced | `Overlap` |
| a rateable result has a row (`result.py:38-40`) | a row that could not be written leaves a rating without a call (`router.py:714`) | in `Record`, `RateResult` |
| close settles and journals every owned stream (`sync.py:568`) | one registered from another thread between the `_closing` check and the snapshot is not closed (`broker.py:245-247`) | `SettledWhenClosed` excludes it |
| close waits (`sync.py:213`) | a second close returns at once; a call that reaches the loop as it stops waits for ever (`sync.py:80-81`) | `EveryThreadReturns` |

Smaller observations: rebuilds are not serialized, so a verdict can be undone by
one that read the map before it and holds until the next; a 401 that arrives
right after a refresh cleared the values is not remembered; rings evicted from
the bounded map of callers (`broker.py:256-257`) are not refreshed; a learner's
rebuild raises a retired bound again until the next; two ratings of one call
that overlap may leave the older value in the window until then.

## What is left

1. `Router` over `KeyRing` in the place of `keyed`, and `Stream` over `LLMPool` in
   the place of its abstract acquisition: each is a product too large for TLC at
   the sizes where either is interesting, and would be a refinement to prove.
2. An inductive invariant for `Broker` that covers rebuilds after the first, which
   run beside each other, and one for `KeyRing`.

## Not modelled

* Provider HTTP and response parsing: an attempt simply has one of its outcomes.
* SQL and document drivers: a port's operation is atomic or row by row, as the
  ports say; transactions are the databases'.
* External secret stores: one network read per ref, a value or none.
* Seeding of secrets from the environment, health and the list of missing keys:
  reads and writes of one key with no state of the process behind them.
* Validation of arguments and scores, wording of errors, reports, logging,
  statistics for display, the command line, home directories, integrations.
* Arithmetic: wall-clock time is reduced to order, floating-point backoff to
  "some cooldown", the Wilson bound of a demotion to the window it reads.
* `parallel = 0` is excluded by assumption: a configuration that holds it can
  never be served.
