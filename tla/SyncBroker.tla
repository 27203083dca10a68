------------------------------ MODULE SyncBroker ------------------------------
(***************************************************************************)
(* The synchronous broker: threads that work through one event loop on a   *)
(* thread of its own, the streams they hold, the owner that closes them,   *)
(* and the collector (sync.py, with StreamHandle of broker/result.py,      *)
(* AsyncLLMs.stream and AsyncBroker.aclose).                               *)
(*                                                                         *)
(* What a thread does between two hand-overs, and what the loop does       *)
(* between two awaits, is one action.  What a stream delivers is Stream's; *)
(* here a pull is answered, or waits on a provider that has gone quiet.    *)
(***************************************************************************)
EXTENDS Integers

CONSTANTS
  Threads,  \* the host's threads
  Streams,  \* the streams they may open
  Nobody

ASSUME SyncAssumption == Nobody \notin Threads \cup Streams

VARIABLES
  call,      \* what each thread is doing, the stream it is about, and how far it has come
  loop,      \* the loop of the background thread: run_forever returns once it is stopping
  host,      \* whether the host still refers to the broker
  kept,      \* the Stream objects the host still refers to
  finalizer, \* whether the broker's finalizer is still to run
  handle,    \* the StreamHandle of each stream
  owned,     \* AsyncBroker._streams
  closing,   \* AsyncBroker._closing: nothing, the task, its streams settling, its end
  lock       \* who holds the executor lock that journaling takes

hostVars == <<host, kept, finalizer>>
ownerVars == <<owned, closing>>
vars == <<call, loop, hostVars, handle, ownerVars, lock>>

Idle == [op |-> "none", on |-> Nobody, at |-> "idle"]
Unmade == [at |-> "unmade", late |-> FALSE, armed |-> FALSE, active |-> Nobody, cleanup |-> "none"]

SyncBrokerTypeOK ==
  /\ call \in [Threads -> [op : {"none", "open", "pull", "ask", "close", "shutdown"},
                           on : Streams \cup {Nobody},
                           at : {"idle", "posting", "posted", "running", "ended"}]]
  /\ loop \in {"running", "stopping", "closed"}
  /\ host \in BOOLEAN /\ kept \subseteq Streams /\ finalizer \in {"armed", "detached", "posted", "run"}
  /\ handle \in [Streams -> [at : {"unmade", "open", "closed"}, late : BOOLEAN, armed : BOOLEAN,
                             active : Threads \cup {Nobody},
                             cleanup : {"none", "posted", "cancel", "gather", "source", "done"}]]
  /\ owned \subseteq Streams
  /\ closing \in {"open", "asked", "settling", "ended"}
  /\ lock \in Threads \cup {Nobody}

Init ==
  /\ call = [t \in Threads |-> Idle]
  /\ loop = "running"
  /\ host = TRUE /\ kept = {} /\ finalizer = "armed"
  /\ handle = [s \in Streams |-> Unmade]
  /\ owned = {} /\ closing = "open" /\ lock = Nobody

Free(t) == call[t].at = "idle" /\ lock # t
Does(t, op, s, p) == call' = [call EXCEPT ![t] = [op |-> op, on |-> s, at |-> p]]
Moves(t, p) == call' = [call EXCEPT ![t].at = p]
Returns(t) == call' = [call EXCEPT ![t] = Idle]
At(t, op, p) == call[t].op = op /\ call[t].at = p

----------------------------------------------------------------------------
(* A thread. *)

(* stream() runs on the thread that calls it: _own_stream looks whether the broker is *)
(* closing, and adds the stream.                                                      *)
Open(t, s) ==
  /\ Free(t) /\ host /\ handle[s].at = "unmade"
  /\ \A u \in Threads : call[u].on # s
  /\ closing = "open"
  /\ Does(t, "open", s, "posting")
  /\ UNCHANGED <<loop, hostVars, handle, ownerVars, lock>>

Owned(t) ==
  LET s == call[t].on
  IN /\ At(t, "open", "posting")
     /\ owned' = owned \cup {s}
     /\ kept' = kept \cup {s}
     /\ handle' = [handle EXCEPT ![s].at = "open", ![s].late = closing \notin {"open", "asked"},
                              ![s].armed = TRUE]
     /\ Returns(t)
     /\ UNCHANGED <<loop, host, finalizer, closing, lock>>

(* Stream.__next__ and another(): a stream that is closed has ended. *)
Pull(t, s) ==
  /\ Free(t) /\ s \in kept
  /\ handle[s].armed /\ handle[s].at = "open"
  /\ Does(t, "pull", s, "posting")
  /\ UNCHANGED <<loop, hostVars, handle, ownerVars, lock>>

Ask(t) ==
  /\ Free(t) /\ host
  /\ Does(t, "ask", Nobody, "posting")
  /\ UNCHANGED <<loop, hostVars, handle, ownerVars, lock>>

(* Stream.close: only the first one waits. *)
CloseStream(t, s) ==
  /\ Free(t) /\ s \in kept /\ handle[s].armed
  /\ handle' = [handle EXCEPT ![s].armed = FALSE]
  /\ IF handle[s].at = "closed" THEN UNCHANGED call ELSE Does(t, "close", s, "posting")
  /\ UNCHANGED <<loop, hostVars, ownerVars, lock>>

(* Broker.close: only the first one does anything. *)
CloseBroker(t) ==
  /\ Free(t) /\ host /\ finalizer = "armed"
  /\ finalizer' = "detached"
  /\ Does(t, "shutdown", Nobody, "posting")
  /\ UNCHANGED <<loop, host, kept, handle, ownerVars, lock>>

(* run_coroutine_threadsafe: a closed loop takes nothing. *)
Post(t) ==
  /\ call[t].op # "open" /\ call[t].at = "posting"
  /\ IF loop = "closed" THEN Returns(t) ELSE Moves(t, "posted")
  /\ UNCHANGED <<loop, hostVars, handle, ownerVars, lock>>

(* Once the teardown is over: the loop is stopped and its thread joined. *)
StopLoop(t) ==
  /\ At(t, "shutdown", "ended") /\ loop = "running"
  /\ loop' = "stopping"
  /\ UNCHANGED <<call, hostVars, handle, ownerVars, lock>>

Join(t) ==
  /\ At(t, "shutdown", "ended") /\ loop = "closed"
  /\ Returns(t)
  /\ UNCHANGED <<loop, hostVars, handle, ownerVars, lock>>

----------------------------------------------------------------------------
(* The loop. *)

LoopRuns == loop # "closed"

(* aclose: the first one sets the flag and starts the cleanup. *)
Closing(h) == IF h.cleanup \in {"none", "posted"} THEN [h EXCEPT !.at = "closed", !.cleanup = "cancel"]
              ELSE h

(* The loop takes up what a thread posted. *)
Start(t) ==
  LET s == call[t].on
  IN /\ LoopRuns /\ call[t].at = "posted"
     /\ \/ /\ call[t].op = "pull"
           /\ IF handle[s].at = "closed" \/ handle[s].active # Nobody
              THEN Returns(t) /\ UNCHANGED handle
              ELSE Moves(t, "running") /\ handle' = [handle EXCEPT ![s].active = t]
           /\ UNCHANGED closing
        \/ /\ call[t].op = "ask"
           /\ Moves(t, "running")
           /\ UNCHANGED <<handle, closing>>
        \/ /\ call[t].op = "close"
           /\ IF handle[s].cleanup = "done" THEN Returns(t) ELSE Moves(t, "running")
           /\ handle' = [handle EXCEPT ![s] = Closing(@)]
           /\ UNCHANGED closing
        \/ /\ call[t].op = "shutdown"
           /\ Moves(t, "running") /\ closing' = "asked"
           /\ UNCHANGED handle
     /\ UNCHANGED <<loop, hostVars, owned, lock>>

(* A delta, the end of the answer or a fault; a pull that was cancelled gets none. *)
Delivered(t) ==
  LET s == call[t].on
  IN /\ LoopRuns /\ At(t, "pull", "running") /\ handle[s].cleanup # "gather"
     /\ handle' = [handle EXCEPT ![s].active = Nobody]
     /\ Returns(t)
     /\ UNCHANGED <<loop, hostVars, ownerVars, lock>>

Answered(t) ==
  /\ LoopRuns /\ At(t, "ask", "running")
  /\ Returns(t)
  /\ UNCHANGED <<loop, hostVars, handle, ownerVars, lock>>

(* Fault: the active pull is waited for. *)
CancelNothing(s) ==
  /\ LoopRuns /\ handle[s].cleanup = "cancel" /\ handle[s].active = Nobody
  /\ handle' = [handle EXCEPT ![s].cleanup = "source"]
  /\ UNCHANGED <<call, loop, hostVars, ownerVars, lock>>

(* StreamHandle._close: the active pull is cancelled and waited for. *)
Cancel(s) ==
  /\ LoopRuns /\ handle[s].cleanup = "cancel"
  /\ handle' = [handle EXCEPT ![s].cleanup = IF handle[s].active = Nobody
                                            THEN "source" ELSE "gather"]
  /\ UNCHANGED <<call, loop, hostVars, ownerVars, lock>>

(* The pull settles what it had and ends: the reader's loop is over. *)
Cancelled(s) ==
  /\ LoopRuns /\ handle[s].cleanup = "gather" /\ lock = Nobody
  /\ handle' = [handle EXCEPT ![s].active = Nobody, ![s].cleanup = "source"]
  /\ Returns(handle[s].active)
  /\ UNCHANGED <<loop, hostVars, ownerVars, lock>>

(* The source settles and is journaled, and the broker owns the stream no more; the *)
(* thread that waits for it goes on.                                                *)
Settled(s) ==
  /\ LoopRuns /\ handle[s].cleanup = "source" /\ lock = Nobody
  /\ handle' = [handle EXCEPT ![s].cleanup = "done"]
  /\ owned' = owned \ {s}
  /\ call' = [t \in Threads |->
               IF At(t, "close", "running") /\ call[t].on = s THEN Idle ELSE call[t]]
  /\ UNCHANGED <<loop, hostVars, closing, lock>>

(* AsyncBroker._close: the streams owned now are closed together. *)
CloseOwned ==
  /\ LoopRuns /\ closing = "asked"
  /\ closing' = "settling"
  /\ handle' = [s \in Streams |-> IF s \in owned THEN Closing(handle[s]) ELSE handle[s]]
  /\ UNCHANGED <<call, loop, hostVars, owned, lock>>

(* Fault: the cleanups are started and left to themselves. *)
ClosePortsAtOnce ==
  /\ LoopRuns /\ closing = "settling"
  /\ closing' = "ended"
  /\ UNCHANGED <<call, loop, hostVars, handle, owned, lock>>

(* Each of them is settled before the ports are closed; one that was added since is not *)
(* waited for.                                                                         *)
ClosePorts ==
  /\ LoopRuns /\ closing = "settling"
  /\ \A s \in owned : handle[s].late
  /\ closing' = "ended"
  /\ UNCHANGED <<call, loop, hostVars, handle, owned, lock>>

(* _teardown is over: the thread that waits for it is told, or the loop stops itself. *)
TeardownEnds ==
  /\ LoopRuns /\ closing = "ended"
  /\ \/ \E t \in Threads : At(t, "shutdown", "running") /\ Moves(t, "ended") /\ UNCHANGED loop
     \/ finalizer = "run" /\ loop = "running" /\ loop' = "stopping" /\ UNCHANGED call
  /\ UNCHANGED <<hostVars, handle, ownerVars, lock>>

(* run_forever returns, whatever is still posted or awaited. *)
LoopEnds ==
  /\ loop = "stopping"
  /\ loop' = "closed"
  /\ UNCHANGED <<call, hostVars, handle, ownerVars, lock>>

----------------------------------------------------------------------------
(* The host lets go, and the collector. *)

(* _abandon posts the close of a stream nobody closed. *)
Drop(s) ==
  /\ s \in kept /\ \A t \in Threads : call[t].on # s
  /\ kept' = kept \ {s}
  /\ handle' = [handle EXCEPT ![s].armed = FALSE,
                              ![s].cleanup = IF handle[s].armed /\ LoopRuns /\ @ = "none"
                                             THEN "posted" ELSE @]
  /\ UNCHANGED <<call, loop, host, finalizer, ownerVars, lock>>

Abandoned(s) ==
  /\ LoopRuns /\ handle[s].cleanup = "posted"
  /\ handle' = [handle EXCEPT ![s] = Closing(@)]
  /\ UNCHANGED <<call, loop, hostVars, ownerVars, lock>>

DropBroker ==
  /\ host /\ host' = FALSE
  /\ UNCHANGED <<call, loop, kept, finalizer, handle, ownerVars, lock>>

(* The executor lock, which a thread outside of the broker may hold for a moment. *)
TakeLock(t) ==
  /\ Free(t) /\ lock = Nobody
  /\ lock' = t
  /\ UNCHANGED <<call, loop, hostVars, handle, ownerVars>>

FreeLock(t) ==
  /\ lock = t /\ call[t].at = "idle"
  /\ lock' = Nobody
  /\ UNCHANGED <<call, loop, hostVars, handle, ownerVars>>

(* A broker is collected once nothing refers to it: no stream, and no call in a frame. *)
Unreachable == ~host /\ kept = {} /\ \A t \in Threads : call[t].at = "idle"

(* Fault: the thread the collector hits, which may hold the lock, waits for the teardown. *)
CollectAndWait(t) ==
  /\ Unreachable /\ finalizer = "armed"
  /\ finalizer' = "detached"
  /\ Does(t, "shutdown", Nobody, "posting")
  /\ UNCHANGED <<loop, host, kept, handle, ownerVars, lock>>

(* _shutdown runs on whatever thread the collector hits, and posts the teardown. *)
Collect(t) ==
  /\ Unreachable /\ finalizer = "armed"
  /\ finalizer' = "posted"
  /\ UNCHANGED <<call, loop, host, kept, handle, ownerVars, lock>>

(* _stop_after_teardown *)
TeardownStarts ==
  /\ LoopRuns /\ finalizer = "posted"
  /\ finalizer' = "run" /\ closing' = "asked"
  /\ UNCHANGED <<call, loop, host, kept, handle, owned, lock>>

----------------------------------------------------------------------------
ThreadSteps(t) ==
  \/ \E s \in Streams : Open(t, s) \/ Pull(t, s) \/ CloseStream(t, s)
  \/ Owned(t) \/ Ask(t) \/ CloseBroker(t) \/ Post(t) \/ StopLoop(t) \/ Join(t)
  \/ TakeLock(t) \/ FreeLock(t) \/ Collect(t)
  \/ Start(t) \/ Delivered(t) \/ Answered(t)

StreamSteps(s) == Cancel(s) \/ Cancelled(s) \/ Settled(s) \/ Drop(s) \/ Abandoned(s)

Next ==
  \/ \E t \in Threads : ThreadSteps(t)
  \/ \E s \in Streams : StreamSteps(s)
  \/ CloseOwned \/ ClosePorts \/ TeardownEnds \/ LoopEnds \/ TeardownStarts \/ DropBroker

SyncBrokerSpec == Init /\ [][Next]_vars

(* The loop takes up what is posted and goes on; a thread in a call posts, stops, joins;  *)
(* a lock that is freed is got.  No provider has to answer.                               *)
FairSyncBrokerSpec ==
  /\ SyncBrokerSpec
  /\ \A t \in Threads : /\ WF_vars(Owned(t)) /\ WF_vars(Post(t)) /\ WF_vars(Start(t))
                        /\ WF_vars(StopLoop(t)) /\ WF_vars(Join(t)) /\ WF_vars(FreeLock(t))
  /\ \A s \in Streams : /\ WF_vars(Cancel(s)) /\ WF_vars(Abandoned(s))
                        /\ SF_vars(Cancelled(s)) /\ SF_vars(Settled(s))
  /\ WF_vars(CloseOwned) /\ WF_vars(ClosePorts)
  /\ WF_vars(TeardownEnds) /\ WF_vars(LoopEnds) /\ WF_vars(TeardownStarts)

----------------------------------------------------------------------------
(* Once the loop has closed, every stream is settled and no thread is left in a pull or a *)
(* close of one, but for a stream that was added from another thread while close() was    *)
(* settling the ones it had found: Broker.close (sync.py:567-575) over AsyncBroker._close *)
(* and the finalizers of the streams.                                                     *)
SettledWhenClosed ==
  loop = "closed" =>
    /\ \A s \in owned : handle[s].late
    /\ \A t \in Threads : call[t].op \in {"pull", "close"} /\ call[t].at = "running"
                           => handle[call[t].on].late

(* A thread in a pull whose provider has gone quiet is given back by whatever closes the  *)
(* stream: another thread, the broker or the collector (StreamHandle._close).             *)
CloseEndsAPull ==
  \A s \in Streams, t \in Threads :
    (handle[s].active = t /\ handle[s].at = "closed" /\ ~handle[s].late)
      ~> (call[t].at = "idle" \/ call[t].on # s)

(* A teardown that was begun, by close() or by the collector on a thread that may hold    *)
(* the lock the loop needs, closes the loop, and the thread in close() returns.           *)
TeardownIsFinished ==
  (finalizer # "armed")
    ~> (loop = "closed" /\ \A t \in Threads : call[t].op # "shutdown")

(* Wherever close() and the collector have brought the broker, somebody has the next step *)
(* of its teardown and of every pull it cuts, and nobody who has it waits for the holder  *)
(* of the executor's lock while that one waits for the teardown (_run_on, _shutdown,      *)
(* _stop_after_teardown, StreamHandle._close).                                            *)
NobodyWaitsInACircle ==
  /\ lock # Nobody => call[lock] = Idle
  /\ \A s \in Streams : handle[s].at = "closed" /\ handle[s].active # Nobody =>
       handle[s].cleanup \in {"cancel", "gather"} /\ (loop = "closed" => handle[s].late)
  /\ finalizer # "armed" /\ loop # "closed" =>
       \/ finalizer = "posted" \/ loop = "stopping"
       \/ \E t \in Threads : call[t].op = "shutdown" /\ call[t].at \in {"posting", "posted", "ended"}
       \/ closing = "asked"
       \/ closing = "settling" /\ \/ \A s \in owned : handle[s].late
                                  \/ \E s \in owned : handle[s].cleanup \in {"cancel", "gather", "source"}
       \/ closing = "ended" /\ \/ finalizer = "run"
                               \/ \E t \in Threads : At(t, "shutdown", "running")

(* Not so: a pull or a call that reaches the loop as it stops, or a call in flight then,  *)
(* is waited for for ever (_run_on, sync.py:80-81).                                       *)
EveryThreadReturns ==
  \A t \in Threads : call[t].op # "none" /\ loop = "closed" ~> call[t].op = "none"
=============================================================================
