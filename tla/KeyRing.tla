------------------------------- MODULE KeyRing -------------------------------
(***************************************************************************)
(* The keys callers pay with (broker/keyring.py) against the secrets store *)
(* they are read from, and the part of AsyncBroker.rebuild that refreshes  *)
(* every ring.                                                             *)
(*                                                                         *)
(* A ring answers from its own values and falls back to the shared ring.   *)
(* Every lookup is an await: the store is read at one moment (Lookup) and  *)
(* the answer used at a later one (Deliver, Compare).  A call that got a   *)
(* key spends it, and a provider that rejects it has it withdrawn.  What   *)
(* the code does between two awaits is one action; two rings of a rebuild  *)
(* are refreshed by two, although nothing can come between them.           *)
(***************************************************************************)
EXTENDS Integers, Sequences

CONSTANTS
  Rings,      \* the shared ring and those of the scopes
  Shared,
  Refs,       \* api_key_refs
  Values,     \* keys
  NoKey,
  Dead,       \* the keys a provider rejects
  Stored,     \* what the store may hold at the start
  Calls,
  RingOf,     \* whose key a call pays with
  MaxEvents   \* bound on edits of the store and on lookups that fail

Places == Rings \X Refs
Keys == Values \cup {NoKey}

ASSUME KeyRingAssumption ==
  /\ Shared \in Rings
  /\ NoKey \notin Values
  /\ Dead \subseteq Values
  /\ Stored \subseteq [Places -> Keys]
  /\ RingOf \in [Calls -> Rings]
  /\ MaxEvents \in Nat

VARIABLES
  store,      \* what the secrets store holds, by scoped ref
  held,       \* KeyRing._values
  missing,    \* KeyRing._missing
  rejected,   \* KeyRing._rejected
  known,      \* KeyRing._known: the refs worth a lookup, all of them when unlisted
  call,       \* where each call stands
  sweep,      \* where the rebuild stands
  events      \* edits and failed lookups so far

vars == <<store, held, missing, rejected, known, call, sweep, events>>

Idle == [at |-> "idle", place |-> <<Shared, CHOOSE k \in Refs : TRUE>>, key |-> NoKey]
Resting == [at |-> "idle", ring |-> Shared, listing |-> {}, todo |-> {},
            keep |-> [k \in Refs |-> NoKey], ref |-> CHOOSE k \in Refs : TRUE,
            value |-> NoKey, key |-> NoKey, grown |-> FALSE]

KeyRingTypeOK ==
  /\ store \in [Places -> Keys] /\ held \in [Places -> Keys] /\ rejected \in [Places -> Keys]
  /\ missing \subseteq Places /\ known \subseteq Places
  /\ call \in [Calls -> [at : {"idle", "reading", "read", "asking"},
                         place : Places, key : Keys]]
  /\ sweep \in [at : {"idle", "listing", "refreshing", "reading", "read"}, ring : Rings,
                listing : SUBSET Places, todo : SUBSET Refs, keep : [Refs -> Keys],
                ref : Refs, value : Keys, key : Keys, grown : BOOLEAN]
  /\ events \in 0 .. MaxEvents

Init ==
  /\ store \in Stored
  /\ held = [p \in Places |-> NoKey]
  /\ missing = {}
  /\ rejected = [p \in Places |-> NoKey]
  /\ known = Places
  /\ call = [c \in Calls |-> Idle]
  /\ sweep = Resting
  /\ events = 0

----------------------------------------------------------------------------
(* Resolving a key. *)

Path(r) == IF r = Shared THEN <<Shared>> ELSE <<r, Shared>>

(* The ring answers without looking anything up. *)
Answers(p) == rejected[p] # NoKey \/ held[p] # NoKey

Passes(p, absent) == ~Answers(p) /\ (p \in absent \/ p \notin known)

(* The call goes down the rings in `rings` to the first that answers, or that has to *)
(* look the ref up; `absent` are the refs remembered as unset by then.               *)
Descend(c, k, rings, absent) ==
  LET At(i) == <<rings[i], k>>
      end == {i \in DOMAIN rings : /\ ~Passes(At(i), absent)
                                   /\ \A j \in 1 .. i - 1 : Passes(At(j), absent)}
      passed == {i \in DOMAIN rings : \A j \in 1 .. i : Passes(At(j), absent)}
  IN /\ missing' = absent \cup {At(i) : i \in passed}
     /\ call' = [call EXCEPT ![c] =
          IF end = {} THEN Idle
          ELSE LET p == At(CHOOSE i \in end : TRUE)
               IN CASE rejected[p] # NoKey -> Idle
                    [] rejected[p] = NoKey /\ held[p] # NoKey ->
                         [at |-> "asking", place |-> p, key |-> held[p]]
                    [] OTHER -> [at |-> "reading", place |-> p, key |-> NoKey]]

Resolve(c, k) ==
  /\ call[c].at = "idle"
  /\ Descend(c, k, Path(RingOf[c]), missing)
  /\ UNCHANGED <<store, held, rejected, known, sweep, events>>

(* The backend reads the store, or raises and the ref is taken for unset. *)
Lookup(c) ==
  /\ call[c].at = "reading"
  /\ \/ /\ call' = [call EXCEPT ![c].at = "read", ![c].key = store[call[c].place]]
        /\ UNCHANGED events
     \/ /\ events < MaxEvents
        /\ call' = [call EXCEPT ![c].at = "read"]
        /\ events' = events + 1
  /\ UNCHANGED <<store, held, missing, rejected, known, sweep>>

Deliver(c) ==
  LET p == call[c].place
  IN /\ call[c].at = "read"
     /\ \/ /\ call[c].key # NoKey
           /\ held' = [held EXCEPT ![p] = call[c].key]
           /\ call' = [call EXCEPT ![c].at = "asking"]
           /\ UNCHANGED missing
        \/ /\ call[c].key = NoKey
           /\ Descend(c, p[2], IF p[1] = Shared THEN <<>> ELSE <<Shared>>, missing \cup {p})
           /\ UNCHANGED held
     /\ UNCHANGED <<store, rejected, known, sweep, events>>

----------------------------------------------------------------------------
(* Spending it. *)

(* The rings `forget` asks in turn, and the one that still holds a value for the ref. *)
Holder(r, k) == {p \in Rings \X {k} : /\ held[p] # NoKey
                                     /\ \/ p[1] = r
                                        \/ p[1] = Shared /\ held[<<r, k>>] = NoKey}

(* A ref the ring had not rejected before makes its dictionary grow under a sweep. *)
Forget(r, k) ==
  LET withdrawn == Holder(r, k)
  IN /\ held' = [p \in Places |-> IF p \in withdrawn THEN NoKey ELSE held[p]]
     /\ missing' = missing \ withdrawn
     /\ rejected' = [p \in Places |-> IF p \in withdrawn THEN held[p] ELSE rejected[p]]
     /\ sweep' = [sweep EXCEPT !.grown =
          @ \/ /\ sweep.at \in {"reading", "read"}
               /\ <<sweep.ring, k>> \in withdrawn
               /\ rejected[<<sweep.ring, k>>] = NoKey]

Accepted(c) ==
  /\ call[c].at = "asking"
  /\ call[c].key \notin Dead
  /\ call' = [call EXCEPT ![c] = Idle]
  /\ UNCHANGED <<store, held, missing, rejected, known, sweep, events>>

Unauthorized(c) ==
  /\ call[c].at = "asking"
  /\ call[c].key \in Dead
  /\ Forget(RingOf[c], call[c].place[2])
  /\ call' = [call EXCEPT ![c] = Idle]
  /\ UNCHANGED <<store, known, events>>

----------------------------------------------------------------------------
(* The rebuild. *)

Rebuild ==
  /\ sweep.at = "idle"
  /\ sweep' = [Resting EXCEPT !.at = "listing"]
  /\ UNCHANGED <<store, held, missing, rejected, known, call, events>>

(* One listing answers for every ring; none does where the backend cannot list. *)
List ==
  /\ sweep.at = "listing"
  /\ \E listing \in {{p \in Places : store[p] # NoKey}, Places} :
       sweep' = [sweep EXCEPT !.at = "refreshing", !.listing = listing]
  /\ UNCHANGED <<store, held, missing, rejected, known, call, events>>

(* The sweep of ring r has seen the rejections it keeps and those it drops: what is   *)
(* left is the listed part of `todo`.  The shared ring goes first.                    *)
Onward(r, todo, keep, entries) ==
  LET left == {k \in todo : <<r, k>> \in sweep.listing}
      next == Rings \ {Shared}
  IN \/ \E k \in left :
          /\ sweep' = [sweep EXCEPT !.at = "reading", !.todo = left \ {k}, !.keep = keep,
                                    !.ref = k, !.value = entries[<<r, k>>], !.key = NoKey]
          /\ UNCHANGED rejected
     \/ /\ left = {}
        /\ rejected' = [p \in Places |-> IF p[1] = r THEN keep[p[2]] ELSE rejected[p]]
        /\ \/ r = Shared /\ \E s \in next :
                sweep' = [Resting EXCEPT !.at = "refreshing", !.ring = s,
                                         !.listing = sweep.listing]
           \/ r # Shared /\ sweep' = Resting
           \/ next = {} /\ sweep' = Resting

(* Fault: the values read so far survive a rebuild. *)
RefreshKeeps ==
  LET r == sweep.ring
  IN /\ sweep.at = "refreshing"
     /\ missing' = {p \in missing : p[1] # r}
     /\ known' = {p \in known : p[1] # r} \cup {p \in sweep.listing : p[1] = r}
     /\ Onward(r, {k \in Refs : rejected[<<r, k>>] # NoKey}, Resting.keep, rejected)
     /\ UNCHANGED <<store, held, call, events>>

Refresh ==
  LET r == sweep.ring
  IN /\ sweep.at = "refreshing"
     /\ held' = [p \in Places |-> IF p[1] = r THEN NoKey ELSE held[p]]
     /\ missing' = {p \in missing : p[1] # r}
     /\ known' = {p \in known : p[1] # r} \cup {p \in sweep.listing : p[1] = r}
     /\ Onward(r, {k \in Refs : rejected[<<r, k>>] # NoKey}, Resting.keep, rejected)
     /\ UNCHANGED <<store, call, events>>

Reread ==
  /\ sweep.at = "reading"
  /\ \/ /\ sweep' = [sweep EXCEPT !.at = "read", !.key = store[<<sweep.ring, sweep.ref>>]]
        /\ UNCHANGED events
     \/ /\ events < MaxEvents
        /\ sweep' = [sweep EXCEPT !.at = "read"]
        /\ events' = events + 1
  /\ UNCHANGED <<store, held, missing, rejected, known, call>>

(* Fault: a rejection outlives the value it was for. *)
CompareAny ==
  LET keep == [sweep.keep EXCEPT ![sweep.ref] = IF sweep.key # NoKey THEN sweep.value ELSE @]
  IN /\ sweep.at = "read"
     /\ Onward(sweep.ring, sweep.todo, keep, rejected)
     /\ UNCHANGED <<store, held, missing, known, call, events>>

(* A rejection survives while its value does.  A dictionary that grew under the loop  *)
(* ends the rebuild with every rejection still in place.                              *)
Compare ==
  LET keep == IF sweep.key = sweep.value
              THEN [sweep.keep EXCEPT ![sweep.ref] = sweep.value] ELSE sweep.keep
  IN /\ sweep.at = "read"
     /\ \/ /\ ~sweep.grown
           /\ Onward(sweep.ring, sweep.todo, keep, rejected)
        \/ /\ sweep.grown
           /\ sweep' = Resting
           /\ UNCHANGED rejected
     /\ UNCHANGED <<store, held, missing, known, call, events>>

----------------------------------------------------------------------------
AdminSets(p, v) ==
  /\ events < MaxEvents
  /\ store[p] # v
  /\ store' = [store EXCEPT ![p] = v]
  /\ events' = events + 1
  /\ UNCHANGED <<held, missing, rejected, known, call, sweep>>

RebuildStep == Rebuild \/ List \/ Refresh \/ Reread \/ Compare

CallStep(c) == Lookup(c) \/ Deliver(c) \/ Accepted(c) \/ Unauthorized(c)

Next ==
  \/ \E c \in Calls, k \in Refs : Resolve(c, k)
  \/ \E c \in Calls : CallStep(c)
  \/ RebuildStep
  \/ \E p \in Places, v \in Keys : AdminSets(p, v)

KeyRingSpec == Init /\ [][Next]_vars

(* Lookups and provider calls end, and the refresh clock keeps rebuilding. *)
FairKeyRingSpec ==
  KeyRingSpec /\ WF_vars(RebuildStep) /\ \A c \in Calls : WF_vars(CallStep(c))

----------------------------------------------------------------------------
(* Once the store is left alone no ring holds a value it no longer has: a lookup that  *)
(* was under way when the rings were cleared, or a rebuild that failed half way, is    *)
(* made good by a later rebuild (KeyRing.refresh).                                     *)
StaleKeysAreFlushed == <>[](\A p \in Places : held[p] \in {NoKey, store[p]})

(* A ring does not go on refusing a ref over a value the store has dropped: in the end *)
(* a rejection is remembered only against the value the store still has, so a value    *)
(* written after it is looked up again.  Whether that value deserved its rejection is  *)
(* another matter (ReplacementIsUsed).                                                 *)
RejectionsFollowTheStore == <>[](\A p \in Places : rejected[p] \in {NoKey, store[p]})

(* "A rejection survives only while its value does: an admin who has replaced the key  *)
(* gets it used" (KeyRing.refresh): in the end no key a provider would take is refused *)
(* as rejected.  The code breaks it: `forget` withdraws whatever the rings hold when   *)
(* the 401 comes, and by then that may be the replacement, or, once a rebuild cleared  *)
(* the caller's own value, the shared key it never spent.                              *)
ReplacementIsUsed == <>[](\A p \in Places : rejected[p] \in Dead \cup {NoKey})
=============================================================================
