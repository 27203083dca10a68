------------------------------ MODULE ModelList ------------------------------
(***************************************************************************)
(* How the curated list becomes the registry, and a curated alias a model: *)
(* the three copies of a curated text (broker/presets.py), the merge       *)
(* (broker/merge.py), the two writers (broker/model_list_file.py and       *)
(* DriverRegistry.mirror) and the resolution of direct= (broker/aliases.py *)
(* and AsyncBroker._resolve_declared), on several nodes.                   *)
(*                                                                         *)
(* An entry of the registry is the version of the list that stated it; a   *)
(* name keeps what else it says out of the model.  A node syncs in steps   *)
(* of one await: it reads the text, loads the registry and merges, and     *)
(* mirrors row by row, or writes the file at one stroke.                   *)
(***************************************************************************)
EXTENDS Integers, FiniteSets

CONSTANTS
  Names,       \* entry names
  Nodes,       \* installations, each with a home directory of its own
  Declaring,   \* those whose host declares the alias with direct=
  Newest,      \* the curated files have versions 1 to Newest; 1 is in the wheel
  Lists,       \* the entries of each version
  Model,       \* the model an entry of a version names
  Carried,     \* the versions whose paid catalog carries the declared alias
  Kinds,       \* the registries looked at: "file", "database"
  Overlap,     \* whether the host writes its own entries during a sync
  MaxEvents    \* bound on fetches that fail, crashes and entries of the host

Versions == 1 .. Newest
Wheel == 1
None == 0
Own == -1
Unresolved == -2

ASSUME ModelListAssumption ==
  /\ Newest \in Nat \ {0, 1}
  /\ Lists \in [Versions -> SUBSET Names]
  /\ DOMAIN Model = Versions /\ \A v \in Versions : DOMAIN Model[v] = Names
  /\ Carried \subseteq Versions /\ Declaring \subseteq Nodes
  /\ Kinds \subseteq {"file", "database"}
  /\ Overlap \in BOOLEAN /\ MaxEvents \in Nat

VARIABLES
  kind,       \* where the registry is
  upstream,   \* the version on the default branch
  cache,      \* the list and the catalog in each home directory
  registry,   \* by name: the version that stated the entry, Own, or None
  node,       \* where the sync of each node stands
  alias,      \* the version the declared alias of each node answers from, None before the
              \* first resolution
  overlay,    \* Catalog._declared: dropped, being resolved from a version, or in use
  cut,        \* whether a sync was cut short
  events

vars == <<kind, upstream, cache, registry, node, alias, overlay, cut, events>>
syncVars == <<kind, upstream, registry, node, cut>>
declareVars == <<alias, overlay>>

Idle == [at |-> "idle", src |-> Wheel, owned |-> {}, todo |-> {}]
Dropped == [at |-> "dropped", from |-> None]
Stored == {m \in Names : registry[m] # None}
Owned == {m \in Names : registry[m] = Own}
Syncing == {n \in Nodes : node[n].at # "idle"}

ModelListTypeOK ==
  /\ kind \in Kinds /\ upstream \in Versions
  /\ cache \in [Nodes -> [list : Versions \cup {None}, catalog : Versions \cup {None}]]
  /\ registry \in [Names -> Versions \cup {None, Own}]
  /\ node \in [Nodes -> [at : {"idle", "read", "write", "delete", "upsert"}, src : Versions,
                         owned : SUBSET Names, todo : SUBSET Names]]
  /\ \A n \in Nodes : node[n].at = "delete" =>
       node[n].todo \cap (Lists[node[n].src] \cup node[n].owned) = {}
  /\ alias \in [Nodes -> Versions \cup {None, Unresolved}]
  /\ overlay \in [Nodes -> [at : {"dropped", "reading", "used"}, from : Versions \cup {None}]]
  /\ cut \in BOOLEAN /\ events \in 0 .. MaxEvents

Init ==
  /\ kind \in Kinds
  /\ upstream = Wheel + 1
  /\ cache = [n \in Nodes |-> [list |-> None, catalog |-> None]]
  /\ registry \in {[m \in Names |-> IF m \in Lists[v] THEN v ELSE None] : v \in {Wheel, Wheel + 1}}
  /\ node = [n \in Nodes |-> Idle]
  /\ alias = [n \in Nodes |-> None]
  /\ overlay = [n \in Nodes |-> Dropped]
  /\ cut = FALSE
  /\ events = 0

Event == events < MaxEvents /\ events' = events + 1

----------------------------------------------------------------------------
(* The three copies of a text. *)

(* A fetch that succeeds overwrites the cache; one that fails falls back to it, and to *)
(* the wheel where the floor is in the chain.  Nothing at all is no version.           *)
Fetched(n, file, v) ==
  /\ v = upstream
  /\ cache' = [cache EXCEPT ![n][file] = v]
  /\ UNCHANGED events

FellBack(n, file, floor, v) ==
  /\ v = IF cache[n][file] # None THEN cache[n][file] ELSE IF floor THEN Wheel ELSE None
  /\ Event
  /\ UNCHANGED cache

----------------------------------------------------------------------------
(* The sync of a node. *)

(* load_sync_source: the floor is in the chain of every sync. *)
ReadSource(n) ==
  /\ node[n].at = "idle"
  /\ \E v \in Versions :
       /\ (Fetched(n, "list", v) \/ FellBack(n, "list", TRUE, v))
       /\ node' = [node EXCEPT ![n].at = "read", ![n].src = v]
  /\ UNCHANGED <<kind, upstream, registry, declareVars, cut>>

(* Fault: what the installation stated itself is not carried through. *)
MergedAlone(v) == [m \in Names |-> IF m \in Lists[v] THEN v ELSE None]

(* The list of version v over the registry as it is: the arriving entries, and those  *)
(* the installation stated itself.                                                    *)
Merged(v) == [m \in Names |-> IF m \in Lists[v] THEN v
                              ELSE IF registry[m] = Own THEN Own ELSE None]

(* Fault: an empty list is applied like any other. *)
RefusedForAClash(v) ==
  \/ \E m \in Lists[v] : registry[m] \in Versions /\ Model[registry[m]][m] # Model[v][m]
  \/ Owned \cap Lists[v] # {}

(* The list of version v over the registry as it is would change the model of an entry, *)
(* carry a name twice, or leave nothing.                                                *)
Refused(v) ==
  \/ \E m \in Lists[v] : registry[m] \in Versions /\ Model[registry[m]][m] # Model[v][m]
  \/ Owned \cap Lists[v] # {}
  \/ Lists[v] \cup Owned = {} /\ Stored # {}

(* The merge against what is loaded: refused, no change, or to be written. *)
Merge(n) ==
  LET v == node[n].src
  IN /\ node[n].at = "read"
     /\ node' = [node EXCEPT ![n] =
          IF Refused(v) \/ Merged(v) = registry THEN Idle
          ELSE [@ EXCEPT !.at = "write", !.owned = {m \in Names : Merged(v)[m] = Own}]]
     /\ UNCHANGED <<kind, upstream, cache, registry, declareVars, cut, events>>

Planned(n) == Lists[node[n].src] \cup node[n].owned
Row(n, m) == IF m \in Lists[node[n].src] THEN node[n].src ELSE Own

WriteFile(n) ==
  /\ kind = "file" /\ node[n].at = "write"
  /\ registry' = [m \in Names |-> IF m \in Planned(n) THEN Row(n, m) ELSE None]
  /\ node' = [node EXCEPT ![n] = Idle]
  /\ UNCHANGED <<kind, upstream, cache, declareVars, cut, events>>

(* The rows there are now; those the merge does not name are deleted first. *)
Existing(n) ==
  /\ kind = "database" /\ node[n].at = "write"
  /\ node' = [node EXCEPT ![n].at = "delete", ![n].todo = Stored \ Planned(n)]
  /\ UNCHANGED <<kind, upstream, cache, registry, declareVars, cut, events>>

(* Fault: rows the list no longer has are left. *)
DeleteNothing(n) ==
  /\ node[n].at = "delete"
  /\ node' = [node EXCEPT ![n].at = "upsert", ![n].todo = Planned(n)]
  /\ UNCHANGED <<kind, upstream, cache, registry, declareVars, cut, events>>

Delete(n) ==
  /\ node[n].at = "delete"
  /\ \/ \E m \in node[n].todo :
          /\ registry' = [registry EXCEPT ![m] = None]
          /\ node' = [node EXCEPT ![n].todo = @ \ {m}]
     \/ /\ node[n].todo = {}
        /\ node' = [node EXCEPT ![n].at = "upsert", ![n].todo = Planned(n)]
        /\ UNCHANGED registry
  /\ UNCHANGED <<kind, upstream, cache, declareVars, cut, events>>

Upsert(n) ==
  /\ node[n].at = "upsert"
  /\ \/ \E m \in node[n].todo :
          /\ registry' = [registry EXCEPT ![m] = Row(n, m)]
          /\ node' = [node EXCEPT ![n].todo = @ \ {m}]
     \/ /\ node[n].todo = {}
        /\ node' = [node EXCEPT ![n] = Idle]
        /\ UNCHANGED registry
  /\ UNCHANGED <<kind, upstream, cache, declareVars, cut, events>>

----------------------------------------------------------------------------
(* The declared alias. *)

(* Fault: the resolution in use stays. *)
RefreshCatalogUnseen(n) ==
  /\ \E v \in Versions : Fetched(n, "catalog", v)
  /\ UNCHANGED <<syncVars, declareVars>>

(* _refresh_paid_catalog: a fetch that fails leaves the copy that is here; one that *)
(* succeeds drops the resolution in use.                                            *)
RefreshCatalog(n) ==
  /\ \E v \in Versions : Fetched(n, "catalog", v)
  /\ overlay' = [overlay EXCEPT ![n] = IF @.at = "used" THEN Dropped ELSE @]
  /\ UNCHANGED <<syncVars, alias>>

(* Fault: the floor is in the chain of every resolution. *)
CatalogReadToTheFloor(n, v) ==
  \/ cache[n].catalog = v /\ v # None /\ UNCHANGED <<cache, events>>
  \/ /\ cache[n].catalog = None
     /\ (Fetched(n, "catalog", v) \/ FellBack(n, "catalog", TRUE, v))

(* The copy here first; the wheel's only for an alias that nothing has answered yet. *)
CatalogRead(n, v) ==
  \/ cache[n].catalog = v /\ v # None /\ UNCHANGED <<cache, events>>
  \/ /\ cache[n].catalog = None
     /\ (Fetched(n, "catalog", v) \/ FellBack(n, "catalog", alias[n] = None, v))

(* The read is made by another thread; callers that arrive meanwhile wait for it. *)
ReadCatalog(n) ==
  /\ overlay[n].at = "dropped"
  /\ \E v \in Versions \cup {None} :
       /\ CatalogRead(n, v)
       /\ overlay' = [overlay EXCEPT ![n] = [at |-> "reading", from |-> v]]
  /\ UNCHANGED <<syncVars, alias>>

(* The entry of catalog v, the one in use where v has dropped the alias or could not be *)
(* read, or neither.                                                                    *)
Declared(n, v) ==
  IF v \in Carried THEN v ELSE IF alias[n] # None THEN alias[n] ELSE Unresolved

(* _resolve_declared returns, and what it read is used, although a refresh may have     *)
(* dropped the resolution meanwhile.                                                    *)
Resolve(n) ==
  /\ overlay[n].at = "reading"
  /\ alias' = [alias EXCEPT ![n] = Declared(n, overlay[n].from)]
  /\ overlay' = [overlay EXCEPT ![n] = [at |-> "used", from |-> None]]
  /\ UNCHANGED <<syncVars, cache, events>>

----------------------------------------------------------------------------
(* The curators, the host and the machines. *)

Curate ==
  /\ upstream < Newest
  /\ upstream' = upstream + 1
  /\ UNCHANGED <<kind, cache, registry, node, declareVars, cut, events>>

HostAdds(m) ==
  /\ kind = "database" /\ Event
  /\ Overlap \/ Syncing = {}
  /\ registry[m] = None
  /\ registry' = [registry EXCEPT ![m] = Own]
  /\ UNCHANGED <<kind, upstream, cache, node, declareVars, cut>>

(* The process of a node dies; what it resolved dies with it. *)
Crash(n) ==
  /\ Event
  /\ node' = [node EXCEPT ![n] = Idle]
  /\ alias' = [alias EXCEPT ![n] = None]
  /\ overlay' = [overlay EXCEPT ![n] = Dropped]
  /\ cut' = (cut \/ n \in Syncing)
  /\ UNCHANGED <<kind, upstream, cache, registry>>

(* An emptied home directory. *)
LoseCache(n) ==
  /\ cache' = [cache EXCEPT ![n] = [list |-> None, catalog |-> None]]
  /\ UNCHANGED <<syncVars, declareVars, events>>

SyncStep(n) == ReadSource(n) \/ Merge(n) \/ WriteFile(n) \/ Existing(n) \/ Delete(n) \/ Upsert(n)

Next ==
  \/ \E n \in Nodes : SyncStep(n) \/ Crash(n) \/ LoseCache(n)
  \/ \E n \in Declaring : RefreshCatalog(n) \/ ReadCatalog(n) \/ Resolve(n)
  \/ Curate
  \/ \E m \in Names : HostAdds(m)

ModelListSpec == Init /\ [][Next]_vars

(* The refresh clock of every node goes on; the network fails MaxEvents times at most. *)
FairModelListSpec ==
  /\ ModelListSpec
  /\ \A n \in Nodes : WF_vars(SyncStep(n))
  /\ \A n \in Declaring : WF_vars(RefreshCatalog(n)) /\ WF_vars(ReadCatalog(n) \/ Resolve(n))

----------------------------------------------------------------------------
(* The mirror: whatever nodes with older copies wrote, and wherever a sync was cut short, *)
(* the registry comes to what a sync of the newest list would leave of it.                *)
RegistryFollowsTheList == <>[](Refused(upstream) \/ registry = Merged(upstream))

(* An entry the installation stated itself is never removed and never replaced.           *)
OwnEntriesStay == [][\A m \in Names : registry[m] = Own => registry'[m] = Own]_vars

(* A sync never leaves a registry that had entries without any, unless it was cut short.  *)
NeverEmptied == Syncing = {} /\ ~cut => Stored # {}

(* A model declared once is neither lost nor rolled back to the wheel's copy while its    *)
(* process lives, whatever the network and the catalog do.                                *)
AliasHolds ==
  [][\A n \in Nodes : alias[n] \in Versions /\ alias'[n] # alias[n] =>
       (alias'[n] > Wheel \/ (alias'[n] = None /\ Crash(n)))]_vars

(* It comes to the newest catalog, where that still carries the alias.                    *)
AliasFollowsTheCatalog ==
  <>[](upstream \in Carried => \A n \in Declaring : alias[n] = upstream)

(* "The floor holds a list up; it never moves one."                                       *)
FloorMovesNoEntry ==
  [][\A m \in Names : registry[m] > Wheel => registry'[m] # Wheel]_vars
=============================================================================
