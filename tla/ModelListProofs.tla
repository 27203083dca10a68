--------------------------- MODULE ModelListProofs ---------------------------
(***************************************************************************)
(* Theorems about ModelList, for any nodes, lists and numbers of faults.   *)
(***************************************************************************)
EXTENDS ModelList, TLAPS

NodeStates == [at : {"idle", "read", "write", "delete", "upsert"}, src : Versions,
               owned : SUBSET Names, todo : SUBSET Names]
Copies == [list : Versions \cup {None}, catalog : Versions \cup {None}]
Rows == Versions \cup {None, Own}

-----------------------------------------------------------------------------
(* What the steps do to the state of a node. *)

LEMMA ReadTyped ==
  ASSUME NEW r \in NodeStates, NEW v \in Versions
  PROVE  /\ [r EXCEPT !.at = "read", !.src = v] \in NodeStates
         /\ [r EXCEPT !.at = "read", !.src = v].at = "read"
  BY DEF NodeStates

LEMMA TodoTyped ==
  ASSUME NEW r \in NodeStates, NEW a \in {"delete", "upsert"}, NEW T \in SUBSET Names
  PROVE  LET s == [r EXCEPT !.at = a, !.todo = T]
         IN  s \in NodeStates /\ s.at = a /\ s.todo = T /\ s.src = r.src /\ s.owned = r.owned
  BY DEF NodeStates

LEMMA RestTyped ==
  ASSUME NEW r \in NodeStates, NEW T \in SUBSET Names
  PROVE  LET s == [r EXCEPT !.todo = T]
         IN  s \in NodeStates /\ s.at = r.at /\ s.todo = T /\ s.src = r.src /\ s.owned = r.owned
  BY DEF NodeStates

LEMMA WriteTyped ==
  ASSUME NEW r \in NodeStates, NEW T \in SUBSET Names
  PROVE  LET s == [r EXCEPT !.at = "write", !.owned = T]
         IN  s \in NodeStates /\ s.at = "write" /\ s.src = r.src /\ s.owned = T
  BY DEF NodeStates

LEMMA IdleTyped == Wheel \in Versions /\ Idle \in NodeStates /\ Idle.at = "idle"
  BY ModelListAssumption DEF Wheel, Versions, Idle, NodeStates

LEMMA Updated ==
  ASSUME node \in [Nodes -> NodeStates], NEW n \in Nodes, NEW r \in NodeStates,
         node' = [node EXCEPT ![n] = r]
  PROVE  /\ node' \in [Nodes -> NodeStates]
         /\ node'[n] = r
         /\ \A o \in Nodes \ {n} : node'[o] = node[o]
  OBVIOUS

LEMMA PlannedTyped ==
  ASSUME ModelListTypeOK, NEW n \in Nodes
  PROVE  Planned(n) \in SUBSET Names /\ \A m \in Planned(n) : Row(n, m) \in Versions \cup {Own}
  BY ModelListAssumption DEF Planned, Row, ModelListTypeOK

LEMMA ReadSourceEffect ==
  ASSUME ModelListTypeOK, NEW n \in Nodes, ReadSource(n)
  PROVE  /\ node' \in [Nodes -> NodeStates]
         /\ node'[n].at = "read"
         /\ \A o \in Nodes \ {n} : node'[o] = node[o]
<1>1. PICK v \in Versions : node' = [node EXCEPT ![n].at = "read", ![n].src = v]
  BY DEF ReadSource
<1>2. node \in [Nodes -> NodeStates] /\ node[n] \in NodeStates
  BY DEF ModelListTypeOK, NodeStates
<1>3. node' = [node EXCEPT ![n] = [node[n] EXCEPT !.at = "read", !.src = v]]
  BY <1>1
<1>4. /\ node' \in [Nodes -> NodeStates]
      /\ node'[n] = [node[n] EXCEPT !.at = "read", !.src = v]
      /\ \A o \in Nodes \ {n} : node'[o] = node[o]
  BY <1>2, <1>3, ReadTyped, Updated
<1>5. node'[n].at = "read"
  BY <1>2, <1>4 DEF NodeStates
<1> QED
  BY <1>4, <1>5

LEMMA MergeEffect ==
  ASSUME ModelListTypeOK, NEW n \in Nodes, Merge(n)
  PROVE  /\ node' \in [Nodes -> NodeStates]
         /\ \A o \in Nodes \ {n} : node'[o] = node[o]
         /\ \/ node'[n].at = "idle"
            \/ /\ node'[n].at = "write" /\ node'[n].src = node[n].src
               /\ node'[n].owned = {m \in Names : Merged(node[n].src)[m] = Own}
               /\ ~Refused(node[n].src) /\ Merged(node[n].src) # registry
<1> DEFINE v == node[n].src
           T == {m \in Names : Merged(v)[m] = Own}
<1>1. node \in [Nodes -> NodeStates] /\ node[n] \in NodeStates
  BY DEF ModelListTypeOK, NodeStates
<1>2. T \in SUBSET Names
  OBVIOUS
<1>3. CASE Refused(v) \/ Merged(v) = registry
  <2>1. node' = [node EXCEPT ![n] = Idle]
    BY <1>3 DEF Merge
  <2> QED
    BY <2>1, <1>1, IdleTyped, Updated
<1>4. CASE ~(Refused(v) \/ Merged(v) = registry)
  <2>1. node' = [node EXCEPT ![n] = [node[n] EXCEPT !.at = "write", !.owned = T]]
    BY <1>4 DEF Merge
  <2> HIDE DEF T
  <2>2. /\ node' \in [Nodes -> NodeStates]
        /\ node'[n] = [node[n] EXCEPT !.at = "write", !.owned = T]
        /\ \A o \in Nodes \ {n} : node'[o] = node[o]
    BY <2>1, <1>1, <1>2, WriteTyped, Updated
  <2>3. node'[n].at = "write" /\ node'[n].src = node[n].src /\ node'[n].owned = T
    BY <2>2, <1>1 DEF NodeStates
  <2> QED
    BY <2>2, <2>3, <1>4 DEF T
<1> QED
  BY <1>3, <1>4

LEMMA IdleEffect ==
  ASSUME ModelListTypeOK, NEW n \in Nodes, node' = [node EXCEPT ![n] = Idle]
  PROVE  /\ node' \in [Nodes -> NodeStates]
         /\ node'[n] = Idle /\ node'[n].at = "idle"
         /\ \A o \in Nodes \ {n} : node'[o] = node[o]
<1>1. node \in [Nodes -> NodeStates]
  BY DEF ModelListTypeOK, NodeStates
<1> QED
  BY <1>1, IdleTyped, Updated

LEMMA PhaseEffect ==
  ASSUME ModelListTypeOK, NEW n \in Nodes, NEW a \in {"delete", "upsert"}, NEW T \in SUBSET Names,
         node' = [node EXCEPT ![n].at = a, ![n].todo = T]
  PROVE  /\ node' \in [Nodes -> NodeStates]
         /\ node'[n].at = a /\ node'[n].todo = T
         /\ node'[n].src = node[n].src /\ node'[n].owned = node[n].owned
         /\ \A o \in Nodes \ {n} : node'[o] = node[o]
<1>1. node \in [Nodes -> NodeStates] /\ node[n] \in NodeStates
  BY DEF ModelListTypeOK, NodeStates
<1>2. node' = [node EXCEPT ![n] = [node[n] EXCEPT !.at = a, !.todo = T]]
  OBVIOUS
<1>3. /\ node' \in [Nodes -> NodeStates]
      /\ node'[n] = [node[n] EXCEPT !.at = a, !.todo = T]
      /\ \A o \in Nodes \ {n} : node'[o] = node[o]
  BY <1>1, <1>2, TodoTyped, Updated
<1>4. /\ node'[n].at = a /\ node'[n].todo = T
      /\ node'[n].src = node[n].src /\ node'[n].owned = node[n].owned
  BY <1>1, <1>3 DEF NodeStates
<1> QED
  BY <1>3, <1>4

LEMMA RestEffect ==
  ASSUME ModelListTypeOK, NEW n \in Nodes, NEW m, node' = [node EXCEPT ![n].todo = @ \ {m}]
  PROVE  /\ node' \in [Nodes -> NodeStates]
         /\ node'[n].at = node[n].at /\ node'[n].todo = node[n].todo \ {m}
         /\ node'[n].src = node[n].src /\ node'[n].owned = node[n].owned
         /\ \A o \in Nodes \ {n} : node'[o] = node[o]
<1> DEFINE T == node[n].todo \ {m}
<1>1. node \in [Nodes -> NodeStates] /\ node[n] \in NodeStates /\ T \in SUBSET Names
  BY DEF ModelListTypeOK, NodeStates
<1>2. node' = [node EXCEPT ![n] = [node[n] EXCEPT !.todo = T]]
  OBVIOUS
<1> HIDE DEF T
<1>3. /\ node' \in [Nodes -> NodeStates]
      /\ node'[n] = [node[n] EXCEPT !.todo = T]
      /\ \A o \in Nodes \ {n} : node'[o] = node[o]
  BY <1>1, <1>2, RestTyped, Updated
<1>4. /\ node'[n].at = node[n].at /\ node'[n].todo = T
      /\ node'[n].src = node[n].src /\ node'[n].owned = node[n].owned
  BY <1>1, <1>3 DEF NodeStates
<1> QED
  BY <1>3, <1>4 DEF T

LEMMA CopyTyped ==
  ASSUME cache \in [Nodes -> Copies], NEW n \in Nodes, NEW file \in {"list", "catalog"},
         NEW v \in Versions \cup {None}, cache' = [cache EXCEPT ![n][file] = v]
  PROVE  /\ cache' \in [Nodes -> Copies]
         /\ cache'[n].catalog = IF file = "catalog" THEN v ELSE cache[n].catalog
         /\ \A o \in Nodes \ {n} : cache'[o] = cache[o]
<1>1. CASE file = "list"
  BY <1>1 DEF Copies
<1>2. CASE file = "catalog"
  BY <1>2 DEF Copies
<1> QED
  BY <1>1, <1>2

LEMMA FetchTyped ==
  ASSUME ModelListTypeOK, NEW n \in Nodes, NEW file \in {"list", "catalog"}, NEW v,
         NEW floor, Fetched(n, file, v) \/ FellBack(n, file, floor, v)
  PROVE  /\ cache' \in [Nodes -> Copies]
         /\ events' \in 0 .. MaxEvents
         /\ \A o \in Nodes : cache'[o].catalog \in {cache[o].catalog, upstream}
<1>1. cache \in [Nodes -> Copies] /\ upstream \in Versions /\ events \in 0 .. MaxEvents
  BY DEF ModelListTypeOK, Copies
<1>2. CASE Fetched(n, file, v)
  <2>1. v = upstream /\ UNCHANGED events /\ cache' = [cache EXCEPT ![n][file] = v]
    BY <1>2 DEF Fetched
  <2>2. v \in Versions \cup {None}
    BY <2>1, <1>1
  <2>3. /\ cache' \in [Nodes -> Copies]
        /\ cache'[n].catalog = IF file = "catalog" THEN v ELSE cache[n].catalog
        /\ \A o \in Nodes \ {n} : cache'[o] = cache[o]
    BY <2>1, <2>2, <1>1, CopyTyped
  <2>4. events' \in 0 .. MaxEvents
    BY <2>1, <1>1
  <2>5. cache'[n].catalog \in {cache[n].catalog, upstream}
    BY <2>1, <2>3
  <2>6. \A o \in Nodes \ {n} : cache'[o].catalog \in {cache[o].catalog, upstream}
    BY <2>3
  <2> QED
    BY <2>3, <2>4, <2>5, <2>6
<1>3. CASE FellBack(n, file, floor, v)
  BY <1>1, <1>3, ModelListAssumption DEF FellBack, Event
<1> QED
  BY <1>2, <1>3

-----------------------------------------------------------------------------
(* Types. *)

DeletesNoPlannedRow ==
  \A n \in Nodes : node[n].at = "delete" => node[n].todo \cap Planned(n) = {}

OtherTypes ==
  /\ kind \in Kinds /\ upstream \in Versions
  /\ alias \in [Nodes -> Versions \cup {None, Unresolved}]
  /\ overlay \in [Nodes -> [at : {"dropped", "reading", "used"}, from : Versions \cup {None}]]
  /\ cut \in BOOLEAN /\ events \in 0 .. MaxEvents

LEMMA TypeParts ==
  ModelListTypeOK <=> /\ OtherTypes
                      /\ cache \in [Nodes -> Copies]
                      /\ registry \in [Names -> Rows]
                      /\ node \in [Nodes -> NodeStates]
                      /\ DeletesNoPlannedRow
  BY DEF ModelListTypeOK, OtherTypes, Copies, Rows, NodeStates, DeletesNoPlannedRow, Planned

LEMMA TypePartsNext ==
  ASSUME OtherTypes', cache' \in [Nodes -> Copies], registry' \in [Names -> Rows],
         node' \in [Nodes -> NodeStates], DeletesNoPlannedRow'
  PROVE  ModelListTypeOK'
  BY DEF ModelListTypeOK, OtherTypes, Copies, Rows, NodeStates, DeletesNoPlannedRow, Planned

LEMMA InitTyped == Init => ModelListTypeOK
<1> SUFFICES ASSUME Init PROVE ModelListTypeOK
  OBVIOUS
<1>1. upstream \in Versions /\ events \in 0 .. MaxEvents /\ Wheel + 1 \in Versions
  BY ModelListAssumption DEF Init, Versions, Wheel
<1>2. registry \in [Names -> Rows]
  BY <1>1, IdleTyped DEF Init, Rows
<1>3. node \in [Nodes -> NodeStates] /\ DeletesNoPlannedRow
  BY IdleTyped DEF Init, DeletesNoPlannedRow
<1>4. cache \in [Nodes -> Copies]
  BY DEF Init, Copies
<1>5. OtherTypes
  BY <1>1 DEF Init, OtherTypes, Dropped
<1> QED
  BY <1>2, <1>3, <1>4, <1>5, TypeParts

(* A step that starts no deletion keeps DeletesNoPlannedRow, and so does one that only *)
(* shortens one.                                                                       *)
LEMMA NoDeletion ==
  ASSUME ModelListTypeOK, NEW n \in Nodes, node'[n].at # "delete",
         \A o \in Nodes \ {n} : node'[o] = node[o]
  PROVE  DeletesNoPlannedRow'
  BY TypeParts DEF DeletesNoPlannedRow, Planned

LEMMA SyncTyped ==
  ASSUME ModelListTypeOK, NEW n \in Nodes, SyncStep(n)
  PROVE  ModelListTypeOK'
<1>0. /\ OtherTypes /\ cache \in [Nodes -> Copies] /\ registry \in [Names -> Rows]
      /\ node \in [Nodes -> NodeStates] /\ DeletesNoPlannedRow
  BY TypeParts
<1> SUFFICES /\ OtherTypes' /\ cache' \in [Nodes -> Copies] /\ registry' \in [Names -> Rows]
             /\ node' \in [Nodes -> NodeStates] /\ DeletesNoPlannedRow'
  BY TypePartsNext
<1>1. CASE ReadSource(n)
  <2>1. cache' \in [Nodes -> Copies] /\ events' \in 0 .. MaxEvents
    BY <1>1, FetchTyped DEF ReadSource
  <2>2. OtherTypes'
    BY <1>0, <1>1, <2>1 DEF ReadSource, OtherTypes, declareVars
  <2>3. registry' = registry
    BY <1>1 DEF ReadSource
  <2> QED
    BY <1>0, <1>1, <2>1, <2>2, <2>3, ReadSourceEffect, NoDeletion
<1>2. CASE Merge(n)
  <2>1. UNCHANGED <<cache, registry>> /\ OtherTypes'
    BY <1>0, <1>2 DEF Merge, OtherTypes, declareVars
  <2> QED
    BY <1>0, <1>2, <2>1, MergeEffect, NoDeletion
<1>3. CASE WriteFile(n)
  <2>1. UNCHANGED cache /\ OtherTypes'
    BY <1>0, <1>3 DEF WriteFile, OtherTypes, declareVars
  <2>2. registry' \in [Names -> Rows]
    BY <1>3, PlannedTyped DEF WriteFile, Rows
  <2>3. node' = [node EXCEPT ![n] = Idle]
    BY <1>3 DEF WriteFile
  <2> QED
    BY <1>0, <2>1, <2>2, <2>3, IdleEffect, NoDeletion
<1>4. CASE Existing(n)
  <2>1. UNCHANGED <<cache, registry>> /\ OtherTypes'
    BY <1>0, <1>4 DEF Existing, OtherTypes, declareVars
  <2>2. /\ node' = [node EXCEPT ![n].at = "delete", ![n].todo = Stored \ Planned(n)]
        /\ Stored \ Planned(n) \in SUBSET Names
    BY <1>4 DEF Existing, Stored
  <2>3. /\ node' \in [Nodes -> NodeStates]
        /\ node'[n].todo = Stored \ Planned(n)
        /\ node'[n].src = node[n].src /\ node'[n].owned = node[n].owned
        /\ \A o \in Nodes \ {n} : node'[o] = node[o]
    BY <2>2, PhaseEffect
  <2>4. DeletesNoPlannedRow'
    BY <1>0, <2>3 DEF DeletesNoPlannedRow, Planned
  <2> QED
    BY <1>0, <2>1, <2>3, <2>4
<1>5. CASE Delete(n)
  <2>1. UNCHANGED cache /\ OtherTypes'
    BY <1>0, <1>5 DEF Delete, OtherTypes, declareVars
  <2>2. CASE /\ node[n].todo = {} /\ UNCHANGED registry
             /\ node' = [node EXCEPT ![n].at = "upsert", ![n].todo = Planned(n)]
    BY <1>0, <2>1, <2>2, PlannedTyped, PhaseEffect, NoDeletion
  <2>3. ASSUME NEW m \in node[n].todo,
               registry' = [registry EXCEPT ![m] = None],
               node' = [node EXCEPT ![n].todo = @ \ {m}]
        PROVE  /\ registry' \in [Names -> Rows]
               /\ node' \in [Nodes -> NodeStates] /\ DeletesNoPlannedRow'
    <3>1. registry' \in [Names -> Rows]
      BY <1>0, <2>3 DEF Rows
    <3>2. /\ node' \in [Nodes -> NodeStates]
          /\ node'[n].at = node[n].at /\ node'[n].todo = node[n].todo \ {m}
          /\ node'[n].src = node[n].src /\ node'[n].owned = node[n].owned
          /\ \A o \in Nodes \ {n} : node'[o] = node[o]
      BY <2>3, RestEffect
    <3>3. DeletesNoPlannedRow'
      BY <1>0, <3>2 DEF DeletesNoPlannedRow, Planned
    <3> QED
      BY <3>1, <3>2, <3>3
  <2> QED
    BY <1>0, <1>5, <2>1, <2>2, <2>3 DEF Delete
<1>6. CASE Upsert(n)
  <2>1. UNCHANGED cache /\ OtherTypes'
    BY <1>0, <1>6 DEF Upsert, OtherTypes, declareVars
  <2>2. CASE node' = [node EXCEPT ![n] = Idle] /\ UNCHANGED registry
    BY <1>0, <2>1, <2>2, IdleEffect, NoDeletion
  <2>3. ASSUME NEW m \in node[n].todo,
               registry' = [registry EXCEPT ![m] = Row(n, m)],
               node' = [node EXCEPT ![n].todo = @ \ {m}]
        PROVE  /\ registry' \in [Names -> Rows]
               /\ node' \in [Nodes -> NodeStates] /\ DeletesNoPlannedRow'
    <3>1. Row(n, m) \in Rows
      BY <1>0 DEF Row, Rows, NodeStates
    <3>2. registry' \in [Names -> Rows]
      BY <1>0, <2>3, <3>1
    <3>3. /\ node' \in [Nodes -> NodeStates]
          /\ node'[n].at = node[n].at
          /\ \A o \in Nodes \ {n} : node'[o] = node[o]
      BY <2>3, RestEffect
    <3>4. node'[n].at # "delete"
      BY <1>6, <3>3 DEF Upsert
    <3> QED
      BY <3>2, <3>3, <3>4, NoDeletion
  <2> QED
    BY <1>6, <2>1, <2>2, <2>3, <1>0 DEF Upsert
<1> QED
  BY <1>1, <1>2, <1>3, <1>4, <1>5, <1>6 DEF SyncStep

LEMMA StepTyped == ModelListTypeOK /\ [Next]_vars => ModelListTypeOK'
<1> SUFFICES ASSUME ModelListTypeOK, [Next]_vars PROVE ModelListTypeOK'
  OBVIOUS
<1>0. /\ OtherTypes /\ cache \in [Nodes -> Copies] /\ registry \in [Names -> Rows]
      /\ node \in [Nodes -> NodeStates] /\ DeletesNoPlannedRow
  BY TypeParts
<1>1. ASSUME UNCHANGED node PROVE DeletesNoPlannedRow' /\ node' \in [Nodes -> NodeStates]
  BY <1>0, <1>1 DEF DeletesNoPlannedRow, Planned
<1>2. ASSUME NEW n \in Nodes, SyncStep(n) PROVE ModelListTypeOK'
  BY <1>2, SyncTyped
<1>3. ASSUME NEW n \in Nodes, Crash(n) PROVE ModelListTypeOK'
  <2>1. UNCHANGED <<cache, registry>> /\ node' = [node EXCEPT ![n] = Idle]
    BY <1>3 DEF Crash
  <2>2. OtherTypes'
    BY <1>0, <1>3, ModelListAssumption DEF Crash, Event, OtherTypes, Dropped
  <2> QED
    BY <1>0, <2>1, <2>2, IdleEffect, NoDeletion, TypePartsNext
<1>4. ASSUME NEW n \in Nodes, LoseCache(n) PROVE ModelListTypeOK'
  <2>1. cache' \in [Nodes -> Copies]
    BY <1>0, <1>4 DEF LoseCache, Copies
  <2>2. UNCHANGED <<registry, node>> /\ OtherTypes'
    BY <1>0, <1>4 DEF LoseCache, OtherTypes, syncVars, declareVars
  <2> QED
    BY <1>0, <1>1, <2>1, <2>2, TypePartsNext
<1>5. ASSUME NEW n \in Nodes, RefreshCatalog(n) PROVE ModelListTypeOK'
  <2>1. cache' \in [Nodes -> Copies] /\ events' \in 0 .. MaxEvents
    BY <1>5, FetchTyped DEF RefreshCatalog
  <2>2. UNCHANGED <<registry, node>> /\ OtherTypes'
    BY <1>0, <1>5, <2>1 DEF RefreshCatalog, OtherTypes, syncVars, Dropped
  <2> QED
    BY <1>0, <1>1, <2>1, <2>2, TypePartsNext
<1>6. ASSUME NEW n \in Nodes, ReadCatalog(n) PROVE ModelListTypeOK'
  <2>1. PICK v \in Versions \cup {None} :
          /\ CatalogRead(n, v)
          /\ overlay' = [overlay EXCEPT ![n] = [at |-> "reading", from |-> v]]
    BY <1>6 DEF ReadCatalog
  <2>2. cache' \in [Nodes -> Copies] /\ events' \in 0 .. MaxEvents
    BY <1>0, <2>1, FetchTyped DEF CatalogRead, OtherTypes
  <2>3. UNCHANGED <<registry, node>> /\ OtherTypes'
    BY <1>0, <1>6, <2>1, <2>2 DEF ReadCatalog, OtherTypes, syncVars
  <2> QED
    BY <1>0, <1>1, <2>2, <2>3, TypePartsNext
<1>7. ASSUME NEW n \in Nodes, Resolve(n) PROVE ModelListTypeOK'
  <2>1. Declared(n, overlay[n].from) \in Versions \cup {None, Unresolved}
    BY <1>0, ModelListAssumption DEF Declared, OtherTypes
  <2>2. UNCHANGED <<cache, registry, node>> /\ OtherTypes'
    BY <1>0, <1>7, <2>1 DEF Resolve, OtherTypes, syncVars
  <2> QED
    BY <1>0, <1>1, <2>2, TypePartsNext
<1>8. CASE Curate
  <2>1. UNCHANGED <<cache, registry, node>> /\ OtherTypes'
    BY <1>0, <1>8, ModelListAssumption DEF Curate, OtherTypes, declareVars, Versions
  <2> QED
    BY <1>0, <1>1, <2>1, TypePartsNext
<1>9. ASSUME NEW m \in Names, HostAdds(m) PROVE ModelListTypeOK'
  <2>1. UNCHANGED <<cache, node>> /\ OtherTypes' /\ registry' \in [Names -> Rows]
    BY <1>0, <1>9, ModelListAssumption DEF HostAdds, Event, OtherTypes, declareVars, Rows
  <2> QED
    BY <1>0, <1>1, <2>1, TypePartsNext
<1>10. CASE UNCHANGED vars
  <2>1. UNCHANGED <<cache, registry, node>> /\ OtherTypes'
    BY <1>0, <1>10 DEF vars, OtherTypes
  <2> QED
    BY <1>0, <1>1, <2>1, TypePartsNext
<1> QED
  BY <1>2, <1>3, <1>4, <1>5, <1>6, <1>7, <1>8, <1>9, <1>10, ModelListAssumption DEF Next

(* Every reachable state is well typed: no sync deletes a row it is going to *)
(* write, no alias answers from a version that was never curated.            *)
THEOREM TypeCorrect == ModelListSpec => []ModelListTypeOK
  BY InitTyped, StepTyped, PTL DEF ModelListSpec

-----------------------------------------------------------------------------
(* What a step of a sync does to the registry. *)

Writing(n) == node[n].at \in {"write", "delete", "upsert"}
SamePlan(n) == node'[n].src = node[n].src /\ node'[n].owned = node[n].owned

Pauses(n) ==
  /\ node'[n].at \in {"idle", "read"} /\ UNCHANGED registry
  /\ node[n].at # "delete" /\ (node[n].at = "upsert" => node[n].todo = {})
Decides(n) ==
  /\ node[n].at = "read" /\ node'[n].at = "write" /\ UNCHANGED registry
  /\ node'[n].src = node[n].src /\ node'[n].owned = {m \in Names : Merged(node[n].src)[m] = Own}
  /\ ~Refused(node[n].src) /\ Merged(node[n].src) # registry
Replaces(n) ==
  /\ Writing(n) /\ node'[n].at = "idle"
  /\ registry' = [m \in Names |-> IF m \in Planned(n) THEN Row(n, m) ELSE None]
Compares(n) == Writing(n) /\ node'[n].at = "delete" /\ SamePlan(n) /\ UNCHANGED registry
DropsRow(n, m) ==
  /\ node[n].at = "delete" /\ node'[n].at = "delete" /\ SamePlan(n)
  /\ m \notin Planned(n) /\ registry' = [registry EXCEPT ![m] = None]
Turns(n) ==
  /\ node[n].at = "delete" /\ node'[n].at = "upsert" /\ SamePlan(n) /\ UNCHANGED registry
  /\ node'[n].todo = Planned(n)
PutsRow(n, m) ==
  /\ node[n].at = "upsert" /\ node'[n].at = "upsert" /\ SamePlan(n)
  /\ m \in node[n].todo /\ node'[n].todo = node[n].todo \ {m}
  /\ registry' = [registry EXCEPT ![m] = Row(n, m)]

SyncEffect(n) ==
  \/ Pauses(n) \/ Decides(n) \/ Replaces(n) \/ Compares(n) \/ Turns(n)
  \/ \E m \in Names : DropsRow(n, m) \/ PutsRow(n, m)

LEMMA SyncDoes ==
  ASSUME ModelListTypeOK, NEW n \in Nodes, SyncStep(n)
  PROVE  /\ SyncEffect(n)
         /\ \A o \in Nodes \ {n} : node'[o] = node[o]
         /\ UNCHANGED <<upstream, cut, alias, overlay>>
         /\ cache' = cache \/ \E v : Fetched(n, "list", v)
<1>0. /\ registry \in [Names -> Rows] /\ node \in [Nodes -> NodeStates]
      /\ DeletesNoPlannedRow
  BY TypeParts
<1>a. node[n].todo \subseteq Names
  BY <1>0 DEF NodeStates
<1>1. CASE ReadSource(n)
  <2>1. Pauses(n)
    BY <1>1, ReadSourceEffect DEF ReadSource, Pauses
  <2> QED
    BY <1>1, <2>1, ReadSourceEffect DEF ReadSource, SyncEffect, FellBack, declareVars
<1>2. CASE Merge(n)
  <2>1. Pauses(n) \/ Decides(n)
    BY <1>2, MergeEffect DEF Merge, Pauses, Decides
  <2> QED
    BY <1>2, <2>1, MergeEffect DEF Merge, SyncEffect, declareVars
<1>3. CASE WriteFile(n)
  <2>1. node' = [node EXCEPT ![n] = Idle] /\ Writing(n)
    BY <1>3 DEF WriteFile, Writing
  <2>2. Replaces(n)
    BY <1>3, <2>1, IdleEffect DEF WriteFile, Replaces
  <2> QED
    BY <1>3, <2>1, <2>2, IdleEffect DEF WriteFile, SyncEffect, declareVars
<1>4. CASE Existing(n)
  <2>1. /\ node' = [node EXCEPT ![n].at = "delete", ![n].todo = Stored \ Planned(n)]
        /\ Stored \ Planned(n) \in SUBSET Names
    BY <1>4 DEF Existing, Stored
  <2>2. Compares(n) /\ \A o \in Nodes \ {n} : node'[o] = node[o]
    BY <1>4, <2>1, PhaseEffect DEF Existing, Compares, Writing, SamePlan
  <2> QED
    BY <1>4, <2>2 DEF Existing, SyncEffect, declareVars
<1>5. CASE Delete(n)
  <2>1. UNCHANGED <<upstream, cut, alias, overlay, cache>>
    BY <1>5 DEF Delete, declareVars
  <2>2. CASE /\ node[n].todo = {} /\ UNCHANGED registry
             /\ node' = [node EXCEPT ![n].at = "upsert", ![n].todo = Planned(n)]
    <3>1. Turns(n) /\ \A o \in Nodes \ {n} : node'[o] = node[o]
      BY <1>5, <2>2, PlannedTyped, PhaseEffect DEF Delete, Turns, SamePlan
    <3> QED
      BY <2>1, <3>1 DEF SyncEffect
  <2>3. ASSUME NEW m \in node[n].todo,
               registry' = [registry EXCEPT ![m] = None],
               node' = [node EXCEPT ![n].todo = @ \ {m}]
        PROVE  SyncEffect(n) /\ \A o \in Nodes \ {n} : node'[o] = node[o]
    <3>1. m \in Names /\ m \notin Planned(n)
      BY <1>0, <1>5, <1>a DEF Delete, DeletesNoPlannedRow
    <3>2. DropsRow(n, m) /\ \A o \in Nodes \ {n} : node'[o] = node[o]
      BY <1>5, <2>3, <3>1, RestEffect DEF Delete, DropsRow, SamePlan
    <3> QED
      BY <3>1, <3>2 DEF SyncEffect
  <2> QED
    BY <1>5, <2>1, <2>2, <2>3 DEF Delete
<1>6. CASE Upsert(n)
  <2>1. UNCHANGED <<upstream, cut, alias, overlay, cache>> /\ node[n].at = "upsert"
    BY <1>6 DEF Upsert, declareVars
  <2>2. CASE node[n].todo = {} /\ node' = [node EXCEPT ![n] = Idle] /\ UNCHANGED registry
    <3>1. Pauses(n) /\ \A o \in Nodes \ {n} : node'[o] = node[o]
      BY <2>1, <2>2, IdleEffect DEF Pauses
    <3> QED
      BY <2>1, <3>1 DEF SyncEffect
  <2>3. ASSUME NEW m \in node[n].todo,
               registry' = [registry EXCEPT ![m] = Row(n, m)],
               node' = [node EXCEPT ![n].todo = @ \ {m}]
        PROVE  SyncEffect(n) /\ \A o \in Nodes \ {n} : node'[o] = node[o]
    <3>1. PutsRow(n, m) /\ \A o \in Nodes \ {n} : node'[o] = node[o]
      BY <2>1, <2>3, RestEffect DEF PutsRow, SamePlan
    <3> QED
      BY <1>a, <3>1 DEF SyncEffect
  <2> QED
    BY <1>6, <2>1, <2>2, <2>3 DEF Upsert
<1> QED
  BY <1>1, <1>2, <1>3, <1>4, <1>5, <1>6 DEF SyncStep

(* Every other step leaves the registry and the syncs alone, but for the host and a crash. *)
LEMMA OthersDo ==
  ASSUME ModelListTypeOK, [Next]_vars
  PROVE  \/ \E n \in Nodes : SyncStep(n)
         \/ \E n \in Nodes : Crash(n)
         \/ \E m \in Names : HostAdds(m)
         \/ UNCHANGED <<registry, node, cut>>
  BY ModelListAssumption
     DEF Next, LoseCache, RefreshCatalog, ReadCatalog, Resolve, Curate, vars, syncVars, declareVars

LEMMA CrashDoes ==
  ASSUME ModelListTypeOK, NEW n \in Nodes, Crash(n)
  PROVE  /\ node'[n].at = "idle" /\ \A o \in Nodes \ {n} : node'[o] = node[o]
         /\ cut' = (cut \/ n \in Syncing) /\ UNCHANGED registry
  BY IdleEffect DEF Crash

-----------------------------------------------------------------------------
(* Own entries.  Where the host does not write during a sync, what a merge found *)
(* to be the installation's own still is when its rows are written.              *)

UpsertsPlanned == \A n \in Nodes : node[n].at = "upsert" => node[n].todo \subseteq Planned(n)
OwnedIsPlanned ==
  \A n \in Nodes : Writing(n) => node[n].owned = Owned /\ Lists[node[n].src] \cap Owned = {}
OwnInv == ModelListTypeOK /\ UpsertsPlanned /\ OwnedIsPlanned

LEMMA OwnedSame ==
  ASSUME \A m \in Names : registry[m] = Own <=> registry'[m] = Own
  PROVE  Owned' = Owned
  BY DEF Owned

(* The writes of a sync leave the set of own entries as it is. *)
LEMMA SyncKeepsOwned ==
  ASSUME OwnInv, NEW n \in Nodes, SyncEffect(n)
  PROVE  Owned' = Owned
<1>0. /\ registry \in [Names -> Rows] /\ node[n] \in NodeStates
  BY TypeParts DEF OwnInv
<1>1. Own \notin Versions /\ None # Own /\ node[n].src \in Versions
  BY <1>0, ModelListAssumption DEF Own, None, Versions, NodeStates
<1>2. Writing(n) => node[n].owned = Owned /\ Lists[node[n].src] \cap Owned = {}
  BY DEF OwnInv, OwnedIsPlanned
<1>3. CASE UNCHANGED registry
  BY <1>3 DEF Owned
<1>4. CASE Replaces(n)
  <2>1. \A m \in Names : registry[m] = Own <=> registry'[m] = Own
    BY <1>1, <1>2, <1>4 DEF Replaces, Planned, Row, Owned
  <2> QED
    BY <2>1, OwnedSame
<1>5. ASSUME NEW m \in Names, DropsRow(n, m) PROVE Owned' = Owned
  <2>1. m \notin Owned
    BY <1>2, <1>5 DEF DropsRow, Writing, Planned
  <2>2. \A o \in Names : registry[o] = Own <=> registry'[o] = Own
    BY <1>0, <1>1, <1>5, <2>1 DEF DropsRow, Owned
  <2> QED
    BY <2>2, OwnedSame
<1>6. ASSUME NEW m \in Names, PutsRow(n, m) PROVE Owned' = Owned
  <2>1. m \in Planned(n) /\ Writing(n)
    BY <1>6 DEF OwnInv, UpsertsPlanned, PutsRow, Writing
  <2>2. Row(n, m) = Own <=> m \in Owned
    BY <1>1, <1>2, <2>1 DEF Row, Planned
  <2>3. \A o \in Names : registry[o] = Own <=> registry'[o] = Own
    BY <1>0, <1>6, <2>2 DEF PutsRow, Owned
  <2> QED
    BY <2>3, OwnedSame
<1> QED
  BY <1>3, <1>4, <1>5, <1>6 DEF SyncEffect, Pauses, Decides, Compares, Turns

LEMMA PlanKept ==
  ASSUME NEW n \in Nodes, node'[n].src = node[n].src, node'[n].owned = node[n].owned
  PROVE  Planned(n)' = Planned(n)
  BY DEF Planned

(* A list that is not refused names no own entry, and a merge carries all of them. *)
LEMMA MergeCarriesOwn ==
  ASSUME NEW v \in Versions, ~Refused(v)
  PROVE  {m \in Names : Merged(v)[m] = Own} = Owned /\ Lists[v] \cap Owned = {}
<1>1. Own \notin Versions /\ None # Own
  BY ModelListAssumption DEF Own, None, Versions
<1>2. Lists[v] \cap Owned = {}
  BY DEF Refused
<1> QED
  BY <1>1, <1>2 DEF Merged, Owned

LEMMA SyncKeepsOwnInv ==
  ASSUME OwnInv, NEW n \in Nodes, SyncStep(n)
  PROVE  OwnInv' /\ Owned' = Owned
<1>0. /\ SyncEffect(n) /\ \A o \in Nodes \ {n} : node'[o] = node[o]
      /\ ModelListTypeOK' /\ node[n] \in NodeStates
  BY SyncDoes, SyncTyped, TypeParts DEF OwnInv
<1>1. Owned' = Owned
  BY <1>0, SyncKeepsOwned
<1>2. \A o \in Nodes \ {n} : /\ node'[o].at = "upsert" => node'[o].todo \subseteq Planned(o)'
                             /\ Writing(o)' => /\ node'[o].owned = Owned'
                                               /\ Lists[node'[o].src] \cap Owned' = {}
  BY <1>0, <1>1 DEF OwnInv, UpsertsPlanned, OwnedIsPlanned, Writing, Planned
<1>3. node'[n].at = "upsert" => node'[n].todo \subseteq Planned(n)'
  BY <1>0, PlanKept DEF OwnInv, UpsertsPlanned, SyncEffect, Pauses, Decides, Replaces, Compares,
     DropsRow, Turns, PutsRow, SamePlan
<1>4. Writing(n)' => node'[n].owned = Owned' /\ Lists[node'[n].src] \cap Owned' = {}
  <2>1. CASE Decides(n)
    <3>1. node[n].src \in Versions
      BY <1>0 DEF NodeStates
    <3> QED
      BY <2>1, <3>1, <1>1, MergeCarriesOwn DEF Decides
  <2>2. CASE ~Decides(n)
    <3>1. Writing(n)' => Writing(n) /\ SamePlan(n)
      BY <1>0, <2>2 DEF Writing, SyncEffect, Pauses, Replaces, Compares, DropsRow, Turns, PutsRow
    <3> QED
      BY <3>1, <1>1 DEF OwnInv, OwnedIsPlanned, SamePlan
  <2> QED
    BY <2>1, <2>2
<1> QED
  BY <1>0, <1>1, <1>2, <1>3, <1>4 DEF OwnInv, UpsertsPlanned, OwnedIsPlanned

LEMMA OwnStep ==
  ASSUME ~Overlap, OwnInv, [Next]_vars
  PROVE  OwnInv' /\ \A m \in Names : registry[m] = Own => registry'[m] = Own
<1>0. ModelListTypeOK /\ ModelListTypeOK'
  BY StepTyped DEF OwnInv
<1>1. ASSUME NEW n \in Nodes, SyncStep(n)
      PROVE  OwnInv' /\ \A m \in Names : registry[m] = Own => registry'[m] = Own
  BY <1>1, SyncKeepsOwnInv DEF Owned
<1>2. ASSUME NEW n \in Nodes, Crash(n)
      PROVE  OwnInv' /\ \A m \in Names : registry[m] = Own => registry'[m] = Own
  BY <1>0, <1>2, CrashDoes DEF OwnInv, UpsertsPlanned, OwnedIsPlanned, Writing, Owned, Planned
<1>3. ASSUME NEW m \in Names, HostAdds(m)
      PROVE  OwnInv' /\ \A o \in Names : registry[o] = Own => registry'[o] = Own
  <2>1. UNCHANGED node /\ \A n \in Nodes : ~Writing(n)
    BY <1>3 DEF HostAdds, Syncing, Writing
  <2>2. \A o \in Names : registry[o] = Own => registry'[o] = Own
    BY <1>0, <1>3, TypeParts DEF HostAdds
  <2> QED
    BY <1>0, <2>1, <2>2 DEF OwnInv, UpsertsPlanned, OwnedIsPlanned, Writing, Planned
<1>4. CASE UNCHANGED <<registry, node, cut>>
  BY <1>0, <1>4 DEF OwnInv, UpsertsPlanned, OwnedIsPlanned, Writing, Owned, Planned
<1> QED
  BY <1>0, <1>1, <1>2, <1>3, <1>4, OthersDo

LEMMA OwnInit == Init => OwnInv
<1> SUFFICES ASSUME Init PROVE OwnInv
  OBVIOUS
<1>1. \A n \in Nodes : node[n].at = "idle"
  BY IdleTyped DEF Init
<1> QED
  BY <1>1, InitTyped DEF OwnInv, UpsertsPlanned, OwnedIsPlanned, Writing

(* An entry the installation stated itself is never removed and never replaced by a     *)
(* sync, however many nodes sync and wherever they die, provided the host states no     *)
(* entry while one runs: mirror writes from a copy it loaded before.                    *)
THEOREM OwnEntriesAreKept ==
  ASSUME ~Overlap
  PROVE  ModelListSpec => OwnEntriesStay
<1>1. Init => OwnInv
  BY OwnInit
<1>2. OwnInv /\ [Next]_vars => OwnInv'
  BY OwnStep
<1>3. OwnInv /\ [Next]_vars => [\A m \in Names : registry[m] = Own => registry'[m] = Own]_vars
  BY OwnStep
<1> QED
  BY <1>1, <1>2, <1>3, PTL DEF ModelListSpec, OwnEntriesStay

-----------------------------------------------------------------------------
(* No sync empties a registry: while its rows are taken out, a sync still has some to *)
(* put in.                                                                            *)

Refilling(n) == node[n].at = "delete" \/ (node[n].at = "upsert" /\ node[n].todo # {})
WritesSome == \A n \in Nodes : Writing(n) => Planned(n) # {}
EmptyIsFilled == cut \/ Stored # {} \/ \E n \in Nodes : Refilling(n)
FilledInv == ModelListTypeOK /\ WritesSome /\ EmptyIsFilled

(* What is written is some entry: a merge that would leave none is refused, or finds *)
(* none to begin with and changes nothing.                                           *)
LEMMA DecidesSome ==
  ASSUME ModelListTypeOK, NEW n \in Nodes, Decides(n)
  PROVE  Planned(n)' # {}
<1>0. node[n].src \in Versions /\ registry \in [Names -> Rows]
  BY TypeParts DEF NodeStates
<1> DEFINE v == node[n].src
<1>1. Own \notin Versions /\ None # Own /\ None \notin Versions
  BY ModelListAssumption DEF Own, None, Versions
<1>2. Planned(n)' = Lists[v] \cup Owned
  BY <1>0, MergeCarriesOwn DEF Decides, Planned
<1>3. ASSUME Lists[v] \cup Owned = {} PROVE FALSE
  <2>1. Stored = {}
    BY <1>3 DEF Decides, Refused
  <2>2. \A m \in Names : registry[m] = None
    BY <2>1 DEF Stored
  <2>3. Merged(v) = [m \in Names |-> None]
    BY <1>1, <1>3, <2>2 DEF Merged
  <2>4. registry = [m \in Names |-> None]
    BY <1>0, <2>2
  <2>5. Merged(v) # registry
    BY DEF Decides
  <2> HIDE DEF v
  <2> QED
    BY <2>3, <2>4, <2>5
<1> QED
  BY <1>2, <1>3

LEMMA SyncKeepsFilled ==
  ASSUME FilledInv, NEW n \in Nodes, SyncStep(n)
  PROVE  FilledInv'
<1>0. /\ SyncEffect(n) /\ \A o \in Nodes \ {n} : node'[o] = node[o]
      /\ ModelListTypeOK' /\ node[n] \in NodeStates /\ registry \in [Names -> Rows] /\ cut' = cut
  BY SyncDoes, SyncTyped, TypeParts DEF FilledInv
<1>1. None \notin Versions \cup {Own}
  BY ModelListAssumption DEF Own, None, Versions
<1>2. Planned(n) \subseteq Names /\ \A m \in Names : Row(n, m) # None
  <2>1. node[n].src \in Versions
    BY <1>0 DEF NodeStates
  <2> QED
    BY <1>1, <2>1, PlannedTyped DEF FilledInv, Row
<1>3. Writing(n)' => Planned(n)' # {}
  <2>1. CASE Decides(n)
    BY <2>1, DecidesSome DEF FilledInv
  <2>2. CASE ~Decides(n)
    <3>1. Writing(n)' => Writing(n) /\ SamePlan(n)
      BY <1>0, <2>2 DEF Writing, SyncEffect, Pauses, Replaces, Compares, DropsRow, Turns, PutsRow
    <3> QED
      BY <3>1, PlanKept DEF FilledInv, WritesSome, SamePlan
  <2> QED
    BY <2>1, <2>2
<1>4. WritesSome'
  BY <1>0, <1>3 DEF FilledInv, WritesSome, Writing, Planned
<1>5. Writing(n) => Planned(n) # {}
  BY DEF FilledInv, WritesSome
<1>6. EmptyIsFilled'
  <2>1. ASSUME Stored' # {} \/ Refilling(n)' PROVE EmptyIsFilled'
    BY <2>1 DEF EmptyIsFilled
  <2>2. ASSUME UNCHANGED registry, ~Refilling(n) PROVE EmptyIsFilled'
    BY <1>0, <2>2 DEF FilledInv, EmptyIsFilled, Refilling, Stored
  <2>3. CASE Pauses(n)
    <3>1. ~Refilling(n) /\ UNCHANGED registry
      BY <2>3 DEF Pauses, Refilling
    <3> QED
      BY <2>2, <3>1
  <2>4. CASE Decides(n)
    <3>1. ~Refilling(n) /\ UNCHANGED registry
      BY <2>4 DEF Decides, Refilling
    <3> QED
      BY <2>2, <3>1
  <2>5. CASE Replaces(n)
    <3>1. PICK m \in Names : m \in Planned(n)
      BY <1>2, <1>5, <2>5 DEF Replaces
    <3>2. registry'[m] # None
      BY <1>2, <2>5, <3>1 DEF Replaces
    <3> QED
      BY <2>1, <3>2 DEF Stored
  <2>6. CASE Compares(n)
    BY <2>1, <2>6 DEF Compares, Refilling
  <2>7. CASE Turns(n)
    <3>1. node'[n].todo # {} /\ node'[n].at = "upsert"
      BY <1>5, <2>7 DEF Turns, Writing
    <3> QED
      BY <2>1, <3>1 DEF Refilling
  <2>8. ASSUME NEW m \in Names, DropsRow(n, m) PROVE EmptyIsFilled'
    BY <2>1, <2>8 DEF DropsRow, Refilling
  <2>9. ASSUME NEW m \in Names, PutsRow(n, m) PROVE EmptyIsFilled'
    <3>1. registry'[m] # None
      BY <1>0, <1>2, <2>9 DEF PutsRow
    <3> QED
      BY <2>1, <3>1 DEF Stored
  <2> QED
    BY <1>0, <2>3, <2>4, <2>5, <2>6, <2>7, <2>8, <2>9 DEF SyncEffect
<1> QED
  BY <1>0, <1>4, <1>6 DEF FilledInv

LEMMA FilledStep == FilledInv /\ [Next]_vars => FilledInv'
<1> SUFFICES ASSUME FilledInv, [Next]_vars PROVE FilledInv'
  OBVIOUS
<1>0. ModelListTypeOK /\ ModelListTypeOK' /\ registry \in [Names -> Rows]
  BY StepTyped, TypeParts DEF FilledInv
<1>1. ASSUME NEW n \in Nodes, Crash(n) PROVE FilledInv'
  <2>1. /\ node'[n].at = "idle" /\ \A o \in Nodes \ {n} : node'[o] = node[o]
        /\ cut' = (cut \/ n \in Syncing) /\ UNCHANGED registry
    BY <1>0, <1>1, CrashDoes
  <2>2. WritesSome'
    BY <2>1 DEF FilledInv, WritesSome, Writing, Planned
  <2>3. Refilling(n) => n \in Syncing
    BY DEF Refilling, Syncing
  <2>4. EmptyIsFilled'
    BY <2>1, <2>3 DEF FilledInv, EmptyIsFilled, Refilling, Stored
  <2> QED
    BY <1>0, <2>2, <2>4 DEF FilledInv
<1>2. ASSUME NEW m \in Names, HostAdds(m) PROVE FilledInv'
  <2>1. UNCHANGED <<node, cut>> /\ registry'[m] # None
    BY <1>0, <1>2 DEF HostAdds, Own, None
  <2>2. Stored' # {}
    BY <2>1 DEF Stored
  <2> QED
    BY <1>0, <2>1, <2>2 DEF FilledInv, WritesSome, EmptyIsFilled, Writing, Planned
<1>3. CASE UNCHANGED <<registry, node, cut>>
  BY <1>0, <1>3 DEF FilledInv, WritesSome, EmptyIsFilled, Writing, Planned, Refilling, Stored
<1> QED
  BY <1>0, <1>1, <1>2, <1>3, OthersDo, SyncKeepsFilled

LEMMA FilledInit ==
  ASSUME Lists[Wheel] # {}, Lists[Wheel + 1] # {}, Init
  PROVE  FilledInv
<1>1. \A n \in Nodes : node[n].at = "idle"
  BY IdleTyped DEF Init
<1>2. Wheel \in Versions /\ Wheel + 1 \in Versions /\ None \notin Versions
  BY ModelListAssumption DEF Wheel, Versions, None
<1>3. PICK v \in {Wheel, Wheel + 1} : registry = [m \in Names |-> IF m \in Lists[v] THEN v ELSE None]
  BY DEF Init
<1>4. PICK m \in Lists[v] : TRUE
  BY <1>3
<1>5. m \in Names /\ registry[m] = v /\ v # None
  BY <1>2, <1>3, <1>4, ModelListAssumption
<1>6. Stored # {}
  BY <1>5 DEF Stored
<1> QED
  BY <1>1, <1>6, InitTyped DEF FilledInv, WritesSome, EmptyIsFilled, Writing

(* With entries in the wheel's list and in the one published at the start, whatever is   *)
(* published later, nodes that sync never leave the registry without an entry, unless    *)
(* one of them died between two rows.                                                    *)
THEOREM RegistryIsNeverEmptied ==
  ASSUME Lists[Wheel] # {}, Lists[Wheel + 1] # {}
  PROVE  ModelListSpec => []NeverEmptied
<1>1. Init => FilledInv
  BY FilledInit
<1>2. FilledInv => NeverEmptied
  BY DEF FilledInv, EmptyIsFilled, Refilling, NeverEmptied, Syncing
<1> QED
  BY <1>1, <1>2, FilledStep, PTL DEF ModelListSpec

-----------------------------------------------------------------------------
(* The declared alias. *)

NewerCopy == upstream > Wheel /\ \A n \in Nodes : cache[n].catalog # Wheel
FloorIsFirst ==
  \A n \in Nodes : overlay[n].at = "reading" /\ overlay[n].from = Wheel => alias[n] = None
AliasInv == ModelListTypeOK /\ NewerCopy /\ FloorIsFirst

LEMMA AliasInit == Init => AliasInv
<1> SUFFICES ASSUME Init PROVE AliasInv
  OBVIOUS
<1>1. NewerCopy
  BY DEF Init, NewerCopy, Wheel, None
<1>2. FloorIsFirst
  BY DEF Init, FloorIsFirst, Dropped
<1> QED
  BY <1>1, <1>2, InitTyped DEF AliasInv

LEMMA CopyStaysNewer ==
  ASSUME AliasInv, NEW n \in Nodes, NEW file \in {"list", "catalog"}, NEW v,
         cache' = [cache EXCEPT ![n][file] = v], v = upstream, UNCHANGED upstream
  PROVE  NewerCopy'
<1>1. cache \in [Nodes -> Copies] /\ upstream > Wheel /\ upstream \in Versions
  BY TypeParts DEF AliasInv, NewerCopy, OtherTypes
<1>2. v # Wheel /\ v \in Versions \cup {None}
  BY <1>1, ModelListAssumption DEF Wheel, Versions
<1>3. \A o \in Nodes : cache'[o].catalog # Wheel
  BY <1>1, <1>2, CopyTyped DEF AliasInv, NewerCopy
<1> QED
  BY <1>1, <1>3 DEF NewerCopy

Answers(n) == alias[n] \in Versions /\ alias'[n] # alias[n] =>
                 (alias'[n] > Wheel \/ (alias'[n] = None /\ Crash(n)))

LEMMA SteadyAnswers == ASSUME UNCHANGED alias PROVE \A n \in Nodes : Answers(n)
  BY DEF Answers

LEMMA AliasStep ==
  ASSUME AliasInv, [Next]_vars
  PROVE  AliasInv' /\ \A n \in Nodes : Answers(n)
<1>0. /\ ModelListTypeOK /\ ModelListTypeOK'
      /\ cache \in [Nodes -> Copies] /\ upstream \in Versions
      /\ alias \in [Nodes -> Versions \cup {None, Unresolved}]
      /\ overlay \in [Nodes -> [at : {"dropped", "reading", "used"}, from : Versions \cup {None}]]
  BY StepTyped, TypeParts DEF AliasInv, OtherTypes
<1>1. Declaring \subseteq Nodes /\ Wheel = 1 /\ None = 0
  BY ModelListAssumption DEF Wheel, None
<1>2. ASSUME NEW n \in Nodes, SyncStep(n) PROVE AliasInv' /\ \A o \in Nodes : Answers(o)
  <2>1. /\ UNCHANGED <<upstream, alias, overlay>>
        /\ cache' = cache \/ \E v : Fetched(n, "list", v)
    BY <1>0, <1>2, SyncDoes
  <2>2. NewerCopy'
    <3>1. CASE cache' = cache
      BY <2>1, <3>1 DEF AliasInv, NewerCopy
    <3>2. ASSUME NEW v, Fetched(n, "list", v) PROVE NewerCopy'
      BY <2>1, <3>2, CopyStaysNewer DEF Fetched
    <3> QED
      BY <2>1, <3>1, <3>2
  <2> QED
    BY <1>0, <2>1, <2>2, SteadyAnswers DEF AliasInv, FloorIsFirst
<1>3. ASSUME NEW n \in Nodes, Crash(n) PROVE AliasInv' /\ \A o \in Nodes : Answers(o)
  <2>1. /\ UNCHANGED <<upstream, cache>> /\ alias' = [alias EXCEPT ![n] = None]
        /\ overlay' = [overlay EXCEPT ![n] = Dropped]
    BY <1>3 DEF Crash
  <2>2. \A o \in Nodes \ {n} : alias'[o] = alias[o] /\ overlay'[o] = overlay[o]
    BY <1>0, <2>1
  <2>3. alias'[n] = None
    BY <1>0, <2>1
  <2>4. \A o \in Nodes : Answers(o)
    BY <1>3, <2>2, <2>3 DEF Answers
  <2> QED
    BY <1>0, <2>1, <2>2, <2>3, <2>4 DEF AliasInv, NewerCopy, FloorIsFirst
<1>4. ASSUME NEW n \in Nodes, LoseCache(n) PROVE AliasInv' /\ \A o \in Nodes : Answers(o)
  <2>1. /\ UNCHANGED <<upstream, alias, overlay>>
        /\ cache' = [cache EXCEPT ![n] = [list |-> None, catalog |-> None]]
    BY <1>4 DEF LoseCache, syncVars, declareVars
  <2> QED
    BY <1>0, <1>1, <2>1, SteadyAnswers DEF AliasInv, NewerCopy, FloorIsFirst
<1>5. ASSUME NEW n \in Nodes, RefreshCatalog(n) PROVE AliasInv' /\ \A o \in Nodes : Answers(o)
  <2>1. /\ UNCHANGED <<upstream, alias>>
        /\ overlay' = [overlay EXCEPT ![n] = IF @.at = "used" THEN Dropped ELSE @]
    BY <1>5 DEF RefreshCatalog, syncVars
  <2>2. NewerCopy'
    <3>1. PICK v : Fetched(n, "catalog", v)
      BY <1>5 DEF RefreshCatalog
    <3> QED
      BY <2>1, <3>1, CopyStaysNewer DEF Fetched
  <2>3. \A o \in Nodes : overlay'[o] = overlay[o] \/ overlay'[o] = Dropped
    BY <1>0, <2>1
  <2>4. FloorIsFirst'
    BY <2>1, <2>3 DEF AliasInv, FloorIsFirst, Dropped
  <2> QED
    BY <1>0, <2>1, <2>2, <2>4, SteadyAnswers DEF AliasInv
<1>6. ASSUME NEW n \in Nodes, ReadCatalog(n) PROVE AliasInv' /\ \A o \in Nodes : Answers(o)
  <2>1. PICK v \in Versions \cup {None} :
          /\ CatalogRead(n, v)
          /\ overlay' = [overlay EXCEPT ![n] = [at |-> "reading", from |-> v]]
    BY <1>6 DEF ReadCatalog
  <2>2. UNCHANGED <<upstream, alias>>
    BY <1>6 DEF ReadCatalog, syncVars
  <2>3. v # Wheel \/ alias[n] = None
    BY <1>1, <2>1 DEF AliasInv, NewerCopy, CatalogRead, Fetched, FellBack
  <2>4. NewerCopy'
    <3>1. CASE UNCHANGED cache
      BY <2>2, <3>1 DEF AliasInv, NewerCopy
    <3>2. CASE Fetched(n, "catalog", v)
      BY <2>2, <3>2, CopyStaysNewer DEF Fetched
    <3> QED
      BY <2>1, <3>1, <3>2 DEF CatalogRead, FellBack
  <2>5. /\ overlay'[n] = [at |-> "reading", from |-> v]
        /\ \A o \in Nodes \ {n} : overlay'[o] = overlay[o]
    BY <1>0, <2>1
  <2>6. FloorIsFirst'
    BY <2>2, <2>3, <2>5 DEF AliasInv, FloorIsFirst
  <2> QED
    BY <1>0, <2>2, <2>4, <2>6, SteadyAnswers DEF AliasInv
<1>7. ASSUME NEW n \in Nodes, Resolve(n) PROVE AliasInv' /\ \A o \in Nodes : Answers(o)
  <2>1. /\ overlay[n].at = "reading" /\ UNCHANGED <<upstream, cache>>
        /\ alias' = [alias EXCEPT ![n] = Declared(n, overlay[n].from)]
        /\ overlay' = [overlay EXCEPT ![n] = [at |-> "used", from |-> None]]
    BY <1>7 DEF Resolve, syncVars
  <2>0. overlay[n].from \in Versions \cup {None}
    BY <1>0
  <2>2. \A o \in Nodes \ {n} : alias'[o] = alias[o] /\ overlay'[o] = overlay[o]
    BY <1>0, <2>1
  <2>3. alias'[n] = Declared(n, overlay[n].from) /\ overlay'[n].at = "used"
    BY <1>0, <2>1
  <2>4. Answers(n)
    <3>1. SUFFICES ASSUME alias[n] \in Versions, alias'[n] # alias[n] PROVE alias'[n] > Wheel
      BY DEF Answers
    <3>2. alias[n] # None
      BY <1>1, <3>1, ModelListAssumption DEF Versions
    <3>3. overlay[n].from \in Carried /\ alias'[n] = overlay[n].from
      BY <2>3, <3>1, <3>2 DEF Declared
    <3>4. overlay[n].from # Wheel
      BY <2>1, <3>2 DEF AliasInv, FloorIsFirst
    <3> QED
      BY <1>1, <2>0, <3>3, <3>4, ModelListAssumption DEF Versions
  <2>5. \A o \in Nodes : Answers(o)
    BY <2>2, <2>4 DEF Answers
  <2> QED
    BY <1>0, <2>1, <2>2, <2>3, <2>5 DEF AliasInv, NewerCopy, FloorIsFirst
<1>8. CASE Curate
  <2>1. upstream' = upstream + 1 /\ UNCHANGED <<cache, alias, overlay>>
    BY <1>8 DEF Curate, declareVars
  <2> QED
    BY <1>0, <1>1, <2>1, SteadyAnswers, ModelListAssumption
    DEF AliasInv, NewerCopy, FloorIsFirst, Versions
<1>9. ASSUME NEW m \in Names, HostAdds(m) PROVE AliasInv' /\ \A o \in Nodes : Answers(o)
  BY <1>0, <1>9, SteadyAnswers DEF HostAdds, declareVars, AliasInv, NewerCopy, FloorIsFirst
<1>10. CASE UNCHANGED vars
  BY <1>0, <1>10, SteadyAnswers DEF vars, AliasInv, NewerCopy, FloorIsFirst
<1> QED
  BY <1>1, <1>2, <1>3, <1>4, <1>5, <1>6, <1>7, <1>8, <1>9, <1>10 DEF Next

(* A declared model is neither lost nor rolled back to the wheel's copy while its process *)
(* lives: the wheel's catalog answers only an alias nothing has answered before.          *)
THEOREM AliasIsHeld == ModelListSpec => AliasHolds
<1>1. AliasInv /\ [Next]_vars => AliasInv'
  BY AliasStep
<1>2. AliasInv /\ [Next]_vars =>
        [\A n \in Nodes : alias[n] \in Versions /\ alias'[n] # alias[n] =>
           (alias'[n] > Wheel \/ (alias'[n] = None /\ Crash(n)))]_vars
  BY AliasStep DEF Answers
<1> QED
  BY <1>1, <1>2, AliasInit, PTL DEF ModelListSpec, AliasHolds
=============================================================================
