----------------------------- MODULE LocsRegistry -----------------------------
(***************************************************************************)
(* packages/client/src/Loc.ts: LocsState, the registry of the user's LOCs, *)
(* and the LocRequestState objects it lists.  Both are States (see         *)
(* StateChain): a change replaces the registry, and every LOC it lists, by *)
(* new objects.  A LOC object points to the registry it was created in,    *)
(* and a client may start an operation from any object it ever received.   *)
(*                                                                         *)
(* LOCs are drafts, the only ones (with rejected and accepted requests)    *)
(* that can leave the registry; their content is a version the backend     *)
(* increments.  The two maps _locs and _verifiedIssuerLocs are one map.    *)
(***************************************************************************)
EXTENDS Naturals, FiniteSets, Sequences

CONSTANTS
  LocIds,         \* LOC identifiers
  InitialLocs,    \* those that exist when the client starts
  Callers,        \* operations in flight
  Clients,        \* how clients may use the registry
  CancelMayFail,  \* may the backend refuse the cancellation of a draft?
  MaxRegistries,  \* bound: registry objects ever constructed
  MaxVersion      \* bound: versions of a LOC

ASSUME ConstantsAssumption ==
  /\ InitialLocs \subseteq LocIds
  /\ Clients \subseteq
       [operations : SUBSET {"refresh", "refreshAll", "requestLoc", "cancel"},
        alone : SUBSET {"refreshAll", "cancel"},  \* never overlap with another one
        awaited : BOOLEAN]  \* is an operation on a LOC awaited before the next on it?
  /\ CancelMayFail \in BOOLEAN
  /\ MaxRegistries \in Nat \ {0} /\ MaxVersion \in Nat \ {0}

VARIABLES
  client,     \* the client, one of Clients
  backend,    \* version of each LOC in the backend, or Absent, or Cancelled
  registries, \* the LocsState objects, in order of construction
  objects,    \* the LocRequestState objects
  held,       \* LOC objects the client received, or that a registry listed
  latest,     \* the object it received last for each LOC
  op          \* the operation each caller has in flight

vars == <<client, backend, registries, objects, held, latest, op>>

Absent    == 0
Cancelled == MaxVersion + 1
Versions  == 1..MaxVersion
Existing  == {id \in LocIds : backend[id] \in Versions}

(* A LOC object is named after the registry it points to                   *)
(* (locSharedState.locsState) and its LOC; that registry holds at most one *)
(* copy rebound from the previous registry and one made from fresh data.   *)
Objects  == (1..MaxRegistries) \X LocIds \X {"rebound", "fresh"}
Nothing  == <<>>
Live     == <<"live">>      \* not discarded
Final    == <<"final">>     \* discarded without replacement

RegistryOf(o) == o[1]
IdOf(o)       == o[2]

Idle == [kind |-> "idle"]

(* _discarded and _nextState of a registry: 0 until it is discarded, then  *)
(* the registry that replaces it.                                          *)
Registry(locs) == [next |-> 0, locs |-> locs]

Object(version) == [next |-> Live, version |-> version]

TypeOK ==
  /\ backend \in [LocIds -> Versions \cup {Absent, Cancelled}]
  /\ \A r \in DOMAIN registries :
       /\ registries[r].next \in {0} \cup (r + 1)..Len(registries)
       /\ DOMAIN registries[r].locs \subseteq LocIds
       /\ \A id \in DOMAIN registries[r].locs :
            registries[r].locs[id] \in DOMAIN objects /\ IdOf(registries[r].locs[id]) = id
  /\ DOMAIN objects \subseteq Objects
  /\ \A o \in DOMAIN objects :
       /\ objects[o].version \in Versions
       /\ objects[o].next \in DOMAIN objects \cup {Live, Final}
       /\ RegistryOf(o) \in DOMAIN registries
  /\ held \subseteq DOMAIN objects
  /\ latest \in [LocIds -> held \cup {Nothing}]
  /\ \A c \in Callers : op[c].kind \in client.operations \cup {"idle"}

Init ==
  LET Fresh(id) == <<1, id, "fresh">> IN
  /\ client \in Clients
  /\ backend = [id \in LocIds |-> IF id \in InitialLocs THEN 1 ELSE Absent]
  /\ registries = <<Registry([id \in InitialLocs |-> Fresh(id)])>>
  /\ objects = [o \in {Fresh(id) : id \in InitialLocs} |-> Object(1)]
  /\ held = DOMAIN objects
  /\ latest = [id \in LocIds |-> IF id \in InitialLocs THEN Fresh(id) ELSE Nothing]
  /\ op = [c \in Callers |-> Idle]

-----------------------------------------------------------------------------
(* getCurrentState of a LOC object and of a registry. *)
CurrentObject[o \in DOMAIN objects] ==
  IF objects[o].next \in {Live, Final} THEN o ELSE CurrentObject[objects[o].next]

CurrentRegistry[r \in DOMAIN registries] ==
  IF registries[r].next = 0 THEN r ELSE CurrentRegistry[registries[r].next]

IsLive(o) == objects[CurrentObject[o]].next = Live

NewRegistry == Len(registries) + 1

Replace(r, locs) ==
  registries' = Append([registries EXCEPT ![r].next = NewRegistry], Registry(locs))

Listed(r) == DOMAIN registries[r].locs

(* Mutant of WithLocs: the copy is made but the original is not discarded. *)
WithLocsForgetful(o) == objects[o]

(* withLocs on an object: its current object is replaced by a copy bound   *)
(* to the new registry.                                                    *)
WithLocs(o) == [objects[o] EXCEPT !.next = <<NewRegistry, IdOf(o), "rebound">>]

(* refreshStates: withLocs on the object that registry r lists for each of *)
(* ids; fresh are the objects made from fetched data.                      *)
RefreshStates(r, ids, fresh) ==
  LET listed(id) == CurrentObject[registries[r].locs[id]]
      copy(id)   == <<NewRegistry, id, "rebound">>
      moved      == {listed(id) : id \in ids}
  IN [o \in DOMAIN objects \cup {copy(id) : id \in ids} \cup DOMAIN fresh |->
        IF o \in DOMAIN fresh THEN fresh[o]
        ELSE IF o \in moved THEN WithLocs(o)
        ELSE IF o \in DOMAIN objects THEN objects[o]
        ELSE Object(objects[listed(IdOf(o))].version)]

(* _refreshWith(loc) on registry r, for new data of LOC id: all the listed *)
(* LOCs are rebound, then the new object takes the place of its LOC.       *)
RefreshOn(r, id, version) ==
  LET new  == <<NewRegistry, id, "fresh">>
      locs == [i \in Listed(r) \cup {id} |->
                 IF i = id THEN new ELSE <<NewRegistry, i, "rebound">>]
  IN
  /\ \A i \in Listed(r) : IsLive(registries[r].locs[i])
  /\ objects' = RefreshStates(r, Listed(r), [o \in {new} |-> Object(version)])
  /\ Replace(r, locs)
  /\ held' = held \cup {locs[i] : i \in DOMAIN locs}
  /\ latest' = [latest EXCEPT ![id] = new]

(* Mutant of RefreshWith: the registry of the handle is refreshed, not the *)
(* current one.                                                            *)
RefreshWithHandle(r, id, version) == RefreshOn(r, id, version)

RefreshWith(r, id, version) == RefreshOn(CurrentRegistry[r], id, version)

(* refreshWith when a listed LOC was finalized: its withLocs throws.  The  *)
(* LOCs met before it are already rebound to a registry nobody will list.  *)
RefreshWithThrows(r) ==
  LET current == CurrentRegistry[r]
      dead    == {i \in Listed(current) : ~IsLive(registries[current].locs[i])}
  IN
  /\ dead # {}
  /\ \E before \in SUBSET (Listed(current) \ dead) :
       objects' = RefreshStates(current, before, [o \in {} |-> Object(1)])
  /\ registries' = Append(registries, Registry([i \in {} |-> Nothing]))
  /\ UNCHANGED <<held, latest>>

-----------------------------------------------------------------------------
(* The client's discipline.  An operation constructs one registry at most: *)
(* the bound is reserved when it starts.                                   *)
Running(kinds) == {c \in Callers : op[c].kind \in kinds}

MayStart(c, kind, ids) ==
  /\ op[c].kind = "idle"
  /\ kind \in client.operations
  /\ NewRegistry + Cardinality(Running(client.operations)) <= MaxRegistries
  /\ Running(client.alone) = {}
  /\ kind \in client.alone => Running(client.operations) = {}
  /\ client.awaited => \A d \in Running({"refresh", "requestLoc", "cancel"}) : op[d].id \notin ids

Begin(c, o) == op' = [op EXCEPT ![c] = o]
End(c)      == op' = [op EXCEPT ![c] = Idle]

UnchangedClient == UNCHANGED <<registries, objects, held, latest>>

(* Another actor, or an operation of this client, changes the LOC. *)
Touch(id) ==
  /\ id \in Existing
  /\ backend[id] < MaxVersion
  /\ backend' = [backend EXCEPT ![id] = @ + 1]
  /\ UNCHANGED op
  /\ UnchangedClient

(* LocRequestState.refresh, up to its first await: the current state gives *)
(* the shared state, thus the registry.                                    *)
Refresh(c, h) ==
  /\ MayStart(c, "refresh", {IdOf(h)})
  /\ IsLive(h)
  /\ Begin(c, [kind |-> "refresh", id |-> IdOf(h), version |-> Absent,
               registry |-> RegistryOf(CurrentObject[h])])
  /\ UNCHANGED backend
  /\ UnchangedClient

(* The backend answers getLocRequest; for a cancelled LOC it is an error. *)
Fetched(c) == Begin(c, [op[c] EXCEPT !.version = backend[op[c].id]])

(* Mutant of RefreshServed: the error is ignored. *)
RefreshServedAnyway(c) ==
  /\ op[c].kind = "refresh" /\ op[c].version = Absent
  /\ Fetched(c)
  /\ UNCHANGED backend /\ UnchangedClient

RefreshServed(c) ==
  /\ op[c].kind = "refresh"
  /\ op[c].version = Absent
  /\ IF op[c].id \in Existing THEN Fetched(c) ELSE End(c)
  /\ UNCHANGED backend
  /\ UnchangedClient

(* LocRequestState.refresh once all is fetched, and requestLoc once the    *)
(* backend created the request (veryNew).                                  *)
RefreshDone(c) ==
  /\ op[c].kind \in {"refresh", "requestLoc"}
  /\ op[c].version # Absent
  /\ \/ RefreshWith(op[c].registry, op[c].id, op[c].version)
     \/ RefreshWithThrows(op[c].registry)
  /\ End(c)
  /\ UNCHANGED backend

(* LocsState.requestLoc on registry r: createLocRequest is served. *)
RequestLoc(c, r, id) ==
  /\ MayStart(c, "requestLoc", {id})
  /\ backend[id] = Absent
  /\ backend' = [backend EXCEPT ![id] = 1]
  /\ Begin(c, [kind |-> "requestLoc", id |-> id, version |-> 1, registry |-> r])
  /\ UnchangedClient

(* LocsState.refresh, up to its first await. *)
RefreshAll(c, r) ==
  /\ MayStart(c, "refreshAll", LocIds)
  /\ Begin(c, [kind |-> "refreshAll", on |-> CurrentRegistry[r], served |-> FALSE,
               versions |-> Nothing, missed |-> {}])
  /\ UNCHANGED backend
  /\ UnchangedClient

(* The nodes answer fetchAll, each for the LOCs of one owner.  A node that *)
(* fails is dropped silently, and so is a LOC whose object cannot be made: *)
(* ids are the others, missed (history) those left out.                    *)
RefreshAllServed(c) ==
  /\ op[c].kind = "refreshAll"
  /\ ~op[c].served
  /\ \E ids \in SUBSET Existing :
       Begin(c, [op[c] EXCEPT !.served   = TRUE,
                              !.versions = [id \in ids |-> backend[id]],
                              !.missed   = Existing \ ids])
  /\ UNCHANGED backend
  /\ UnchangedClient

(* _refresh: the new registry lists new objects, bound to it. *)
ReplaceAll(r, fetched) ==
  LET Fresh(id) == <<NewRegistry, id, "fresh">>
      new       == {Fresh(id) : id \in DOMAIN fetched}
  IN
  /\ objects' = RefreshStates(r, {}, [o \in new |-> Object(fetched[IdOf(o)])])
  /\ Replace(r, [id \in DOMAIN fetched |-> Fresh(id)])
  /\ held' = held \cup new
  /\ latest' = [id \in LocIds |-> IF id \in DOMAIN fetched THEN Fresh(id) ELSE Nothing]

AllFetched(c) == op[c].kind = "refreshAll" /\ op[c].served

(* Mutant of RefreshAllDone: the registry is replaced, discarded or not. *)
RefreshAllDoneAnyway(c) ==
  /\ AllFetched(c)
  /\ ReplaceAll(op[c].on, op[c].versions)
  /\ End(c) /\ UNCHANGED backend

(* Mutant of RefreshAllDone: the registry replaced is the one found        *)
(* current after the await.                                                *)
RefreshAllDoneOnCurrent(c) ==
  /\ AllFetched(c)
  /\ ReplaceAll(CurrentRegistry[op[c].on], op[c].versions)
  /\ End(c) /\ UNCHANGED backend

(* discardOnSuccess of LocsState.refresh: the registry captured before the *)
(* await is discarded, which throws if another operation replaced it.      *)
RefreshAllDone(c) ==
  /\ AllFetched(c)
  /\ IF registries[op[c].on].next = 0
     THEN ReplaceAll(op[c].on, op[c].versions)
     ELSE UnchangedClient
  /\ End(c)
  /\ UNCHANGED backend

(* DraftRequest.cancel (ReviewedRequest.cancel), up to its await: the      *)
(* registry is that of the handle itself, the state to finalize is the     *)
(* current one.                                                            *)
Cancel(c, h) ==
  /\ MayStart(c, "cancel", {IdOf(h)})
  /\ IsLive(h)
  /\ Begin(c, [kind |-> "cancel", id |-> IdOf(h), on |-> CurrentObject[h],
               registry |-> RegistryOf(h), answer |-> "none"])
  /\ UNCHANGED backend
  /\ UnchangedClient

CancelServed(c) ==
  LET id == op[c].id IN
  /\ op[c].kind = "cancel"
  /\ op[c].answer = "none"
  /\ \/ /\ id \in Existing
        /\ backend' = [backend EXCEPT ![id] = Cancelled]
        /\ Begin(c, [op[c] EXCEPT !.answer = "accepted"])
     \/ /\ CancelMayFail \/ id \notin Existing
        /\ UNCHANGED backend
        /\ Begin(c, [op[c] EXCEPT !.answer = "refused"])
  /\ UnchangedClient

(* Mutant of RefreshWithout: the LOC is not removed. *)
RefreshWithoutRemoval(r, id) == UNCHANGED <<registries, latest>>

(* refreshWithout on registry r.  The LOCs that stay are listed as they    *)
(* are, not rebound.                                                       *)
RefreshWithout(r, id) ==
  LET current == CurrentRegistry[r] IN
  /\ Replace(current, [i \in Listed(current) \ {id} |-> registries[current].locs[i]])
  /\ latest' = [latest EXCEPT ![id] = Nothing]

(* finalizeOnSuccess, then refreshWithout unless something threw: the      *)
(* backend's refusal, or that of a state discarded meanwhile.              *)
CancelDone(c) ==
  /\ op[c].kind = "cancel"
  /\ op[c].answer # "none"
  /\ IF objects[op[c].on].next # Live
     THEN UnchangedClient
     ELSE /\ objects' = [objects EXCEPT ![op[c].on].next = Final]
          /\ IF op[c].answer = "accepted"
             THEN RefreshWithout(op[c].registry, op[c].id)
             ELSE UNCHANGED <<registries, latest>>
          /\ UNCHANGED held
  /\ End(c)
  /\ UNCHANGED backend

(* A client reaches a registry from the first one or from a LOC. *)
HeldRegistries == {1} \cup {RegistryOf(h) : h \in held}

Next ==
  \/ \E id \in LocIds : Touch(id)
  \/ \E c \in Callers :
       \/ \E h \in held : Refresh(c, h) \/ Cancel(c, h)
       \/ \E r \in HeldRegistries :
            RefreshAll(c, r) \/ \E id \in LocIds : RequestLoc(c, r, id)
       \/ RefreshServed(c) \/ RefreshDone(c)
       \/ RefreshAllServed(c) \/ RefreshAllDone(c)
       \/ CancelServed(c) \/ CancelDone(c)

Spec == Init /\ [][Next /\ UNCHANGED client]_vars

-----------------------------------------------------------------------------
(* The registry that every operation started from the first handle uses. *)
Root       == CurrentRegistry[1]
ListedLocs == registries[Root].locs
DataOf(id) == objects[CurrentObject[ListedLocs[id]]].version

(* Whatever operations overlap, all the LOC objects of a client lead to    *)
(* one registry: refreshWith, refresh and refreshWithout never fork it.    *)
OneRegistry ==
  \A h \in held : CurrentRegistry[RegistryOf(CurrentObject[h])] = Root

(* The object a client received last for a LOC leads to the one listed in  *)
(* the registry, though every operation on another LOC rebuilds the list.  *)
LatestHandleIsListed ==
  \A id \in LocIds : latest[id] # Nothing =>
    /\ id \in DOMAIN ListedLocs
    /\ CurrentObject[latest[id]] = ListedLocs[id]

(* Whatever overlaps, a LOC leaves the registry only if the backend has    *)
(* cancelled it, or at the end of a LocsState.refresh that did not get it  *)
(* from its node: no refresh drops a request made during its awaits.       *)
LocsAreNotForgotten ==
  [][\A id \in DOMAIN ListedLocs \ DOMAIN ListedLocs' :
       \/ backend[id] = Cancelled
       \/ \E c \in Callers : AllFetched(c) /\ op'[c] = Idle /\ id \in op[c].missed]_vars

(* A LOC listed in the registry was not finalized: refreshWith, that       *)
(* rebinds them all, does not throw for a LOC that left.                   *)
ListedLocsAreLive ==
  \A id \in DOMAIN ListedLocs : IsLive(ListedLocs[id])

(* When operations on one LOC are awaited, those on the other LOCs never   *)
(* bring older data of it back into the registry.                          *)
ListedDataGoesForward ==
  [][client.awaited =>
       \A id \in DOMAIN ListedLocs \cap DOMAIN ListedLocs' : DataOf(id) <= DataOf(id)']_vars

(* Nor do they bring back a LOC that DraftRequest.cancel removed. *)
CancelledStaysAway ==
  [][\A id \in LocIds : backend[id] = Cancelled /\ id \notin DOMAIN ListedLocs
       => id \notin DOMAIN ListedLocs']_vars

(* website/docs/client/img/loc-state.puml:28: "RejectedRequest -->         *)
(* CancelledRequest: cancel()", an end state.  Once cancel is processed,   *)
(* the LOC the backend cancelled is no longer in the registry.             *)
CancelLeavesRegistry ==
  [][\A c \in Callers :
       op[c].kind = "cancel" /\ op'[c] = Idle /\ backend[op[c].id] = Cancelled
       => op[c].id \notin DOMAIN ListedLocs']_vars
=============================================================================
