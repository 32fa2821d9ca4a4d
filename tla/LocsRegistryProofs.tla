-------------------------- MODULE LocsRegistryProofs --------------------------
(***************************************************************************)
(* Theorems about LocsRegistry, for all sets of LOCs, operations in flight *)
(* and clients that observe a discipline, all of them named below.         *)
(*                                                                         *)
(* The registries form one line, so that all of them lead to the last one; *)
(* an object leads to one of a later registry, for the same LOC; what the  *)
(* last registry lists is live.  getCurrentState is a recursive function:  *)
(* that its equation has a solution, and what the solution does, is shown  *)
(* by taking the least distance, in registries, to the last one at which a *)
(* claim would fail.                                                       *)
(***************************************************************************)
EXTENDS LocsRegistry, SequenceTheorems, WellFoundedInduction, TLAPS

(* The clients that the theorems are about: whoever cancels a request does *)
(* nothing else meanwhile, and the backend accepts the cancellation.       *)
Disciplined ==
  /\ CancelMayFail = FALSE
  /\ \A cl \in Clients : "cancel" \in cl.operations => "cancel" \in cl.alone

(* Among those who await the operations on a LOC, those who refresh the    *)
(* whole registry do nothing else meanwhile either.                        *)
Patient ==
  \A cl \in Clients : cl.awaited /\ "refreshAll" \in cl.operations => "refreshAll" \in cl.alone

Last    == Len(registries)
Listing == registries[Last].locs

Ends     == {Live, Final}
Handles  == Nat \X LocIds \X {"rebound", "fresh"}
Fetches  == UNION {[ids -> Versions] : ids \in SUBSET LocIds}
Answers  == {"none", "accepted", "refused"}

FullRefreshes ==
  [kind : {"refreshAll"}, on : Nat, served : BOOLEAN, versions : Fetches \cup {Nothing}, missed : SUBSET LocIds]

Operations ==
  {Idle}
    \cup [kind : {"refresh", "requestLoc"}, id : LocIds, version : Versions \cup {Absent}, registry : Nat]
    \cup FullRefreshes
    \cup [kind : {"cancel"}, id : LocIds, on : Handles, registry : Nat, answer : Answers]

(* The registries form one line, in the order of their construction. *)
Chained ==
  /\ registries \in Seq([next : Nat, locs : UNION {[ids -> Handles] : ids \in SUBSET LocIds}])
  /\ Last > 0
  /\ \A r \in 1..Last : registries[r].next = IF r = Last THEN 0 ELSE r + 1

(* A LOC object leads to one of a later registry, for the same LOC. *)
Linked(objs, last) ==
  /\ objs \in [DOMAIN objs -> [next : Ends \cup Handles, version : Versions]]
  /\ \A o \in DOMAIN objs :
       /\ o \in Handles /\ RegistryOf(o) \in 1..last
       /\ objs[o].next \notin Ends =>
            /\ objs[o].next \in DOMAIN objs
            /\ RegistryOf(objs[o].next) > RegistryOf(o)
            /\ IdOf(objs[o].next) = IdOf(o)

(* The registry lists live objects, each for its LOC. *)
ListsLive ==
  \A id \in DOMAIN Listing :
    /\ Listing[id] \in DOMAIN objects
    /\ IdOf(Listing[id]) = id
    /\ objects[Listing[id]].next = Live

(* What the client holds; what it received last is what is listed. *)
Tracked ==
  /\ held \subseteq DOMAIN objects
  /\ latest \in [LocIds -> held \cup {Nothing}]
  /\ \A id \in LocIds : latest[id] # Nothing =>
       id \in DOMAIN Listing /\ CurrentObject[latest[id]] = Listing[id]

Shape == Chained /\ Linked(objects, Last) /\ ListsLive /\ Tracked

(* The backend has what the client has, and never older; a listed LOC that *)
(* is cancelled is about to be removed.                                    *)
Accepted(id) == \E c \in Callers : op[c].kind = "cancel" /\ op[c].id = id /\ op[c].answer = "accepted"

Backed ==
  /\ backend \in [LocIds -> Versions \cup {Absent, Cancelled}]
  /\ \A o \in DOMAIN objects : objects[o].version <= backend[IdOf(o)]
  /\ \A id \in DOMAIN Listing : backend[id] \in Versions \/ Accepted(id)

RefreshFacts(o) ==
  /\ o.registry \in 1..Last
  /\ o.version # Absent => backend[o.id] \in o.version..MaxVersion

RefreshAllFacts(o) ==
  /\ o.on \in 1..Last
  /\ o.served =>
       /\ o.versions \in Fetches
       /\ \A id \in DOMAIN o.versions : backend[id] \in o.versions[id]..MaxVersion
       /\ o.on = Last => DOMAIN Listing \subseteq DOMAIN o.versions \cup o.missed

CancelFacts(o) ==
  /\ o.registry \in 1..Last
  /\ o.on \in DOMAIN objects /\ IdOf(o.on) = o.id /\ objects[o.on].next = Live
  /\ o.answer # "none" => backend[o.id] = Cancelled
  /\ o.answer = "refused" => o.id \notin DOMAIN Listing

(* What an operation captured is still true when it goes on. *)
Pending ==
  /\ client \in Clients
  /\ op \in [Callers -> Operations]
  /\ \A c \in Callers : op[c].kind \in client.operations \cup {"idle"}
  /\ \A c \in Callers : op[c].kind \in {"refresh", "requestLoc"} => RefreshFacts(op[c])
  /\ \A c \in Callers : op[c].kind = "refreshAll" => RefreshAllFacts(op[c])
  /\ \A c \in Callers : op[c].kind = "cancel" => CancelFacts(op[c])
  /\ \A c, d \in Callers : op[c].kind = "cancel" /\ d # c => op[d] = Idle

RInv == Shape /\ Backed /\ Pending

(* For those who await: the operations in flight are about different LOCs, *)
(* and what each fetched is not older than what is listed.                 *)
Apart ==
  \A c, d \in Callers : c # d =>
    /\ op[c].kind \in {"refresh", "requestLoc"} /\ op[d].kind \in {"refresh", "requestLoc"} =>
         op[c].id # op[d].id
    /\ op[c].kind = "refreshAll" => op[d] = Idle

Newer ==
  \A c \in Callers :
    /\ op[c].kind \in {"refresh", "requestLoc"} /\ op[c].version # Absent /\ op[c].id \in DOMAIN Listing =>
         objects[Listing[op[c].id]].version <= op[c].version
    /\ op[c].kind = "refreshAll" /\ op[c].served =>
         \A id \in DOMAIN Listing \cap DOMAIN op[c].versions :
           objects[Listing[id]].version <= op[c].versions[id]

AwaitInv == client.awaited => Apart /\ Newer

-----------------------------------------------------------------------------
(* A nonempty set of naturals has a least element. *)
LEMMA LeastNat ==
  ASSUME NEW S, S \subseteq Nat, S # {}
  PROVE  \E x \in S : \A y \in S : x <= y
<1> DEFINE Less == OpToRel(<, Nat)
<1>1. PICK x \in S : \A y \in S : <<y, x>> \notin Less
  <2>1. IsWellFoundedOn(Less, Nat)
    BY NatLessThanWellFounded
  <2> HIDE DEF Less
  <2> QED BY <2>1, WFMin
<1>2. \A y \in S : ~ (y < x)
  BY <1>1 DEF OpToRel
<1> QED BY <1>2

(* The solution of the equation that CurrentObject is defined by. *)
Solves(objs, f) ==
  f = [o \in DOMAIN objs |-> IF objs[o].next \in Ends THEN o ELSE f[objs[o].next]]

(* It is solved for the objects of the last k registries, whatever k. *)
SolvedFrom(objs, last, k, f) ==
  \A o \in DOMAIN objs : RegistryOf(o) + k > last =>
    f[o] = IF objs[o].next \in Ends THEN o ELSE f[objs[o].next]

LEMMA Solvable ==
  ASSUME NEW objs, NEW last \in Nat, Linked(objs, last)
  PROVE  \E f : Solves(objs, f)
<1> DEFINE Unsolved == {k \in Nat : ~ \E f : SolvedFrom(objs, last, k, f)}
<1>0. \A o \in DOMAIN objs : RegistryOf(o) \in 1..last
  BY DEF Linked
<1>1. Unsolved = {}
  <2> SUFFICES ASSUME Unsolved # {} PROVE FALSE
    OBVIOUS
  <2>1. PICK k \in Unsolved : \A j \in Unsolved : k <= j
    <3>1. Unsolved \subseteq Nat
      OBVIOUS
    <3> HIDE DEF Unsolved
    <3> QED BY <3>1, LeastNat
  <2>2. k # 0
    BY <1>0, <2>1 DEF SolvedFrom
  <2>3. k - 1 \in Nat /\ k \in Nat /\ k - 1 \notin Unsolved
    BY <2>1, <2>2
  <2>4. PICK f : SolvedFrom(objs, last, k - 1, f)
    BY <2>3
  <2> DEFINE g == [o \in DOMAIN objs |-> IF objs[o].next \in Ends THEN o ELSE f[objs[o].next]]
  <2>5. ASSUME NEW o \in DOMAIN objs, RegistryOf(o) + k > last
        PROVE  g[o] = IF objs[o].next \in Ends THEN o ELSE g[objs[o].next]
    <3>1. CASE objs[o].next \in Ends
      BY <3>1
    <3>2. CASE objs[o].next \notin Ends
      <4> DEFINE p == objs[o].next
      <4>1. p \in DOMAIN objs /\ RegistryOf(p) > RegistryOf(o)
        BY <3>2 DEF Linked
      <4>2. RegistryOf(p) + (k - 1) > last
        BY <1>0, <2>3, <2>5, <4>1
      <4>3. f[p] = IF objs[p].next \in Ends THEN p ELSE f[objs[p].next]
        BY <2>4, <4>1, <4>2 DEF SolvedFrom
      <4>4. g[o] = f[p] /\ g[p] = f[p]
        BY <3>2, <4>1, <4>3
      <4> QED BY <3>2, <4>4
    <3> QED BY <3>1, <3>2
  <2>6. SolvedFrom(objs, last, k, g)
    BY <2>5 DEF SolvedFrom
  <2> QED BY <2>1, <2>6
<1>2. last + 1 \notin Unsolved /\ last + 1 \in Nat
  BY <1>1
<1>3. PICK f : SolvedFrom(objs, last, last + 1, f)
  BY <1>2
<1> DEFINE g == [o \in DOMAIN objs |-> f[o]]
<1>4. \A o \in DOMAIN objs : f[o] = IF objs[o].next \in Ends THEN o ELSE f[objs[o].next]
  BY <1>0, <1>3 DEF SolvedFrom
<1>5. \A o \in DOMAIN objs : g[o] = IF objs[o].next \in Ends THEN o ELSE g[objs[o].next]
  BY <1>4 DEF Linked
<1>6. g = [o \in DOMAIN objs |-> IF objs[o].next \in Ends THEN o ELSE g[objs[o].next]]
  BY <1>5
<1> HIDE DEF g
<1> QED BY <1>6 DEF Solves

(* An object leads to a final or to a live one, for the same LOC. *)
LEMMA Lands ==
  ASSUME NEW objs, NEW last \in Nat, Linked(objs, last), NEW f, Solves(objs, f)
  PROVE  \A o \in DOMAIN objs : f[o] \in DOMAIN objs /\ objs[f[o]].next \in Ends /\ IdOf(f[o]) = IdOf(o)
<1> DEFINE Good(o) == f[o] \in DOMAIN objs /\ objs[f[o]].next \in Ends /\ IdOf(f[o]) = IdOf(o)
           Far == {last - RegistryOf(o) : o \in {x \in DOMAIN objs : ~Good(x)}}
<1>0. \A o \in DOMAIN objs : RegistryOf(o) \in 1..last
  BY DEF Linked
<1>1. Far \subseteq Nat
  BY <1>0
<1> SUFFICES ASSUME Far # {} PROVE FALSE
  OBVIOUS
<1>2. PICK k \in Far : \A j \in Far : k <= j
  <2> HIDE DEF Far
  <2> QED BY <1>1, LeastNat
<1>3. PICK o \in DOMAIN objs : ~Good(o) /\ k = last - RegistryOf(o)
  BY <1>2
<1>4. f[o] = IF objs[o].next \in Ends THEN o ELSE f[objs[o].next]
  BY DEF Solves
<1>5. objs[o].next \notin Ends
  BY <1>3, <1>4
<1>6. objs[o].next \in DOMAIN objs /\ RegistryOf(objs[o].next) > RegistryOf(o) /\ IdOf(objs[o].next) = IdOf(o)
  BY <1>5 DEF Linked
<1>7. last - RegistryOf(objs[o].next) < k /\ ~(k <= last - RegistryOf(objs[o].next))
  BY <1>0, <1>3, <1>6
<1>8. last - RegistryOf(objs[o].next) \notin Far
  BY <1>2, <1>7
<1>9. Good(objs[o].next)
  BY <1>6, <1>8
<1> QED BY <1>3, <1>4, <1>5, <1>6, <1>9

(* When what an object led to is replaced, it leads where that leads. *)
LEMMA Extends ==
  ASSUME NEW objs, NEW last \in Nat, Linked(objs, last), NEW f, Solves(objs, f),
         NEW new, NEW g, Solves(new, g), DOMAIN objs \subseteq DOMAIN new,
         \A o \in DOMAIN objs : objs[o].next \notin Ends => new[o].next = objs[o].next
  PROVE  \A o \in DOMAIN objs : g[o] = g[f[o]]
<1> DEFINE Good(o) == g[o] = g[f[o]]
           Far == {last - RegistryOf(o) : o \in {x \in DOMAIN objs : ~Good(x)}}
<1>0. \A o \in DOMAIN objs : RegistryOf(o) \in 1..last
  BY DEF Linked
<1>1. Far \subseteq Nat
  BY <1>0
<1> SUFFICES ASSUME Far # {} PROVE FALSE
  OBVIOUS
<1>2. PICK k \in Far : \A j \in Far : k <= j
  <2> HIDE DEF Far
  <2> QED BY <1>1, LeastNat
<1>3. PICK o \in DOMAIN objs : ~Good(o) /\ k = last - RegistryOf(o)
  BY <1>2
<1>4. f[o] = IF objs[o].next \in Ends THEN o ELSE f[objs[o].next]
  BY DEF Solves
<1>5. objs[o].next \notin Ends
  BY <1>3, <1>4
<1>6. objs[o].next \in DOMAIN objs /\ RegistryOf(objs[o].next) > RegistryOf(o)
  BY <1>5 DEF Linked
<1>7. last - RegistryOf(objs[o].next) < k /\ ~(k <= last - RegistryOf(objs[o].next))
  BY <1>0, <1>3, <1>6
<1>8. last - RegistryOf(objs[o].next) \notin Far
  BY <1>2, <1>7
<1>9. Good(objs[o].next)
  BY <1>6, <1>8
<1>10. g[o] = g[objs[o].next]
  <2>1. g[o] = IF new[o].next \in Ends THEN o ELSE g[new[o].next]
    BY DEF Solves
  <2> QED BY <1>5, <2>1
<1> QED BY <1>3, <1>4, <1>5, <1>9, <1>10

(* So CurrentObject is what its equation says, now and after a step. *)
LEMMA CurrentIs ==
  ASSUME NEW last \in Nat, Linked(objects, last)
  PROVE  Solves(objects, CurrentObject)
<1>1. \E f : f = [o \in DOMAIN objects |-> IF objects[o].next \in Ends THEN o ELSE f[objects[o].next]]
  BY Solvable DEF Solves
<1> QED BY <1>1 DEF CurrentObject, Solves, Ends

LEMMA CurrentIsNext ==
  ASSUME NEW last \in Nat, Linked(objects', last)
  PROVE  Solves(objects', CurrentObject')
<1>1. \E f : f = [o \in DOMAIN objects' |-> IF objects'[o].next \in Ends THEN o ELSE f[objects'[o].next]]
  BY Solvable DEF Solves
<1> QED BY <1>1 DEF CurrentObject, Solves, Ends

-----------------------------------------------------------------------------
(* All registries lead to the last one. *)
ChainOf(regs) ==
  /\ regs \in Seq([next : Nat, locs : UNION {[ids -> Handles] : ids \in SUBSET LocIds}])
  /\ Len(regs) > 0
  /\ \A r \in 1..Len(regs) : regs[r].next = IF r = Len(regs) THEN 0 ELSE r + 1

LEMMA LineEnds ==
  ASSUME NEW regs, ChainOf(regs), NEW f,
         f = [r \in DOMAIN regs |-> IF regs[r].next = 0 THEN r ELSE f[regs[r].next]]
  PROVE  \A r \in 1..Len(regs) : f[r] = Len(regs)
<1> DEFINE last == Len(regs)
           Far == {last - r : r \in {x \in 1..last : f[x] # last}}
<1>0. last \in Nat /\ DOMAIN regs = 1..last
  BY DEF ChainOf
<1> HIDE DEF last
<1>1. Far \subseteq Nat
  BY <1>0
<1> SUFFICES ASSUME Far # {} PROVE FALSE
  BY DEF last
<1>2. PICK k \in Far : \A j \in Far : k <= j
  <2> HIDE DEF Far
  <2> QED BY <1>1, LeastNat
<1>3. PICK r \in 1..last : f[r] # last /\ k = last - r
  BY <1>2
<1>4. f[r] = IF regs[r].next = 0 THEN r ELSE f[regs[r].next]
  BY <1>0
<1>5. regs[r].next = IF r = last THEN 0 ELSE r + 1
  BY DEF ChainOf, last
<1>6. r # last /\ r + 1 \in 1..last /\ f[r] = f[r + 1]
  BY <1>0, <1>3, <1>4, <1>5
<1>7. last - (r + 1) < k /\ ~(k <= last - (r + 1))
  BY <1>0, <1>3
<1>8. last - (r + 1) \notin Far
  BY <1>2, <1>7
<1> QED BY <1>3, <1>6, <1>8

LEMMA LineSolvable ==
  ASSUME NEW regs, ChainOf(regs)
  PROVE  \E f : f = [r \in DOMAIN regs |-> IF regs[r].next = 0 THEN r ELSE f[regs[r].next]]
<1> DEFINE last == Len(regs)
           f == [r \in DOMAIN regs |-> last]
<1>1. last \in Nat /\ DOMAIN regs = 1..last
  BY DEF ChainOf
<1>2. ASSUME NEW r \in DOMAIN regs
      PROVE  f[r] = IF regs[r].next = 0 THEN r ELSE f[regs[r].next]
  <2>1. regs[r].next = IF r = last THEN 0 ELSE r + 1
    BY <1>1 DEF ChainOf
  <2>2. r # last => r + 1 \in DOMAIN regs /\ r + 1 # 0
    BY <1>1
  <2> QED BY <2>1, <2>2
<1>3. f = [r \in DOMAIN regs |-> IF regs[r].next = 0 THEN r ELSE f[regs[r].next]]
  BY <1>2
<1> HIDE DEF f
<1> QED BY <1>3

LEMMA RootIs ==
  ASSUME Chained
  PROVE  /\ Last \in Nat \ {0} /\ DOMAIN registries = 1..Last
         /\ \A r \in 1..Last : CurrentRegistry[r] = Last
         /\ Root = Last /\ ListedLocs = Listing
<1>1. ChainOf(registries)
  BY DEF Chained, ChainOf, Last
<1>2. CurrentRegistry = [r \in DOMAIN registries |->
        IF registries[r].next = 0 THEN r ELSE CurrentRegistry[registries[r].next]]
  BY <1>1, LineSolvable DEF CurrentRegistry
<1>3. \A r \in 1..Last : CurrentRegistry[r] = Last
  BY <1>1, <1>2, LineEnds DEF Last
<1>4. Last \in Nat \ {0} /\ DOMAIN registries = 1..Last
  BY DEF Chained, Last
<1> QED BY <1>3, <1>4 DEF Root, ListedLocs, Listing

LEMMA RootIsNext ==
  ASSUME Chained'
  PROVE  Root' = Last' /\ ListedLocs' = Listing'
<1>1. ChainOf(registries')
  BY DEF Chained, ChainOf, Last
<1>2. CurrentRegistry' = [r \in DOMAIN registries' |->
        IF registries'[r].next = 0 THEN r ELSE CurrentRegistry'[registries'[r].next]]
  BY <1>1, LineSolvable DEF CurrentRegistry
<1>3. \A r \in 1..Len(registries') : CurrentRegistry'[r] = Len(registries')
  BY <1>1, <1>2, LineEnds
<1>4. Len(registries') \in Nat \ {0}
  BY <1>1 DEF ChainOf
<1> QED BY <1>3, <1>4 DEF Root, ListedLocs, Listing, Last

-----------------------------------------------------------------------------
(* What is live is where it leads. *)
LEMMA LiveStays ==
  ASSUME Shape
  PROVE  /\ \A o \in DOMAIN objects : objects[o].next \in Ends => CurrentObject[o] = o
         /\ \A id \in DOMAIN Listing : CurrentObject[Listing[id]] = Listing[id]
         /\ DOMAIN Listing \subseteq LocIds
<1>1. Last \in Nat /\ Linked(objects, Last)
  BY RootIs DEF Shape
<1>2. Solves(objects, CurrentObject)
  BY <1>1, CurrentIs
<1>3. \A o \in DOMAIN objects : objects[o].next \in Ends => CurrentObject[o] = o
  BY <1>2 DEF Solves
<1>4. DOMAIN Listing \subseteq LocIds
  <2> DEFINE Lists == UNION {[ids -> Handles] : ids \in SUBSET LocIds}
  <2>1. Last \in 1..Len(registries) /\ registries \in Seq([next : Nat, locs : Lists])
    BY RootIs DEF Shape, Chained, Last
  <2>2. \A l \in Lists : DOMAIN l \subseteq LocIds
    OBVIOUS
  <2> HIDE DEF Lists
  <2>3. registries[Last] \in [next : Nat, locs : Lists]
    BY <2>1, ElementOfSeq
  <2> QED BY <2>2, <2>3 DEF Listing
<1> QED BY <1>3, <1>4 DEF Shape, ListsLive, Ends

(* The client's objects stay as they are: so does all that is said of them. *)
LEMMA QuietShape ==
  ASSUME Shape, UnchangedClient
  PROVE  Shape' /\ Listing' = Listing /\ Last' = Last
<1>1. registries' = registries /\ objects' = objects /\ held' = held /\ latest' = latest
  BY DEF UnchangedClient
<1>2. Last' = Last /\ Listing' = Listing /\ CurrentObject' = CurrentObject
  BY <1>1 DEF Last, Listing, CurrentObject
<1>3. Chained' /\ ListsLive' /\ Tracked'
  BY <1>1, <1>2 DEF Shape, Chained, ListsLive, Tracked
<1>4. Linked(objects, Last)'
  BY <1>1, <1>2 DEF Shape, Linked
<1> QED BY <1>2, <1>3, <1>4 DEF Shape

(* What the backend knows of a LOC, unless it cancels it: it gets newer. *)
BackendMoves ==
  /\ backend' \in [LocIds -> Versions \cup {Absent, Cancelled}]
  /\ \A id \in LocIds :
       \/ backend'[id] = backend[id]
       \/ /\ backend[id] \in Versions \cup {Absent}
          /\ backend'[id] \in Versions /\ backend'[id] >= backend[id]

Facts(o) ==
  /\ o.kind \in {"refresh", "requestLoc"} => RefreshFacts(o)
  /\ o.kind = "refreshAll" => RefreshAllFacts(o)
  /\ o.kind = "cancel" => CancelFacts(o)

(* Operations that move, without any effect on the client's objects. *)
LEMMA QuietStep ==
  ASSUME RInv, UnchangedClient, UNCHANGED client, BackendMoves, op' \in [Callers -> Operations],
         NEW C \in SUBSET Callers,
         \A d \in Callers \ C : op'[d] = op[d],
         \A c \in C : /\ op[c].kind # "cancel"
                      /\ op'[c].kind \in client.operations \cup {"idle"}
                      /\ Facts(op[c])'
                      /\ \A d \in Callers \ {c} : /\ op'[c].kind = "cancel" => op[d] = Idle /\ d \notin C
                                                  /\ op[d].kind = "cancel" => op'[c] = Idle
  PROVE  RInv'
<1>1. Shape' /\ Listing' = Listing /\ Last' = Last /\ objects' = objects /\ client' = client
  BY QuietShape DEF RInv, UnchangedClient
<1>m. Linked(objects, Last) /\ Last \in Nat /\ DOMAIN Listing \subseteq LocIds /\ MaxVersion \in Nat
  BY RootIs, LiveStays, ConstantsAssumption DEF RInv, Shape
<1>t. \A o \in DOMAIN objects : IdOf(o) \in LocIds /\ objects[o].version \in Versions
  BY <1>m DEF Linked, Handles, IdOf
<1>2. \A id \in LocIds : Accepted(id) => Accepted(id)'
  BY DEF Accepted
<1>3. Backed'
  <2>1. backend' \in [LocIds -> Versions \cup {Absent, Cancelled}]
    BY DEF BackendMoves
  <2>2. \A o \in DOMAIN objects : objects[o].version <= backend'[IdOf(o)]
    BY <1>m, <1>t DEF BackendMoves, RInv, Backed, Versions, Absent, Cancelled
  <2>3. \A id \in DOMAIN Listing : backend'[id] \in Versions \/ Accepted(id)'
    BY <1>m, <1>2 DEF BackendMoves, RInv, Backed
  <2> QED BY <1>1, <2>1, <2>2, <2>3 DEF Backed
<1>4. ASSUME NEW c \in Callers
      PROVE  op'[c].kind \in client.operations \cup {"idle"} /\ Facts(op[c])'
  <2>1. CASE c \in C
    BY <2>1
  <2>2. CASE c \notin C
    <3>1. op'[c] = op[c]
      BY <2>2
    <3>2. op[c] \in Operations
      BY DEF RInv, Pending
    <3>3. op[c].kind \in {"refresh", "requestLoc"} => RefreshFacts(op[c])'
      <4> SUFFICES ASSUME op[c].kind \in {"refresh", "requestLoc"} PROVE RefreshFacts(op[c])'
        OBVIOUS
      <4>1. RefreshFacts(op[c]) /\ op[c].id \in LocIds /\ op[c].version \in Versions \cup {Absent}
        BY <3>2 DEF RInv, Pending, Operations, FullRefreshes, Idle
      <4> QED BY <1>1, <1>m, <3>1, <4>1 DEF RefreshFacts, BackendMoves, Versions, Absent
    <3>4. op[c].kind = "refreshAll" => RefreshAllFacts(op[c])'
      <4> SUFFICES ASSUME op[c].kind = "refreshAll" PROVE RefreshAllFacts(op[c])'
        OBVIOUS
      <4>1. RefreshAllFacts(op[c])
        BY DEF RInv, Pending
      <4>2. op[c].served => \A id \in DOMAIN op[c].versions :
              /\ id \in LocIds /\ op[c].versions[id] \in Versions
              /\ backend'[id] \in op[c].versions[id]..MaxVersion
        BY <1>m, <4>1 DEF RefreshAllFacts, BackendMoves, Versions, Absent, Fetches
      <4> QED BY <1>1, <3>1, <4>1, <4>2 DEF RefreshAllFacts
    <3>5. op[c].kind = "cancel" => CancelFacts(op[c])'
      <4> SUFFICES ASSUME op[c].kind = "cancel" PROVE CancelFacts(op[c])'
        OBVIOUS
      <4>1. CancelFacts(op[c]) /\ op[c].id \in LocIds
        BY <3>2 DEF RInv, Pending, Operations, FullRefreshes, Idle
      <4>2. Cancelled \notin Versions \cup {Absent}
        BY <1>m DEF Cancelled, Versions, Absent
      <4> QED BY <1>1, <3>1, <4>1, <4>2 DEF CancelFacts, BackendMoves
    <3> QED BY <3>1, <3>3, <3>4, <3>5 DEF RInv, Pending, Facts
  <2> QED BY <2>1, <2>2
<1>5. ASSUME NEW c \in Callers, NEW d \in Callers, op'[c].kind = "cancel", d # c PROVE op'[d] = Idle
  BY <1>5 DEF RInv, Pending
<1>6. Pending'
  BY <1>1, <1>4, <1>5 DEF Pending, Facts, RInv
<1> QED BY <1>1, <1>3, <1>6 DEF RInv

-----------------------------------------------------------------------------
(* An operation starts while no cancellation is in flight, and cancel      *)
(* starts alone.                                                           *)
LEMMA Starting ==
  ASSUME RInv, Disciplined, NEW c \in Callers, NEW kind, NEW ids, MayStart(c, kind, ids)
  PROVE  /\ op[c].kind = "idle" /\ kind \in client.operations
         /\ \A d \in Callers : op[d].kind # "cancel"
         /\ kind = "cancel" => \A d \in Callers : op[d] = Idle
<1>1. /\ client \in Clients /\ \A d \in Callers : op[d].kind \in client.operations \cup {"idle"}
      /\ \A d \in Callers : op[d] \in Operations
  BY DEF RInv, Pending
<1>2. op[c].kind = "idle" /\ kind \in client.operations
  BY DEF MayStart
<1>3. \A d \in Callers : op[d].kind # "cancel"
  BY <1>1 DEF MayStart, Running, Disciplined
<1>4. kind = "cancel" => \A d \in Callers : op[d].kind = "idle"
  BY <1>1, <1>2 DEF MayStart, Running, Disciplined
<1>5. \A d \in Callers : op[d].kind = "idle" => op[d] = Idle
  BY <1>1 DEF Operations, FullRefreshes, Idle
<1> QED BY <1>2, <1>3, <1>4, <1>5

(* The moves of one operation that leave the client's objects alone. *)
LEMMA OneMoves ==
  ASSUME RInv, UnchangedClient, UNCHANGED client, BackendMoves,
         NEW c \in Callers, NEW o \in Operations, Begin(c, o), op[c].kind # "cancel",
         o.kind \in client.operations \cup {"idle"}, Facts(op[c])',
         o.kind = "cancel" => \A d \in Callers : op[d] = Idle,
         \A d \in Callers \ {c} : op[d].kind = "cancel" => o = Idle
  PROVE  RInv'
<1>1. op \in [Callers -> Operations]
  BY DEF RInv, Pending
<1>2. op' \in [Callers -> Operations] /\ op'[c] = o /\ \A d \in Callers \ {c} : op'[d] = op[d]
  BY <1>1 DEF Begin
<1>3. {c} \in SUBSET Callers /\ \A d \in Callers \ {c} : op'[d] = op[d]
  BY <1>2
<1>4. \A x \in {c} : /\ op[x].kind # "cancel"
                    /\ op'[x].kind \in client.operations \cup {"idle"}
                    /\ Facts(op[x])'
                    /\ \A d \in Callers \ {x} : /\ op'[x].kind = "cancel" => op[d] = Idle /\ d \notin {c}
                                                /\ op[d].kind = "cancel" => op'[x] = Idle
  BY <1>2
<1> QED BY <1>2, <1>3, <1>4, QuietStep

LEMMA BackendStays == RInv /\ UNCHANGED backend => BackendMoves
  BY DEF RInv, Backed, BackendMoves

LEMMA TouchStep ==
  ASSUME RInv, UNCHANGED client, NEW id \in LocIds, Touch(id)
  PROVE  RInv'
<1>1. MaxVersion \in Nat
  BY ConstantsAssumption
<1>2. backend \in [LocIds -> Versions \cup {Absent, Cancelled}] /\ op \in [Callers -> Operations]
  BY DEF RInv, Backed, Pending
<1>3. BackendMoves
  BY <1>1, <1>2 DEF Touch, Existing, BackendMoves, Versions, Absent, Cancelled
<1>4. op' = op /\ UnchangedClient
  BY DEF Touch
<1>5. {} \in SUBSET Callers /\ op' \in [Callers -> Operations] /\ \A d \in Callers \ {} : op'[d] = op[d]
  BY <1>2, <1>4
<1> QED BY <1>3, <1>4, <1>5, QuietStep

LEMMA RefreshStep ==
  ASSUME RInv, Disciplined, UNCHANGED client, NEW c \in Callers, NEW h \in held, Refresh(c, h)
  PROVE  RInv'
<1> DEFINE r == RegistryOf(CurrentObject[h])
           o == [kind |-> "refresh", id |-> IdOf(h), version |-> Absent, registry |-> r]
<1>1. Linked(objects, Last) /\ Last \in Nat /\ h \in DOMAIN objects
  BY RootIs DEF RInv, Shape, Tracked
<1>2. CurrentObject[h] \in DOMAIN objects
  BY <1>1, CurrentIs, Lands
<1>3. r \in 1..Last /\ IdOf(h) \in LocIds /\ r \in Nat
  BY <1>1, <1>2 DEF Linked, Handles, IdOf
<1>4. o \in Operations /\ o.kind = "refresh" /\ o.version = Absent /\ o.registry = r
  <2> HIDE DEF r
  <2> QED BY <1>3 DEF Operations
<1>5. Begin(c, o) /\ UnchangedClient /\ UNCHANGED backend
  BY DEF Refresh
<1>6. op[c].kind = "idle" /\ "refresh" \in client.operations /\ \A d \in Callers : op[d].kind # "cancel"
  BY Starting DEF Refresh
<1>7. op'[c] = o /\ Last' = Last
  BY <1>5, QuietShape DEF Begin, RInv, Pending
<1> HIDE DEF o, r
<1>8. Facts(op[c])'
  BY <1>3, <1>4, <1>7 DEF Facts, RefreshFacts
<1>9. BackendMoves
  BY <1>5, BackendStays
<1> QED BY <1>4, <1>5, <1>6, <1>8, <1>9, OneMoves

LEMMA RefreshServedStep ==
  ASSUME RInv, UNCHANGED client, NEW c \in Callers, RefreshServed(c)
  PROVE  RInv'
<1>1. op[c].kind = "refresh" /\ UNCHANGED backend /\ UnchangedClient
  BY DEF RefreshServed
<1>2. op \in [Callers -> Operations] /\ op[c] \in Operations /\ RefreshFacts(op[c])
  BY <1>1 DEF RInv, Pending
<1>3. op[c] \in [kind : {"refresh", "requestLoc"}, id : LocIds, version : Versions \cup {Absent}, registry : Nat]
  BY <1>1, <1>2 DEF Operations, FullRefreshes, Idle
<1>4. BackendMoves /\ Last' = Last
  BY <1>1, BackendStays, QuietShape DEF RInv
<1>5. \A d \in Callers : op[d].kind # "cancel"
  BY <1>1, <1>2 DEF RInv, Pending, Idle
<1>6. op[c].kind \in client.operations
  BY <1>1 DEF RInv, Pending
<1>7. CASE op[c].id \in Existing
  <2> DEFINE o == [op[c] EXCEPT !.version = backend[op[c].id]]
  <2>1. backend[op[c].id] \in Versions /\ MaxVersion \in Nat
    BY <1>7, ConstantsAssumption DEF Existing
  <2>2. /\ o \in [kind : {"refresh", "requestLoc"}, id : LocIds, version : Versions \cup {Absent}, registry : Nat]
        /\ o.kind = "refresh" /\ o.id = op[c].id /\ o.version = backend[op[c].id] /\ o.registry = op[c].registry
    BY <1>1, <1>3, <2>1
  <2>3. Begin(c, o)
    BY <1>7 DEF RefreshServed, Fetched
  <2> HIDE DEF o
  <2>4. op'[c] = o
    BY <1>2, <2>3 DEF Begin
  <2>5. Facts(op[c])'
    BY <1>1, <1>2, <1>4, <2>1, <2>2, <2>4 DEF Facts, RefreshFacts, Versions
  <2>6. o \in Operations
    BY <2>2 DEF Operations
  <2> QED BY <1>1, <1>4, <1>5, <1>6, <2>2, <2>3, <2>5, <2>6, OneMoves
<1>8. CASE op[c].id \notin Existing
  <2>1. Begin(c, Idle) /\ op'[c] = Idle
    BY <1>2, <1>8 DEF RefreshServed, End, Begin
  <2>2. Facts(op[c])'
    BY <2>1 DEF Facts, Idle
  <2>3. Idle \in Operations /\ Idle.kind = "idle"
    BY DEF Operations, Idle
  <2> QED BY <1>1, <1>4, <1>5, <2>1, <2>2, <2>3, OneMoves
<1> QED BY <1>7, <1>8

LEMMA RequestLocStep ==
  ASSUME RInv, Disciplined, UNCHANGED client, NEW c \in Callers, NEW r \in 1..Last, NEW id \in LocIds, RequestLoc(c, r, id)
  PROVE  RInv'
<1> DEFINE o == [kind |-> "requestLoc", id |-> id, version |-> 1, registry |-> r]
<1>1. MaxVersion \in Nat /\ MaxVersion > 0 /\ Last \in Nat /\ 1 \in Versions
  BY ConstantsAssumption, RootIs DEF RInv, Shape, Versions
<1>2. Begin(c, o) /\ UnchangedClient /\ backend[id] = Absent /\ backend' = [backend EXCEPT ![id] = 1]
  BY DEF RequestLoc
<1>3. o \in Operations
  BY <1>1 DEF Operations
<1>4. op[c].kind = "idle" /\ "requestLoc" \in client.operations /\ \A d \in Callers : op[d].kind # "cancel"
  BY Starting DEF RequestLoc
<1>5. op'[c] = o /\ Last' = Last /\ backend'[id] = 1 /\ BackendMoves
  BY <1>1, <1>2, QuietShape DEF Begin, RInv, Pending, Backed, BackendMoves, Absent, Versions
<1>6. Facts(op[c])'
  BY <1>1, <1>5 DEF Facts, RefreshFacts
<1> QED BY <1>2, <1>3, <1>4, <1>5, <1>6, OneMoves

LEMMA RefreshAllStep ==
  ASSUME RInv, Disciplined, UNCHANGED client, NEW c \in Callers, NEW r \in 1..Last, RefreshAll(c, r)
  PROVE  RInv'
<1> DEFINE o == [kind |-> "refreshAll", on |-> CurrentRegistry[r], served |-> FALSE, versions |-> Nothing, missed |-> {}]
<1>1. Last \in Nat /\ CurrentRegistry[r] = Last /\ Last \in 1..Last
  BY RootIs DEF RInv, Shape
<1>2. Begin(c, o) /\ UnchangedClient /\ UNCHANGED backend
  BY DEF RefreshAll
<1>3. o \in Operations
  BY <1>1 DEF Operations, FullRefreshes
<1>4. op[c].kind = "idle" /\ "refreshAll" \in client.operations /\ \A d \in Callers : op[d].kind # "cancel"
  BY Starting DEF RefreshAll
<1>5. op'[c] = o /\ Last' = Last /\ BackendMoves
  BY <1>2, QuietShape, BackendStays DEF Begin, RInv, Pending
<1>6. Facts(op[c])'
  BY <1>1, <1>5 DEF Facts, RefreshAllFacts
<1> QED BY <1>2, <1>3, <1>4, <1>5, <1>6, OneMoves

LEMMA RefreshAllServedStep ==
  ASSUME RInv, UNCHANGED client, NEW c \in Callers, RefreshAllServed(c)
  PROVE  RInv'
<1> PICK ids \in SUBSET Existing :
      Begin(c, [op[c] EXCEPT !.served = TRUE, !.versions = [id \in ids |-> backend[id]], !.missed = Existing \ ids])
  BY DEF RefreshAllServed
<1> DEFINE versions == [id \in ids |-> backend[id]]
           o == [op[c] EXCEPT !.served = TRUE, !.versions = versions, !.missed = Existing \ ids]
<1>1. op[c].kind = "refreshAll" /\ UNCHANGED backend /\ UnchangedClient /\ Begin(c, o)
  BY DEF RefreshAllServed
<1>2. op \in [Callers -> Operations] /\ op[c] \in Operations /\ RefreshAllFacts(op[c])
  BY <1>1 DEF RInv, Pending
<1>3. op[c] \in FullRefreshes
  BY <1>1, <1>2 DEF Operations, Idle
<1>4. BackendMoves /\ Last' = Last /\ Listing' = Listing
  BY <1>1, BackendStays, QuietShape DEF RInv
<1>5. \A d \in Callers : op[d].kind # "cancel"
  BY <1>1, <1>2 DEF RInv, Pending, Idle
<1>6. op[c].kind \in client.operations
  BY <1>1 DEF RInv, Pending
<1>7. versions \in Fetches /\ DOMAIN versions = ids /\ \A id \in ids : versions[id] = backend[id]
  <2>1. ids \subseteq LocIds /\ versions \in [ids -> Versions]
    BY DEF Existing
  <2> QED BY <2>1 DEF Fetches
<1>m. Existing \ ids \in SUBSET LocIds
  BY DEF Existing
<1> HIDE DEF versions
<1>8. /\ o \in FullRefreshes
      /\ o.kind = "refreshAll" /\ o.on = op[c].on /\ o.versions = versions /\ o.missed = Existing \ ids
  BY <1>1, <1>3, <1>7, <1>m DEF FullRefreshes
<1> HIDE DEF o
<1>9. op'[c] = o /\ o \in Operations
  BY <1>1, <1>2, <1>8 DEF Begin, Operations
<1>10. \A id \in DOMAIN Listing : id \in ids \cup (Existing \ ids)
  BY <1>5, LiveStays DEF RInv, Backed, Accepted, Existing
<1>11. MaxVersion \in Nat /\ \A id \in ids : backend[id] \in versions[id]..MaxVersion
  BY <1>7, ConstantsAssumption DEF Existing, Versions
<1>12. Facts(op[c])'
  BY <1>1, <1>2, <1>4, <1>7, <1>8, <1>9, <1>10, <1>11 DEF Facts, RefreshAllFacts
<1> QED BY <1>1, <1>4, <1>5, <1>6, <1>8, <1>9, <1>12, OneMoves

LEMMA RefreshAllLateStep ==
  ASSUME RInv, UNCHANGED client, NEW c \in Callers, op[c].kind = "refreshAll", UnchangedClient, End(c), UNCHANGED backend
  PROVE  RInv'
<1>1. op \in [Callers -> Operations] /\ Idle \in Operations /\ Idle.kind = "idle"
  BY DEF RInv, Pending, Operations, Idle
<1>2. Begin(c, Idle) /\ op'[c] = Idle
  BY <1>1 DEF End, Begin
<1>3. Facts(op[c])'
  BY <1>2 DEF Facts, Idle
<1> QED BY <1>1, <1>2, <1>3, BackendStays, OneMoves

LEMMA CancelStep ==
  ASSUME RInv, Disciplined, UNCHANGED client, NEW c \in Callers, NEW h \in held, Cancel(c, h)
  PROVE  RInv'
<1> DEFINE on == CurrentObject[h]
           o == [kind |-> "cancel", id |-> IdOf(h), on |-> on, registry |-> RegistryOf(h), answer |-> "none"]
<1>1. Linked(objects, Last) /\ Last \in Nat /\ h \in DOMAIN objects
  BY RootIs DEF RInv, Shape, Tracked
<1>2. on \in DOMAIN objects /\ IdOf(on) = IdOf(h)
  BY <1>1, CurrentIs, Lands
<1>3. RegistryOf(h) \in 1..Last /\ IdOf(h) \in LocIds /\ RegistryOf(h) \in Nat /\ on \in Handles
  BY <1>1, <1>2 DEF Linked, Handles, IdOf
<1>4. Begin(c, o) /\ UnchangedClient /\ UNCHANGED backend /\ objects[on].next = Live
  BY DEF Cancel, IsLive
<1> HIDE DEF on
<1>5. o \in Operations
  BY <1>3 DEF Operations, Answers
<1>6. /\ op[c].kind = "idle" /\ "cancel" \in client.operations /\ \A d \in Callers : op[d].kind # "cancel"
      /\ \A d \in Callers : op[d] = Idle
  BY Starting DEF Cancel
<1>7. op'[c] = o /\ Last' = Last /\ objects' = objects
  BY <1>4, QuietShape DEF Begin, RInv, Pending, UnchangedClient
<1>8. Facts(op[c])'
  BY <1>2, <1>3, <1>4, <1>7 DEF Facts, CancelFacts
<1> QED BY <1>4, <1>5, <1>6, <1>8, BackendStays, OneMoves

(* The backend cancels the request; it refuses only if it did before. *)
LEMMA CancelServedStep ==
  ASSUME RInv, Disciplined, UNCHANGED client, NEW c \in Callers, CancelServed(c)
  PROVE  RInv'
<1>0. PICK id : id = op[c].id
  OBVIOUS
<1> DEFINE answer == IF id \in Existing THEN "accepted" ELSE "refused"
           o == [op[c] EXCEPT !.answer = answer]
<1>1. op[c].kind = "cancel" /\ op[c].answer = "none" /\ UnchangedClient
  BY DEF CancelServed
<1>2. op \in [Callers -> Operations] /\ op[c] \in Operations /\ CancelFacts(op[c])
  BY <1>1 DEF RInv, Pending
<1>3. op[c] \in [kind : {"cancel"}, id : LocIds, on : Handles, registry : Nat, answer : Answers]
  BY <1>1, <1>2 DEF Operations, FullRefreshes, Idle
<1>4. Shape' /\ Listing' = Listing /\ Last' = Last /\ objects' = objects
  BY <1>1, QuietShape DEF RInv, UnchangedClient
<1>5. /\ MaxVersion \in Nat /\ Cancelled \notin Versions \cup {Absent} /\ id \in LocIds
      /\ Absent \notin Versions /\ \A v \in Versions : v >= 1 /\ v <= Cancelled
  BY <1>0, <1>3, ConstantsAssumption DEF Cancelled, Versions, Absent
<1>6. backend \in [LocIds -> Versions \cup {Absent, Cancelled}]
  BY DEF RInv, Backed
<1>7. backend[id] # Absent
  <2>1. objects[op[c].on].version <= backend[id] /\ objects[op[c].on].version \in Versions
    BY <1>0, <1>2 DEF RInv, Backed, CancelFacts, Shape, Linked
  <2> QED BY <1>5, <2>1 DEF Absent, Versions
<1>8. Begin(c, o) /\ backend' = [backend EXCEPT ![id] = Cancelled]
  <2>1. CASE id \in Existing
    BY <1>0, <1>6, <2>1 DEF CancelServed, Disciplined
  <2>2. CASE id \notin Existing
    <3>1. backend[id] = Cancelled
      BY <1>5, <1>6, <1>7, <2>2 DEF Existing
    <3> QED BY <1>0, <1>6, <2>2, <3>1 DEF CancelServed
  <2> QED BY <2>1, <2>2
<1>9. /\ o \in [kind : {"cancel"}, id : LocIds, on : Handles, registry : Nat, answer : Answers]
      /\ o.kind = "cancel" /\ o.id = id /\ o.on = op[c].on /\ o.registry = op[c].registry /\ o.answer = answer
  BY <1>0, <1>1, <1>3 DEF Answers
<1> HIDE DEF o
<1>10. op'[c] = o /\ o \in Operations /\ op' \in [Callers -> Operations] /\ \A d \in Callers \ {c} : op'[d] = op[d]
  BY <1>2, <1>8, <1>9 DEF Begin, Operations
<1>11. /\ \A d \in Callers \ {c} : op[d] = Idle
       /\ client' \in Clients /\ \A d \in Callers : op[d].kind \in client'.operations \cup {"idle"}
  BY <1>1 DEF RInv, Pending
<1>12. id \notin Existing => id \notin DOMAIN Listing
  <2>1. \A x \in LocIds : ~Accepted(x)
    BY <1>1, <1>11 DEF Accepted, Idle
  <2> QED BY <1>5, <2>1 DEF RInv, Backed, Existing
<1>13. backend' \in [LocIds -> Versions \cup {Absent, Cancelled}] /\ backend'[id] = Cancelled
       /\ \A x \in LocIds \ {id} : backend'[x] = backend[x]
  BY <1>5, <1>6, <1>8
<1>14. Backed'
  <2>1. \A x \in DOMAIN objects : objects[x].version <= backend'[IdOf(x)]
    <3>1. \A x \in DOMAIN objects : IdOf(x) \in LocIds /\ objects[x].version \in Versions
      BY DEF RInv, Shape, Linked, Handles, IdOf
    <3> QED BY <1>5, <1>13, <3>1 DEF RInv, Backed
  <2>2. \A x \in LocIds : Accepted(x) => Accepted(x)'
    BY <1>1, <1>9, <1>10, <1>11 DEF Accepted, Idle
  <2>3. id \in Existing => Accepted(id)'
    BY <1>9, <1>10 DEF Accepted
  <2>4. \A x \in DOMAIN Listing : backend'[x] \in Versions \/ Accepted(x)'
    <3>1. \A x \in DOMAIN Listing : x \in LocIds /\ (backend[x] \in Versions \/ Accepted(x))
      BY LiveStays DEF RInv, Backed
    <3> QED BY <1>12, <1>13, <2>2, <2>3, <3>1
  <2> QED BY <1>4, <1>13, <2>1, <2>4 DEF Backed
<1>15. CancelFacts(op[c])'
  BY <1>0, <1>2, <1>4, <1>9, <1>10, <1>12, <1>13 DEF CancelFacts
<1>16. Pending'
  BY <1>1, <1>9, <1>10, <1>11, <1>15 DEF Pending, Idle
<1> QED BY <1>4, <1>14, <1>16 DEF RInv

-----------------------------------------------------------------------------
(* A registry replaces the last one. *)
LEMMA Replaced ==
  ASSUME Chained, NEW ids \in SUBSET LocIds, NEW locs \in [ids -> Handles], Replace(Last, locs)
  PROVE  Chained' /\ Last' = Last + 1 /\ Listing' = locs
<1> DEFINE Lists == UNION {[s -> Handles] : s \in SUBSET LocIds}
           Registries == [next : Nat, locs : Lists]
           before == [registries EXCEPT ![Last].next = NewRegistry]
<1>1. Last \in Nat \ {0} /\ Last = Len(registries) /\ registries \in Seq(Registries)
  BY RootIs DEF Chained, Last
<1>2. locs \in Lists
  OBVIOUS
<1> HIDE DEF Lists
<1>3. NewRegistry = Last + 1 /\ NewRegistry \in Nat
  BY <1>1 DEF NewRegistry
<1>4. registries \in [1..Last -> Registries]
  BY <1>1, LenProperties
<1>5. before \in [1..Last -> Registries] /\ Registry(locs) \in Registries
  <2>1. registries[Last] \in Registries
    BY <1>1, <1>4
  <2>2. [registries[Last] EXCEPT !.next = NewRegistry] \in Registries
    BY <1>3, <2>1
  <2>3. Registry(locs) \in Registries
    BY <1>2 DEF Registry
  <2> QED BY <1>1, <1>4, <2>2, <2>3
<1>6. before \in Seq(Registries) /\ Len(before) = Last
  BY <1>1, <1>5
<1>7. \A r \in 1..Last : before[r].next = r + 1
  BY <1>1, <1>3, <1>4 DEF Chained
<1> HIDE DEF before, Registries
<1>8. registries' = Append(before, Registry(locs))
  BY DEF Replace, before
<1>9. /\ registries' \in Seq(Registries) /\ Len(registries') = Last + 1
      /\ registries'[Last + 1] = Registry(locs) /\ \A r \in 1..Last : registries'[r] = before[r]
  BY <1>1, <1>5, <1>6, <1>8, AppendProperties
<1>10. \A r \in 1..(Last + 1) : registries'[r].next = IF r = Last + 1 THEN 0 ELSE r + 1
  BY <1>1, <1>7, <1>9 DEF Registry
<1>11. Last' = Last + 1
  BY <1>9 DEF Last
<1>12. Listing' = locs
  BY <1>9, <1>11 DEF Listing, Registry
<1>13. Chained'
  BY <1>1, <1>9, <1>10, <1>11 DEF Chained, Registries, Lists
<1> QED BY <1>11, <1>12, <1>13

(* The objects of a registry to come are not there yet. *)
LEMMA ToCome ==
  ASSUME Shape
  PROVE  /\ Last \in Nat /\ NewRegistry = Last + 1
         /\ \A id, made : <<NewRegistry, id, made>> \notin DOMAIN objects
         /\ \A id, made : <<NewRegistry, id, made>> \notin Ends
         /\ \A id, made : RegistryOf(<<NewRegistry, id, made>>) = Last + 1 /\ IdOf(<<NewRegistry, id, made>>) = id
         /\ \A id \in LocIds : <<NewRegistry, id, "rebound">> \in Handles /\ <<NewRegistry, id, "fresh">> \in Handles
         /\ \A i, j : <<NewRegistry, i, "rebound">> # <<NewRegistry, j, "fresh">>
         /\ Live \in Ends /\ Final \in Ends /\ Nothing \notin DOMAIN objects
<1>1. Last \in Nat /\ NewRegistry = Last + 1 /\ Linked(objects, Last)
  BY RootIs DEF Shape, NewRegistry, Last
<1>2. \A id, made : RegistryOf(<<NewRegistry, id, made>>) = Last + 1 /\ IdOf(<<NewRegistry, id, made>>) = id
  BY <1>1 DEF RegistryOf, IdOf
<1>3. \A id, made : <<NewRegistry, id, made>> \notin DOMAIN objects
  BY <1>1, <1>2 DEF Linked
<1>4. \A id, made : <<NewRegistry, id, made>> \notin Ends
  BY DEF Ends, Live, Final
<1>5. \A id \in LocIds : <<NewRegistry, id, "rebound">> \in Handles /\ <<NewRegistry, id, "fresh">> \in Handles
  BY <1>1 DEF Handles
<1>6. \A i, j : <<NewRegistry, i, "rebound">> # <<NewRegistry, j, "fresh">>
  OBVIOUS
<1>7. Nothing \notin DOMAIN objects
  BY <1>1 DEF Linked, Handles, Nothing
<1> QED BY <1>1, <1>2, <1>3, <1>4, <1>5, <1>6, <1>7 DEF Ends

(* _refreshWith: what is listed is rebound, and the new object listed. *)
LEMMA Refreshed ==
  ASSUME Shape, NEW id \in LocIds, NEW version \in Versions, RefreshOn(Last, id, version)
  PROVE  LET new == <<NewRegistry, id, "fresh">>
             copy(i) == <<NewRegistry, i, "rebound">> IN
         /\ DOMAIN objects' = DOMAIN objects \cup {copy(i) : i \in DOMAIN Listing} \cup {new}
         /\ objects' = [o \in DOMAIN objects' |-> objects'[o]]
         /\ \A i \in DOMAIN Listing :
              /\ objects'[Listing[i]] = [next |-> copy(i), version |-> objects[Listing[i]].version]
              /\ objects'[copy(i)] = Object(objects[Listing[i]].version)
         /\ objects'[new] = Object(version)
         /\ \A o \in DOMAIN objects : o \notin {Listing[i] : i \in DOMAIN Listing} => objects'[o] = objects[o]
<1> DEFINE new == <<NewRegistry, id, "fresh">>
           copy(i) == <<NewRegistry, i, "rebound">>
           fresh == [o \in {new} |-> Object(version)]
           moved == {Listing[i] : i \in DOMAIN Listing}
<1>1. /\ Listed(Last) = DOMAIN Listing /\ registries[Last].locs = Listing
      /\ \A i \in DOMAIN Listing : CurrentObject[Listing[i]] = Listing[i] /\ Listing[i] \in DOMAIN objects /\ IdOf(Listing[i]) = i
  BY LiveStays DEF Listed, Listing, Shape, ListsLive
<1>2. objects' = RefreshStates(Last, Listed(Last), fresh)
  BY DEF RefreshOn
<1>3. {CurrentObject[registries[Last].locs[i]] : i \in Listed(Last)} = moved
  BY <1>1
<1>4. objects' = [o \in DOMAIN objects \cup {copy(i) : i \in DOMAIN Listing} \cup {new} |->
                    IF o \in {new} THEN fresh[o]
                    ELSE IF o \in moved THEN WithLocs(o)
                    ELSE IF o \in DOMAIN objects THEN objects[o]
                    ELSE Object(objects[CurrentObject[Listing[IdOf(o)]]].version)]
  BY <1>1, <1>2, <1>3 DEF RefreshStates
<1>5. /\ \A i : copy(i) \notin DOMAIN objects /\ copy(i) # new /\ IdOf(copy(i)) = i
      /\ new \notin DOMAIN objects
  BY ToCome
<1>6. moved \subseteq DOMAIN objects
  BY <1>1
<1> HIDE DEF new, copy, moved
<1>7. DOMAIN objects' = DOMAIN objects \cup {copy(i) : i \in DOMAIN Listing} \cup {new}
      /\ objects' = [o \in DOMAIN objects' |-> objects'[o]]
  BY <1>4
<1>8. objects'[new] = Object(version)
  BY <1>4
<1>9. \A o \in DOMAIN objects : o \notin moved => objects'[o] = objects[o]
  BY <1>4, <1>5
<1>10. \A o \in moved : objects'[o] = WithLocs(o)
  BY <1>4, <1>5, <1>6
<1>11. \A i \in DOMAIN Listing : objects'[copy(i)] = Object(objects[Listing[i]].version)
  BY <1>1, <1>4, <1>5, <1>6
<1>12. \A i \in DOMAIN Listing : objects'[Listing[i]] = [next |-> copy(i), version |-> objects[Listing[i]].version]
  <2> SUFFICES ASSUME NEW i \in DOMAIN Listing
               PROVE  objects'[Listing[i]] = [next |-> copy(i), version |-> objects[Listing[i]].version]
    OBVIOUS
  <2>1. objects'[Listing[i]] = [objects[Listing[i]] EXCEPT !.next = copy(i)]
    BY <1>1, <1>10 DEF moved, WithLocs, copy
  <2>2. objects[Listing[i]] \in [next : Ends \cup Handles, version : Versions]
    BY <1>1 DEF Shape, Linked
  <2> QED BY <2>1, <2>2
<1> QED BY <1>7, <1>8, <1>9, <1>11, <1>12 DEF new, copy, moved

LEMMA RefreshShape ==
  ASSUME Shape, NEW id \in LocIds, NEW version \in Versions, RefreshOn(Last, id, version)
  PROVE  /\ Shape' /\ Last' = Last + 1 /\ DOMAIN Listing' = DOMAIN Listing \cup {id}
         /\ objects'[Listing'[id]].version = version
         /\ \A i \in DOMAIN Listing \ {id} : objects'[Listing'[i]].version = objects[Listing[i]].version
         /\ \A o \in DOMAIN objects' :
              \/ o \in DOMAIN objects /\ objects'[o].version = objects[o].version
              \/ IdOf(o) = id /\ objects'[o].version = version
              \/ \E i \in DOMAIN Listing : IdOf(o) = i /\ IdOf(Listing[i]) = i /\ Listing[i] \in DOMAIN objects
                                           /\ objects'[o].version = objects[Listing[i]].version
<1> DEFINE new == <<NewRegistry, id, "fresh">>
           copy(i) == <<NewRegistry, i, "rebound">>
           moved == {Listing[i] : i \in DOMAIN Listing}
           locs == [i \in DOMAIN Listing \cup {id} |-> IF i = id THEN new ELSE copy(i)]
<1>c. /\ Last \in Nat /\ NewRegistry = Last + 1 /\ Live \in Ends
      /\ \A i : copy(i) \notin DOMAIN objects /\ copy(i) \notin Ends /\ RegistryOf(copy(i)) = Last + 1 /\ IdOf(copy(i)) = i
      /\ new \notin DOMAIN objects /\ new \notin Ends /\ RegistryOf(new) = Last + 1 /\ IdOf(new) = id
      /\ \A i \in LocIds : copy(i) \in Handles /\ new \in Handles
      /\ \A i : copy(i) # new
  BY ToCome
<1>l. /\ DOMAIN Listing \subseteq LocIds
      /\ \A i \in DOMAIN Listing : /\ Listing[i] \in DOMAIN objects /\ IdOf(Listing[i]) = i /\ objects[Listing[i]].next = Live
                                   /\ CurrentObject[Listing[i]] = Listing[i]
  BY LiveStays DEF Shape, ListsLive
<1>o. /\ DOMAIN objects' = DOMAIN objects \cup {copy(i) : i \in DOMAIN Listing} \cup {new}
      /\ objects' = [o \in DOMAIN objects' |-> objects'[o]]
      /\ \A i \in DOMAIN Listing :
           /\ objects'[Listing[i]] = [next |-> copy(i), version |-> objects[Listing[i]].version]
           /\ objects'[copy(i)] = Object(objects[Listing[i]].version)
      /\ objects'[new] = Object(version)
      /\ \A o \in DOMAIN objects : o \notin moved => objects'[o] = objects[o]
  BY Refreshed
<1>k. /\ objects \in [DOMAIN objects -> [next : Ends \cup Handles, version : Versions]]
      /\ \A o \in DOMAIN objects :
           /\ o \in Handles /\ RegistryOf(o) \in 1..Last
           /\ objects[o].next \notin Ends =>
                /\ objects[o].next \in DOMAIN objects
                /\ RegistryOf(objects[o].next) > RegistryOf(o)
                /\ IdOf(objects[o].next) = IdOf(o)
  BY DEF Shape, Linked
<1>t. /\ Tracked /\ held' = held \cup {locs[i] : i \in DOMAIN locs} /\ latest' = [latest EXCEPT ![id] = new]
      /\ Replace(Last, locs)
  <2>1. Listed(Last) = DOMAIN Listing
    BY DEF Listed, Listing
  <2> QED BY <2>1 DEF RefreshOn, Shape
<1> HIDE DEF new, copy, moved
<1>v. ASSUME NEW i \in DOMAIN Listing
      PROVE  /\ objects[Listing[i]].version \in Versions
             /\ copy(i) \in DOMAIN objects' /\ Listing[i] \in DOMAIN objects'
             /\ objects'[copy(i)].next = Live /\ objects'[copy(i)].version = objects[Listing[i]].version
             /\ objects'[copy(i)] \in [next : Ends \cup Handles, version : Versions]
             /\ objects'[Listing[i]].next = copy(i) /\ objects'[Listing[i]].version = objects[Listing[i]].version
  <2>1. objects[Listing[i]].version \in Versions
    BY <1>l, <1>k
  <2>2. objects'[copy(i)] = [next |-> Live, version |-> objects[Listing[i]].version]
    BY <1>o DEF Object
  <2>3. objects'[Listing[i]] = [next |-> copy(i), version |-> objects[Listing[i]].version]
    BY <1>o
  <2>4. copy(i) \in DOMAIN objects' /\ Listing[i] \in DOMAIN objects'
    BY <1>l, <1>o
  <2> QED BY <1>c, <2>1, <2>2, <2>3, <2>4
<1>w. objects'[new].next = Live /\ objects'[new].version = version /\ new \in DOMAIN objects'
  BY <1>o DEF Object
<1>1. locs \in [DOMAIN Listing \cup {id} -> Handles]
  BY <1>c, <1>l
<1>2. Chained' /\ Last' = Last + 1 /\ Listing' = locs
  BY <1>1, <1>l, <1>t, Replaced DEF Shape
<1>3. /\ DOMAIN Listing' = DOMAIN Listing \cup {id} /\ Listing'[id] = new
      /\ \A i \in DOMAIN Listing \ {id} : Listing'[i] = copy(i)
  BY <1>2
<1> HIDE DEF locs
<1>4. Linked(objects', Last')
  <2>1. ASSUME NEW o \in DOMAIN objects'
        PROVE  /\ objects'[o] \in [next : Ends \cup Handles, version : Versions]
               /\ o \in Handles /\ RegistryOf(o) \in 1..(Last + 1)
               /\ objects'[o].next \notin Ends =>
                    /\ objects'[o].next \in DOMAIN objects'
                    /\ RegistryOf(objects'[o].next) > RegistryOf(o)
                    /\ IdOf(objects'[o].next) = IdOf(o)
    <3>1. CASE o = new
      BY <1>c, <1>o, <3>1 DEF Object
    <3>2. ASSUME NEW i \in DOMAIN Listing, o = copy(i)
          PROVE  /\ objects'[o] \in [next : Ends \cup Handles, version : Versions]
                 /\ o \in Handles /\ RegistryOf(o) \in 1..(Last + 1)
                 /\ objects'[o].next \in Ends
      <4>1. i \in LocIds
        BY <1>l
      <4> QED BY <1>c, <1>v, <3>2, <4>1
    <3>3. ASSUME NEW i \in DOMAIN Listing, o = Listing[i]
          PROVE  /\ objects'[o] \in [next : Ends \cup Handles, version : Versions]
                 /\ o \in Handles /\ RegistryOf(o) \in 1..(Last + 1)
                 /\ objects'[o].next \in DOMAIN objects'
                 /\ RegistryOf(objects'[o].next) > RegistryOf(o)
                 /\ IdOf(objects'[o].next) = IdOf(o)
      <4>1. objects[Listing[i]].version \in Versions /\ RegistryOf(o) \in 1..Last /\ o \in Handles
        BY <1>l, <1>k, <3>3
      <4>2. objects'[o].next = copy(i) /\ objects'[o].version = objects[Listing[i]].version
            /\ objects'[o] = [next |-> copy(i), version |-> objects[Listing[i]].version]
        BY <1>o, <3>3
      <4>3. copy(i) \in DOMAIN objects' /\ copy(i) \in Handles /\ RegistryOf(copy(i)) > RegistryOf(o) /\ IdOf(copy(i)) = IdOf(o)
        BY <1>c, <1>o, <1>l, <3>3, <4>1
      <4> QED BY <1>c, <4>1, <4>2, <4>3
    <3>4. CASE o \in DOMAIN objects /\ o \notin moved
      <4>1. objects'[o] = objects[o] /\ DOMAIN objects \subseteq DOMAIN objects'
        BY <1>o, <3>4
      <4>2. RegistryOf(o) \in 1..(Last + 1)
        BY <1>c, <1>k, <3>4
      <4> QED BY <1>k, <3>4, <4>1, <4>2
    <3> QED BY <1>o, <3>1, <3>2, <3>3, <3>4 DEF moved
  <2>2. objects' \in [DOMAIN objects' -> [next : Ends \cup Handles, version : Versions]]
    BY <1>o, <2>1
  <2> QED BY <1>2, <2>1, <2>2 DEF Linked
<1>5. ListsLive'
  <2> SUFFICES ASSUME NEW i \in DOMAIN Listing'
               PROVE  Listing'[i] \in DOMAIN objects' /\ IdOf(Listing'[i]) = i /\ objects'[Listing'[i]].next = Live
    BY DEF ListsLive
  <2> QED BY <1>c, <1>v, <1>w, <1>3
<1>6. Solves(objects, CurrentObject) /\ Solves(objects', CurrentObject')
  <2>1. Linked(objects, Last) /\ Last + 1 \in Nat
    BY <1>c DEF Shape
  <2> QED BY <1>c, <1>2, <1>4, <2>1, CurrentIs, CurrentIsNext
<1>7. \A o \in DOMAIN objects : CurrentObject'[o] = CurrentObject'[CurrentObject[o]]
  <2>1. \A o \in DOMAIN objects : objects[o].next \notin Ends => objects'[o].next = objects[o].next
    BY <1>c, <1>l, <1>o DEF moved
  <2>2. DOMAIN objects \subseteq DOMAIN objects' /\ Linked(objects, Last)
    BY <1>o DEF Shape
  <2> QED BY <1>c, <1>6, <2>1, <2>2, Extends
<1>8. /\ CurrentObject'[new] = new
      /\ \A i \in DOMAIN Listing : CurrentObject'[copy(i)] = copy(i) /\ CurrentObject'[Listing[i]] = copy(i)
  <2>1. \A o \in DOMAIN objects' :
          CurrentObject'[o] = IF objects'[o].next \in Ends THEN o ELSE CurrentObject'[objects'[o].next]
    BY <1>6 DEF Solves
  <2>2. ASSUME NEW i \in DOMAIN Listing
        PROVE  CurrentObject'[copy(i)] = copy(i) /\ CurrentObject'[Listing[i]] = CurrentObject'[copy(i)]
    <3>1. CurrentObject'[copy(i)] = copy(i)
      BY <1>c, <1>v, <2>1
    <3>2. CurrentObject'[Listing[i]] = CurrentObject'[copy(i)]
      BY <1>c, <1>v, <2>1
    <3> QED BY <3>1, <3>2
  <2>3. CurrentObject'[new] = new
    BY <1>c, <1>w, <2>1
  <2> QED BY <2>2, <2>3
<1>9. Tracked'
  <2>1. held' \subseteq DOMAIN objects' /\ held \subseteq held' /\ new \in held'
    <3>1. \A i \in DOMAIN locs : locs[i] \in DOMAIN objects'
      BY <1>2, <1>3, <1>o
    <3>2. locs[id] = new /\ id \in DOMAIN locs
      BY <1>2, <1>3
    <3> QED BY <1>o, <1>t, <3>1, <3>2 DEF Tracked
  <2>2. latest' \in [LocIds -> held' \cup {Nothing}]
    BY <1>t, <2>1 DEF Tracked
  <2>3. ASSUME NEW i \in LocIds, latest'[i] # Nothing
        PROVE  i \in DOMAIN Listing' /\ CurrentObject'[latest'[i]] = Listing'[i]
    <3>1. CASE i = id
      BY <1>t, <1>3, <1>8, <3>1 DEF Tracked
    <3>2. CASE i # id
      <4>1. latest'[i] = latest[i]
        BY <1>t, <3>2 DEF Tracked
      <4>2. i \in DOMAIN Listing /\ CurrentObject[latest[i]] = Listing[i] /\ latest[i] \in DOMAIN objects
        BY <1>t, <2>3, <4>1 DEF Tracked
      <4> QED BY <1>3, <1>7, <1>8, <3>2, <4>1, <4>2
    <3> QED BY <3>1, <3>2
  <2> QED BY <2>1, <2>2, <2>3 DEF Tracked
<1>10. Shape'
  BY <1>2, <1>4, <1>5, <1>9 DEF Shape
<1>11. objects'[Listing'[id]].version = version
       /\ \A i \in DOMAIN Listing \ {id} : objects'[Listing'[i]].version = objects[Listing[i]].version
  BY <1>3, <1>v, <1>w
<1>12. ASSUME NEW o \in DOMAIN objects'
       PROVE  \/ o \in DOMAIN objects /\ objects'[o].version = objects[o].version
              \/ IdOf(o) = id /\ objects'[o].version = version
              \/ \E i \in DOMAIN Listing : IdOf(o) = i /\ IdOf(Listing[i]) = i /\ Listing[i] \in DOMAIN objects
                                           /\ objects'[o].version = objects[Listing[i]].version
  <2>1. CASE o = new
    BY <1>c, <1>o, <2>1 DEF Object
  <2>2. ASSUME NEW i \in DOMAIN Listing, o = copy(i)
        PROVE  IdOf(o) = i /\ IdOf(Listing[i]) = i /\ Listing[i] \in DOMAIN objects
               /\ objects'[o].version = objects[Listing[i]].version
    BY <1>c, <1>l, <1>v, <2>2
  <2>3. ASSUME NEW i \in DOMAIN Listing, o = Listing[i]
        PROVE  o \in DOMAIN objects /\ objects'[o].version = objects[o].version
    BY <1>l, <1>v, <2>3
  <2>4. CASE o \in DOMAIN objects /\ o \notin moved
    BY <1>o, <2>4
  <2> QED BY <1>o, <2>1, <2>2, <2>3, <2>4 DEF moved
<1> QED BY <1>2, <1>3, <1>10, <1>11, <1>12

(* _refresh: what was fetched is listed, as new objects; the former ones   *)
(* stay as they are.                                                       *)
LEMMA ReplaceAllShape ==
  ASSUME Shape, NEW fetched \in Fetches, ReplaceAll(Last, fetched)
  PROVE  /\ Shape' /\ Last' = Last + 1 /\ DOMAIN Listing' = DOMAIN fetched
         /\ \A i \in DOMAIN fetched : objects'[Listing'[i]].version = fetched[i]
         /\ \A o \in DOMAIN objects' :
              \/ o \in DOMAIN objects /\ objects'[o].version = objects[o].version
              \/ IdOf(o) \in DOMAIN fetched /\ objects'[o].version = fetched[IdOf(o)]
<1> DEFINE fresh(i) == <<NewRegistry, i, "fresh">>
           new == {fresh(i) : i \in DOMAIN fetched}
           locs == [i \in DOMAIN fetched |-> fresh(i)]
<1>c. /\ Last \in Nat /\ NewRegistry = Last + 1 /\ Live \in Ends
      /\ \A i : fresh(i) \notin DOMAIN objects /\ fresh(i) \notin Ends /\ RegistryOf(fresh(i)) = Last + 1 /\ IdOf(fresh(i)) = i
      /\ \A i \in LocIds : fresh(i) \in Handles
  BY ToCome
<1>f. DOMAIN fetched \subseteq LocIds /\ \A i \in DOMAIN fetched : fetched[i] \in Versions
  BY DEF Fetches
<1>k. /\ objects \in [DOMAIN objects -> [next : Ends \cup Handles, version : Versions]]
      /\ \A o \in DOMAIN objects :
           /\ o \in Handles /\ RegistryOf(o) \in 1..Last
           /\ objects[o].next \notin Ends =>
                /\ objects[o].next \in DOMAIN objects
                /\ RegistryOf(objects[o].next) > RegistryOf(o)
                /\ IdOf(objects[o].next) = IdOf(o)
  BY DEF Shape, Linked
<1>o. objects' = [o \in DOMAIN objects \cup new |-> IF o \in new THEN Object(fetched[IdOf(o)]) ELSE objects[o]]
  <2> DEFINE made == [o \in new |-> Object(fetched[IdOf(o)])]
  <2>1. objects' = RefreshStates(Last, {}, made)
    BY DEF ReplaceAll
  <2> HIDE DEF new
  <2>2. objects' = [o \in DOMAIN objects \cup new |-> IF o \in new THEN made[o]
                      ELSE IF o \in {} THEN WithLocs(o)
                      ELSE IF o \in DOMAIN objects THEN objects[o]
                      ELSE Object(objects[CurrentObject[registries[Last].locs[IdOf(o)]]].version)]
    BY <2>1 DEF RefreshStates
  <2> QED BY <2>2
<1>t. /\ Tracked /\ held' = held \cup new
      /\ latest' = [i \in LocIds |-> IF i \in DOMAIN fetched THEN fresh(i) ELSE Nothing]
      /\ Replace(Last, locs)
  BY DEF ReplaceAll, Shape
<1> HIDE DEF fresh
<1>1. locs \in [DOMAIN fetched -> Handles]
  BY <1>c, <1>f
<1>2. Chained' /\ Last' = Last + 1 /\ Listing' = locs
  BY <1>1, <1>f, <1>t, Replaced DEF Shape
<1>v. ASSUME NEW i \in DOMAIN fetched
      PROVE  /\ fresh(i) \in new /\ fresh(i) \in DOMAIN objects' /\ i \in LocIds
             /\ objects'[fresh(i)].next = Live /\ objects'[fresh(i)].version = fetched[i]
             /\ objects'[fresh(i)] \in [next : Ends \cup Handles, version : Versions]
  <2>1. fresh(i) \in new
    OBVIOUS
  <2>2. objects'[fresh(i)] = [next |-> Live, version |-> fetched[i]] /\ fresh(i) \in DOMAIN objects'
    <3> HIDE DEF new
    <3> QED BY <1>c, <1>o, <2>1 DEF Object
  <2> QED BY <1>c, <1>f, <2>1, <2>2
<1>w. /\ DOMAIN objects' = DOMAIN objects \cup new /\ objects' = [o \in DOMAIN objects' |-> objects'[o]]
      /\ \A o \in DOMAIN objects : objects'[o] = objects[o]
  <2>1. \A o \in DOMAIN objects : o \notin new
    BY <1>c
  <2> HIDE DEF new
  <2> QED BY <1>o, <2>1
<1>4. Linked(objects', Last')
  <2>1. ASSUME NEW o \in DOMAIN objects'
        PROVE  /\ objects'[o] \in [next : Ends \cup Handles, version : Versions]
               /\ o \in Handles /\ RegistryOf(o) \in 1..(Last + 1)
               /\ objects'[o].next \notin Ends =>
                    /\ objects'[o].next \in DOMAIN objects'
                    /\ RegistryOf(objects'[o].next) > RegistryOf(o)
                    /\ IdOf(objects'[o].next) = IdOf(o)
    <3>1. ASSUME NEW i \in DOMAIN fetched, o = fresh(i)
          PROVE  /\ objects'[o] \in [next : Ends \cup Handles, version : Versions]
                 /\ o \in Handles /\ RegistryOf(o) \in 1..(Last + 1)
                 /\ objects'[o].next \in Ends
      BY <1>c, <1>v, <3>1
    <3>2. CASE o \in DOMAIN objects
      <4>1. RegistryOf(o) \in 1..(Last + 1)
        BY <1>c, <1>k, <3>2
      <4> QED BY <1>k, <1>w, <3>2, <4>1
    <3> QED BY <1>w, <3>1, <3>2
  <2>2. objects' \in [DOMAIN objects' -> [next : Ends \cup Handles, version : Versions]]
    BY <1>w, <2>1
  <2> QED BY <1>2, <2>1, <2>2 DEF Linked
<1>5. ListsLive'
  BY <1>2, <1>c, <1>v DEF ListsLive
<1>6. Solves(objects', CurrentObject')
  BY <1>c, <1>2, <1>4, CurrentIsNext
<1>9. Tracked'
  <2>1. held' \subseteq DOMAIN objects' /\ \A i \in DOMAIN fetched : fresh(i) \in held'
    BY <1>w, <1>v, <1>t DEF Tracked
  <2>2. latest' \in [LocIds -> held' \cup {Nothing}]
    BY <1>t, <2>1
  <2>3. \A i \in DOMAIN fetched : CurrentObject'[fresh(i)] = fresh(i)
    BY <1>c, <1>v, <1>6 DEF Solves
  <2>4. \A i \in LocIds : latest'[i] # Nothing => i \in DOMAIN Listing' /\ CurrentObject'[latest'[i]] = Listing'[i]
    BY <1>t, <1>2, <2>3
  <2> QED BY <2>1, <2>2, <2>4 DEF Tracked
<1>10. Shape'
  BY <1>2, <1>4, <1>5, <1>9 DEF Shape
<1>11. DOMAIN Listing' = DOMAIN fetched /\ \A i \in DOMAIN fetched : objects'[Listing'[i]].version = fetched[i]
  BY <1>2, <1>v
<1>12. ASSUME NEW o \in DOMAIN objects'
       PROVE  \/ o \in DOMAIN objects /\ objects'[o].version = objects[o].version
              \/ IdOf(o) \in DOMAIN fetched /\ objects'[o].version = fetched[IdOf(o)]
  BY <1>c, <1>v, <1>w
<1> QED BY <1>2, <1>10, <1>11, <1>12

(* cancel: an object of a LOC is finalized and the LOC, if it is listed,   *)
(* removed; the others are listed as they were.                            *)
LEMMA RemoveShape ==
  ASSUME Shape, NEW id \in LocIds, NEW on \in DOMAIN objects, objects[on].next = Live, IdOf(on) = id,
         objects' = [objects EXCEPT ![on].next = Final], held' = held,
         \/ RefreshWithout(Last, id)
         \/ id \notin DOMAIN Listing /\ UNCHANGED <<registries, latest>>
  PROVE  /\ Shape' /\ Last' \in {Last, Last + 1} /\ DOMAIN Listing' = DOMAIN Listing \ {id} /\ DOMAIN objects' = DOMAIN objects
         /\ \A i \in DOMAIN Listing' : Listing'[i] = Listing[i]
         /\ \A o \in DOMAIN objects : objects'[o].version = objects[o].version
<1>c. Last \in Nat /\ Linked(objects, Last) /\ Live \in Ends /\ Final \in Ends /\ CurrentRegistry[Last] = Last
      /\ DOMAIN Listing \subseteq LocIds
  BY RootIs, LiveStays DEF Shape, Ends
<1>l. \A i \in DOMAIN Listing : /\ Listing[i] \in DOMAIN objects /\ IdOf(Listing[i]) = i /\ objects[Listing[i]].next = Live
                                /\ Listing[i] \in Handles
  BY <1>c DEF Shape, ListsLive, Linked
<1>o. /\ DOMAIN objects' = DOMAIN objects /\ objects' = [o \in DOMAIN objects |-> objects'[o]]
      /\ objects'[on].next = Final /\ objects'[on].version = objects[on].version
      /\ objects'[on] \in [next : Ends \cup Handles, version : Versions]
      /\ \A o \in DOMAIN objects : o # on => objects'[o] = objects[o]
  <2>1. objects \in [DOMAIN objects -> [next : Ends \cup Handles, version : Versions]]
    BY <1>c DEF Linked
  <2>2. objects[on] \in [next : Ends \cup Handles, version : Versions]
    BY <2>1
  <2>3. objects'[on] = [objects[on] EXCEPT !.next = Final]
    BY <2>1
  <2> QED BY <1>c, <2>1, <2>2, <2>3
<1>1. /\ Chained' /\ Last' \in {Last, Last + 1} /\ DOMAIN Listing' = DOMAIN Listing \ {id}
      /\ \A i \in DOMAIN Listing' : Listing'[i] = Listing[i]
  <2>1. CASE RefreshWithout(Last, id)
    <3> DEFINE locs == [i \in DOMAIN Listing \ {id} |-> Listing[i]]
    <3>1. Replace(Last, locs)
      BY <1>c, <2>1 DEF RefreshWithout, Listed, Listing
    <3>2. locs \in [DOMAIN Listing \ {id} -> Handles] /\ DOMAIN Listing \ {id} \in SUBSET LocIds
      BY <1>c, <1>l
    <3> QED BY <3>1, <3>2, Replaced DEF Shape
  <2>2. CASE id \notin DOMAIN Listing /\ UNCHANGED <<registries, latest>>
    BY <2>2 DEF Shape, Chained, Last, Listing
  <2> QED BY <2>1, <2>2
<1>2. Linked(objects', Last')
  <2>1. ASSUME NEW o \in DOMAIN objects
        PROVE  /\ objects'[o] \in [next : Ends \cup Handles, version : Versions]
               /\ o \in Handles /\ RegistryOf(o) \in 1..Last'
               /\ objects'[o].next \notin Ends =>
                    /\ objects'[o].next \in DOMAIN objects'
                    /\ RegistryOf(objects'[o].next) > RegistryOf(o)
                    /\ IdOf(objects'[o].next) = IdOf(o)
    <3>1. RegistryOf(o) \in 1..Last' /\ o \in Handles
      BY <1>c, <1>1 DEF Linked
    <3>2. CASE o = on
      BY <1>c, <1>o, <3>1, <3>2
    <3>3. CASE o # on
      BY <1>c, <1>o, <3>1, <3>3 DEF Linked
    <3> QED BY <3>2, <3>3
  <2>2. objects' \in [DOMAIN objects' -> [next : Ends \cup Handles, version : Versions]]
    BY <1>o, <2>1
  <2> QED BY <1>o, <2>1, <2>2 DEF Linked
<1>3. ListsLive'
  BY <1>l, <1>o, <1>1 DEF ListsLive
<1>4. Solves(objects, CurrentObject) /\ Solves(objects', CurrentObject')
  <2>1. Last' \in Nat
    BY <1>c, <1>1
  <2> QED BY <1>c, <1>2, <2>1, CurrentIs, CurrentIsNext
<1>5. \A o \in DOMAIN objects : CurrentObject'[o] = CurrentObject[o]
  <2>1. \A o \in DOMAIN objects : objects[o].next \notin Ends => objects'[o].next = objects[o].next
    BY <1>c, <1>o
  <2>2. \A o \in DOMAIN objects : CurrentObject'[o] = CurrentObject'[CurrentObject[o]]
    BY <1>c, <1>o, <1>4, <2>1, Extends
  <2>3. \A o \in DOMAIN objects : CurrentObject[o] \in DOMAIN objects /\ objects[CurrentObject[o]].next \in Ends
    BY <1>c, <1>4, Lands
  <2>4. \A o \in DOMAIN objects : objects[o].next \in Ends => CurrentObject'[o] = o
    BY <1>c, <1>o, <1>4 DEF Solves
  <2> QED BY <2>2, <2>3, <2>4
<1>6. Tracked'
  <2>1. latest' \in [LocIds -> held \cup {Nothing}] /\ \A i \in LocIds : latest'[i] # Nothing => latest'[i] = latest[i] /\ i # id
    <3>1. CASE RefreshWithout(Last, id)
      BY <3>1 DEF RefreshWithout, Shape, Tracked
    <3>2. CASE id \notin DOMAIN Listing /\ UNCHANGED <<registries, latest>>
      BY <3>2 DEF Shape, Tracked
    <3> QED BY <3>1, <3>2
  <2>2. ASSUME NEW i \in LocIds, latest'[i] # Nothing
        PROVE  i \in DOMAIN Listing' /\ CurrentObject'[latest'[i]] = Listing'[i]
    BY <1>1, <1>5, <2>1, <2>2 DEF Shape, Tracked
  <2> QED BY <1>o, <2>1, <2>2 DEF Shape, Tracked
<1> QED BY <1>1, <1>2, <1>3, <1>6, <1>o DEF Shape

-----------------------------------------------------------------------------
(* An operation ends, and left a new registry or was alone: what the       *)
(* others captured still holds.                                            *)
LEMMA EndsPending ==
  ASSUME RInv, UNCHANGED <<client, backend>>, NEW c \in Callers, op[c].kind # "idle", End(c),
         Last' = Last + 1 \/ (Last' = Last /\ \A d \in Callers \ {c} : op[d] = Idle)
  PROVE  Pending'
<1>1. op \in [Callers -> Operations] /\ Last \in Nat
  BY RootIs DEF RInv, Pending, Shape
<1>2. op'[c] = Idle /\ op' \in [Callers -> Operations] /\ \A d \in Callers \ {c} : op'[d] = op[d]
  BY <1>1 DEF End, Operations
<1>3. \A d \in Callers \ {c} : op[d].kind # "cancel"
  BY DEF RInv, Pending, Idle
<1>4. ASSUME NEW d \in Callers \ {c}, op[d].kind \in {"refresh", "requestLoc"} PROVE RefreshFacts(op[d])'
  <2>1. RefreshFacts(op[d]) /\ op'[d] = op[d]
    BY <1>2, <1>4 DEF RInv, Pending
  <2> QED BY <1>1, <2>1 DEF RefreshFacts
<1>5. ASSUME NEW d \in Callers \ {c}, op[d].kind = "refreshAll" PROVE RefreshAllFacts(op[d])'
  <2>1. RefreshAllFacts(op[d]) /\ op'[d] = op[d] /\ Last' = Last + 1
    BY <1>2, <1>5 DEF RInv, Pending, Idle
  <2>2. op[d].on \in 1..Last' /\ op[d].on # Last'
    BY <1>1, <2>1 DEF RefreshAllFacts
  <2> QED BY <2>1, <2>2 DEF RefreshAllFacts
<1>6. \A d \in Callers : op'[d].kind \in client'.operations \cup {"idle"}
  BY <1>2 DEF RInv, Pending, Idle
<1> QED BY <1>2, <1>3, <1>4, <1>5, <1>6 DEF RInv, Pending, Idle

LEMMA RefreshDoneStep ==
  ASSUME RInv, UNCHANGED client, NEW c \in Callers, RefreshDone(c)
  PROVE  /\ RInv' /\ op[c].kind \in {"refresh", "requestLoc"} /\ op[c].version # Absent /\ End(c)
         /\ DOMAIN Listing' = DOMAIN Listing \cup {op[c].id} /\ backend[op[c].id] \in Versions
         /\ objects'[Listing'[op[c].id]].version = op[c].version
         /\ \A i \in DOMAIN Listing \ {op[c].id} : objects'[Listing'[i]].version = objects[Listing[i]].version
<1>1. op[c].kind \in {"refresh", "requestLoc"} /\ op[c].version # Absent /\ End(c) /\ UNCHANGED backend
  BY DEF RefreshDone
<1>2. op[c] \in Operations /\ RefreshFacts(op[c])
  BY <1>1 DEF RInv, Pending
<1>3. op[c].id \in LocIds /\ op[c].version \in Versions
  BY <1>1, <1>2 DEF Operations, FullRefreshes, Idle
<1>4. PICK id \in LocIds, version \in Versions : id = op[c].id /\ version = op[c].version
  BY <1>3
<1>5. backend[id] \in version..MaxVersion /\ MaxVersion \in Nat /\ op[c].registry \in 1..Last
  BY <1>1, <1>2, <1>4, ConstantsAssumption DEF RefreshFacts
<1>6. CurrentRegistry[op[c].registry] = Last
  BY <1>5, RootIs DEF RInv, Shape
<1>7. ~RefreshWithThrows(op[c].registry)
  <2>1. \A i \in Listed(Last) : IsLive(registries[Last].locs[i])
    BY LiveStays DEF RInv, Shape, ListsLive, IsLive, Listed, Listing
  <2> QED BY <1>6, <2>1 DEF RefreshWithThrows
<1>8. RefreshOn(Last, id, version)
  BY <1>4, <1>6, <1>7 DEF RefreshDone, RefreshWith
<1>9. /\ Shape' /\ Last' = Last + 1 /\ DOMAIN Listing' = DOMAIN Listing \cup {id}
      /\ objects'[Listing'[id]].version = version
      /\ \A i \in DOMAIN Listing \ {id} : objects'[Listing'[i]].version = objects[Listing[i]].version
      /\ \A o \in DOMAIN objects' :
           \/ o \in DOMAIN objects /\ objects'[o].version = objects[o].version
           \/ IdOf(o) = id /\ objects'[o].version = version
           \/ \E i \in DOMAIN Listing : IdOf(o) = i /\ IdOf(Listing[i]) = i /\ Listing[i] \in DOMAIN objects
                                        /\ objects'[o].version = objects[Listing[i]].version
  BY <1>8, RefreshShape DEF RInv
<1>10. Pending'
  BY <1>1, <1>9, EndsPending
<1>11. \A d \in Callers : op[d].kind # "cancel"
  BY <1>1 DEF RInv, Pending, Idle
<1>12. Backed'
  <2>1. \A o \in DOMAIN objects' : objects'[o].version <= backend[IdOf(o)]
    <3>1. version <= backend[id]
      BY <1>5
    <3> QED BY <1>9, <3>1 DEF RInv, Backed
  <2>2. \A i \in DOMAIN Listing' : backend[i] \in Versions
    <3>1. backend[id] \in Versions
      BY <1>5 DEF Versions
    <3> QED BY <1>9, <1>11, <3>1 DEF RInv, Backed, Accepted
  <2> QED BY <1>1, <2>1, <2>2 DEF RInv, Backed
<1>13. backend[id] \in Versions
  BY <1>5 DEF Versions
<1> QED BY <1>1, <1>4, <1>9, <1>10, <1>12, <1>13 DEF RInv

LEMMA RefreshAllDoneStep ==
  ASSUME RInv, UNCHANGED client, NEW c \in Callers, RefreshAllDone(c)
  PROVE  /\ RInv' /\ AllFetched(c) /\ End(c)
         /\ \/ UnchangedClient
            \/ /\ DOMAIN Listing' = DOMAIN op[c].versions
               /\ DOMAIN Listing \subseteq DOMAIN Listing' \cup op[c].missed
               /\ \A i \in DOMAIN Listing' : backend[i] \in Versions /\ objects'[Listing'[i]].version = op[c].versions[i]
<1>1. op[c].kind = "refreshAll" /\ op[c].served /\ AllFetched(c) /\ End(c) /\ UNCHANGED backend
  BY DEF RefreshAllDone, AllFetched
<1>2. op[c] \in Operations /\ RefreshAllFacts(op[c])
  BY <1>1 DEF RInv, Pending
<1>3. op[c].versions \in Fetches
  BY <1>1, <1>2 DEF RefreshAllFacts
<1>4. CASE registries[op[c].on].next # 0
  <2>1. UnchangedClient
    BY <1>4 DEF RefreshAllDone
  <2> QED BY <1>1, <2>1, RefreshAllLateStep
<1>5. CASE registries[op[c].on].next = 0
  <2>1. op[c].on = Last
    BY <1>2, <1>5, RootIs DEF RInv, Shape, Chained, RefreshAllFacts
  <2>2. PICK fetched \in Fetches : fetched = op[c].versions
    BY <1>3
  <2>3. ReplaceAll(Last, fetched)
    BY <1>5, <2>1, <2>2 DEF RefreshAllDone
  <2>4. /\ Shape' /\ Last' = Last + 1 /\ DOMAIN Listing' = DOMAIN fetched
        /\ \A i \in DOMAIN fetched : objects'[Listing'[i]].version = fetched[i]
        /\ \A o \in DOMAIN objects' :
             \/ o \in DOMAIN objects /\ objects'[o].version = objects[o].version
             \/ IdOf(o) \in DOMAIN fetched /\ objects'[o].version = fetched[IdOf(o)]
    BY <2>3, ReplaceAllShape DEF RInv
  <2>5. Pending'
    BY <1>1, <2>4, EndsPending
  <2>6. \A i \in DOMAIN fetched : fetched[i] \in Versions /\ backend[i] \in fetched[i]..MaxVersion
    BY <1>1, <1>2, <2>2 DEF RefreshAllFacts, Fetches
  <2>7. \A i \in DOMAIN fetched : fetched[i] <= backend[i] /\ backend[i] \in Versions
    BY <2>6, ConstantsAssumption DEF Versions
  <2>8. Backed'
    BY <1>1, <2>4, <2>7 DEF RInv, Backed
  <2>9. DOMAIN Listing \subseteq DOMAIN fetched \cup op[c].missed
    BY <1>1, <1>2, <2>1, <2>2 DEF RefreshAllFacts
  <2> QED BY <1>1, <2>2, <2>4, <2>5, <2>7, <2>8, <2>9 DEF RInv
<1> QED BY <1>4, <1>5

LEMMA CancelDoneStep ==
  ASSUME RInv, UNCHANGED client, NEW c \in Callers, CancelDone(c)
  PROVE  /\ RInv' /\ DOMAIN Listing' = DOMAIN Listing \ {op[c].id} /\ backend[op[c].id] = Cancelled
         /\ \A i \in DOMAIN Listing' : Listing'[i] = Listing[i]
         /\ \A o \in DOMAIN objects : objects'[o].version = objects[o].version
<1>1. op[c].kind = "cancel" /\ op[c].answer # "none" /\ End(c) /\ UNCHANGED backend
  BY DEF CancelDone
<1>2. op[c] \in Operations /\ CancelFacts(op[c]) /\ \A d \in Callers \ {c} : op[d] = Idle
  BY <1>1 DEF RInv, Pending
<1>3. op[c] \in [kind : {"cancel"}, id : LocIds, on : Handles, registry : Nat, answer : Answers]
  BY <1>1, <1>2 DEF Operations, FullRefreshes, Idle
<1>4. PICK id \in LocIds : id = op[c].id
  BY <1>3
<1>5. PICK on \in DOMAIN objects : on = op[c].on
  BY <1>2 DEF CancelFacts
<1>6. objects[on].next = Live /\ IdOf(on) = id /\ op[c].registry \in 1..Last /\ backend[id] = Cancelled
  BY <1>1, <1>2, <1>4, <1>5 DEF CancelFacts
<1>7. CurrentRegistry[op[c].registry] = Last /\ CurrentRegistry[Last] = Last
  BY <1>6, RootIs DEF RInv, Shape
<1>8. objects' = [objects EXCEPT ![on].next = Final] /\ held' = held
  BY <1>5, <1>6 DEF CancelDone
<1>9. \/ op[c].answer = "accepted" /\ RefreshWithout(Last, id)
      \/ op[c].answer = "refused" /\ id \notin DOMAIN Listing /\ UNCHANGED <<registries, latest>>
  <2>1. CASE op[c].answer = "accepted"
    BY <1>4, <1>5, <1>6, <1>7, <2>1 DEF CancelDone, RefreshWithout
  <2>2. CASE op[c].answer = "refused"
    BY <1>2, <1>4, <1>5, <1>6, <2>2 DEF CancelDone, CancelFacts
  <2> QED BY <1>1, <1>3, <2>1, <2>2 DEF Answers
<1>10. /\ Shape' /\ Last' \in {Last, Last + 1} /\ DOMAIN Listing' = DOMAIN Listing \ {id} /\ DOMAIN objects' = DOMAIN objects
       /\ \A i \in DOMAIN Listing' : Listing'[i] = Listing[i]
       /\ \A o \in DOMAIN objects : objects'[o].version = objects[o].version
  BY <1>6, <1>8, <1>9, RemoveShape DEF RInv
<1>11. Pending'
  BY <1>1, <1>2, <1>10, EndsPending
<1>12. Backed'
  <2>1. \A x \in LocIds : Accepted(x) => x = id
    BY <1>1, <1>2, <1>4 DEF Accepted, Idle
  <2>2. \A i \in DOMAIN Listing : i \in LocIds
    BY LiveStays DEF RInv
  <2>3. \A i \in DOMAIN Listing' : backend[i] \in Versions
    BY <1>10, <2>1, <2>2 DEF RInv, Backed
  <2> QED BY <1>1, <1>10, <2>3 DEF RInv, Backed
<1> QED BY <1>4, <1>6, <1>10, <1>11, <1>12 DEF RInv

-----------------------------------------------------------------------------
(* The invariant holds at first, ... *)
LEMMA InitRInv == Init => RInv
<1> SUFFICES ASSUME Init PROVE RInv
  OBVIOUS
<1> DEFINE Fresh(id) == <<1, id, "fresh">>
           locs == [id \in InitialLocs |-> Fresh(id)]
<1>a. InitialLocs \subseteq LocIds /\ MaxVersion \in Nat /\ MaxVersion > 0 /\ 1 \in Versions
  BY ConstantsAssumption DEF Versions
<1>f. \A id \in InitialLocs : Fresh(id) \in Handles /\ RegistryOf(Fresh(id)) = 1 /\ IdOf(Fresh(id)) = id
  BY <1>a DEF Handles, RegistryOf, IdOf
<1>i. /\ client \in Clients /\ backend = [id \in LocIds |-> IF id \in InitialLocs THEN 1 ELSE Absent]
      /\ registries = <<Registry(locs)>> /\ objects = [o \in {Fresh(id) : id \in InitialLocs} |-> Object(1)]
      /\ held = DOMAIN objects /\ latest = [id \in LocIds |-> IF id \in InitialLocs THEN Fresh(id) ELSE Nothing]
      /\ op = [c \in Callers |-> Idle]
  BY DEF Init
<1> HIDE DEF Fresh
<1>o. /\ DOMAIN objects = {Fresh(id) : id \in InitialLocs}
      /\ \A id \in InitialLocs : Fresh(id) \in DOMAIN objects
      /\ \A o \in DOMAIN objects : objects[o] = [next |-> Live, version |-> 1]
  BY <1>i DEF Object
<1>l. Last = 1 /\ Listing = locs
  BY <1>i DEF Last, Listing, Registry
<1>1. Chained
  <2> DEFINE Lists == UNION {[s -> Handles] : s \in SUBSET LocIds}
  <2>1. locs \in Lists
    <3>1. InitialLocs \in SUBSET LocIds /\ locs \in [InitialLocs -> Handles]
      BY <1>a, <1>f
    <3> QED BY <3>1
  <2> HIDE DEF Lists, locs
  <2>2. registries \in Seq([next : Nat, locs : Lists])
    BY <1>i, <2>1 DEF Registry
  <2>3. \A r \in 1..Last : registries[r].next = IF r = Last THEN 0 ELSE r + 1
    BY <1>i, <1>l DEF Registry
  <2> QED BY <1>l, <2>2, <2>3 DEF Chained, Lists
<1>2. Linked(objects, Last)
  <2>1. objects \in [DOMAIN objects -> [next : Ends \cup Handles, version : Versions]]
    <3>1. objects = [o \in DOMAIN objects |-> objects[o]]
      BY <1>i
    <3>2. [next |-> Live, version |-> 1] \in [next : Ends \cup Handles, version : Versions]
      BY <1>a DEF Ends
    <3> QED BY <1>o, <3>1, <3>2
  <2>2. \A o \in DOMAIN objects : o \in Handles /\ RegistryOf(o) = 1
    BY <1>f, <1>o
  <2>3. \A o \in DOMAIN objects : objects[o].next \in Ends
    BY <1>o DEF Ends
  <2> QED BY <1>l, <2>1, <2>2, <2>3 DEF Linked
<1>3. ListsLive
  BY <1>f, <1>l, <1>o DEF ListsLive
<1>4. Tracked
  <2>1. Solves(objects, CurrentObject)
    BY <1>2, <1>l, CurrentIs
  <2>2. \A id \in InitialLocs : CurrentObject[Fresh(id)] = Fresh(id)
    BY <1>o, <2>1 DEF Solves, Ends
  <2>3. latest \in [LocIds -> held \cup {Nothing}]
    BY <1>i, <1>o
  <2>4. \A id \in LocIds : latest[id] # Nothing => id \in DOMAIN Listing /\ CurrentObject[latest[id]] = Listing[id]
    BY <1>i, <1>l, <2>2
  <2> QED BY <1>i, <2>3, <2>4 DEF Tracked
<1>5. Backed
  <2>1. \A o \in DOMAIN objects : objects[o].version <= backend[IdOf(o)]
    <3> SUFFICES ASSUME NEW o \in DOMAIN objects PROVE objects[o].version <= backend[IdOf(o)]
      OBVIOUS
    <3>1. PICK id \in InitialLocs : o = Fresh(id)
      BY <1>o
    <3>2. objects[o].version = 1
      BY <1>o
    <3>3. IdOf(o) = id
      BY <1>f, <3>1
    <3>4. backend[id] = 1
      BY <1>a, <1>i
    <3> QED BY <3>2, <3>3, <3>4
  <2> QED BY <1>a, <1>i, <1>l, <2>1 DEF Backed
<1>6. Pending
  <2>1. \A c \in Callers : op[c] = Idle /\ op[c].kind = "idle"
    BY <1>i DEF Idle
  <2> QED BY <1>i, <2>1 DEF Pending, Operations
<1> QED BY <1>1, <1>2, <1>3, <1>4, <1>5, <1>6 DEF RInv, Shape

(* The registries a client reaches have been constructed. *)
LEMMA HeldRegistriesExist == RInv => HeldRegistries \subseteq 1..Last
<1> SUFFICES ASSUME RInv PROVE HeldRegistries \subseteq 1..Last
  OBVIOUS
<1>1. Last \in Nat \ {0} /\ \A h \in held : RegistryOf(h) \in 1..Last
  BY RootIs DEF RInv, Shape, Tracked, Linked
<1> QED BY <1>1 DEF HeldRegistries

(* ... and every step keeps it; what leaves the list was cancelled, or not *)
(* fetched, and what comes into it was not cancelled.                      *)
MissedIn(c, id) == AllFetched(c) /\ op'[c] = Idle /\ id \in op[c].missed

Turnover ==
  /\ \A id \in DOMAIN Listing \ DOMAIN Listing' :
       backend[id] = Cancelled \/ \E c \in Callers : MissedIn(c, id)
  /\ \A id \in DOMAIN Listing' \ DOMAIN Listing : backend[id] \in Versions

LEMMA NextRInv ==
  ASSUME RInv, Disciplined, Next, UNCHANGED client
  PROVE  RInv' /\ Turnover
<1>1. ASSUME UnchangedClient PROVE Turnover
  BY <1>1, QuietShape DEF RInv, Turnover
<1>2. CASE \E id \in LocIds : Touch(id)
  BY <1>1, <1>2, TouchStep DEF Touch
<1>3. ASSUME NEW c \in Callers, NEW h \in held, Refresh(c, h) \/ Cancel(c, h) PROVE RInv' /\ Turnover
  BY <1>1, <1>3, RefreshStep, CancelStep DEF Refresh, Cancel
<1>4. ASSUME NEW c \in Callers, NEW r \in HeldRegistries, RefreshAll(c, r) \/ \E id \in LocIds : RequestLoc(c, r, id)
      PROVE  RInv' /\ Turnover
  <2>1. r \in 1..Last
    BY HeldRegistriesExist
  <2> QED BY <1>1, <1>4, <2>1, RefreshAllStep, RequestLocStep DEF RefreshAll, RequestLoc
<1>5. ASSUME NEW c \in Callers, RefreshServed(c) \/ RefreshAllServed(c) \/ CancelServed(c) PROVE RInv' /\ Turnover
  BY <1>1, <1>5, RefreshServedStep, RefreshAllServedStep, CancelServedStep DEF RefreshServed, RefreshAllServed, CancelServed
<1>6. ASSUME NEW c \in Callers, RefreshDone(c) PROVE RInv' /\ Turnover
  BY <1>6, RefreshDoneStep DEF Turnover
<1>7. ASSUME NEW c \in Callers, RefreshAllDone(c) PROVE RInv' /\ Turnover
  <2>1. op'[c] = Idle
    BY <1>7, RefreshAllDoneStep DEF End, RInv, Pending
  <2> QED BY <1>1, <1>7, <2>1, RefreshAllDoneStep DEF Turnover, MissedIn
<1>8. ASSUME NEW c \in Callers, CancelDone(c) PROVE RInv' /\ Turnover
  BY <1>8, CancelDoneStep DEF Turnover
<1> QED BY <1>2, <1>3, <1>4, <1>5, <1>6, <1>7, <1>8 DEF Next

LEMMA StutterRInv ==
  ASSUME RInv, UNCHANGED vars
  PROVE  RInv' /\ Turnover
<1>1. UnchangedClient /\ client' = client /\ backend' = backend /\ op' = op
  BY DEF vars, UnchangedClient
<1>2. op' \in [Callers -> Operations] /\ {} \in SUBSET Callers /\ \A d \in Callers \ {} : op'[d] = op[d]
  BY <1>1 DEF RInv, Pending
<1>3. RInv'
  BY <1>1, <1>2, BackendStays, QuietStep
<1>4. Turnover
  BY <1>1, QuietShape DEF RInv, Turnover
<1> QED BY <1>3, <1>4

LEMMA RegistryInvariant ==
  ASSUME Disciplined
  PROVE  Spec => []RInv
<1>1. RInv /\ [Next /\ UNCHANGED client]_vars => RInv'
  BY NextRInv, StutterRInv
<1> QED BY <1>1, InitRInv, PTL DEF Spec

(* Whatever operations overlap, all the LOC objects a client holds lead to *)
(* the registry that the first one leads to: refreshWith, refresh and      *)
(* refreshWithout never fork it.                                           *)
THEOREM RegistryIsOne ==
  ASSUME Disciplined
  PROVE  Spec => []OneRegistry
<1>1. RInv => OneRegistry
  <2> SUFFICES ASSUME RInv, NEW h \in held PROVE CurrentRegistry[RegistryOf(CurrentObject[h])] = Root
    BY DEF OneRegistry
  <2>1. Last \in Nat /\ Linked(objects, Last) /\ h \in DOMAIN objects
    BY RootIs DEF RInv, Shape, Tracked
  <2>2. CurrentObject[h] \in DOMAIN objects
    BY <2>1, CurrentIs, Lands
  <2> QED BY <2>1, <2>2, RootIs DEF RInv, Shape, Linked
<1> QED BY <1>1, RegistryInvariant, PTL

(* The object the client received last for a LOC leads to the one that is  *)
(* listed, though every operation on another LOC rebuilds the list.        *)
THEOREM HandlesFollow ==
  ASSUME Disciplined
  PROVE  Spec => []LatestHandleIsListed
<1>1. RInv => LatestHandleIsListed
  BY RootIs DEF RInv, Shape, Tracked, LatestHandleIsListed
<1> QED BY <1>1, RegistryInvariant, PTL

(* What is listed was not finalized, so that refreshWith, that rebinds it  *)
(* all, does not throw.                                                    *)
THEOREM ListIsLive ==
  ASSUME Disciplined
  PROVE  Spec => []ListedLocsAreLive
<1>1. RInv => ListedLocsAreLive
  BY RootIs, LiveStays DEF RInv, Shape, ListsLive, ListedLocsAreLive, IsLive
<1> QED BY <1>1, RegistryInvariant, PTL

(* What is listed now and what is after a step. *)
LEMMA ListedIs ==
  ASSUME RInv, RInv'
  PROVE  ListedLocs = Listing /\ ListedLocs' = Listing'
BY RootIs, RootIsNext DEF RInv, Shape

(* A LOC leaves the registry only if the backend has cancelled it, or at   *)
(* the end of a LocsState.refresh that did not get it from its node: no    *)
(* refresh drops a request made during its awaits.                         *)
THEOREM NoneForgotten ==
  ASSUME Disciplined
  PROVE  Spec => LocsAreNotForgotten
<1>1. RInv /\ RInv' /\ [Next /\ UNCHANGED client]_vars =>
        [\A id \in DOMAIN ListedLocs \ DOMAIN ListedLocs' :
           \/ backend[id] = Cancelled
           \/ \E c \in Callers : AllFetched(c) /\ op'[c] = Idle /\ id \in op[c].missed]_vars
  BY NextRInv, StutterRInv, ListedIs DEF Turnover, MissedIn
<1> QED BY <1>1, RegistryInvariant, PTL DEF Spec, LocsAreNotForgotten

(* A LOC that the backend cancelled and that left the registry does not    *)
(* come back into it, by data fetched before.                              *)
THEOREM CancelledIsGone ==
  ASSUME Disciplined
  PROVE  Spec => CancelledStaysAway
<1>1. Cancelled \notin Versions
  BY ConstantsAssumption DEF Cancelled, Versions
<1>2. RInv /\ RInv' /\ [Next /\ UNCHANGED client]_vars =>
        [\A id \in LocIds : backend[id] = Cancelled /\ id \notin DOMAIN ListedLocs => id \notin DOMAIN ListedLocs']_vars
  BY <1>1, NextRInv, StutterRInv, ListedIs DEF Turnover
<1> QED BY <1>2, RegistryInvariant, PTL DEF Spec, CancelledStaysAway

-----------------------------------------------------------------------------
(* For a client that awaits its operations on a LOC: one of its operations *)
(* moves, and the client's objects stay as they are.                       *)
LEMMA AwaitQuiet ==
  ASSUME RInv, Apart, Newer, UnchangedClient, NEW c \in Callers, NEW o \in Operations, Begin(c, o),
         \A d \in Callers \ {c} :
           /\ o.kind # "idle" => op[d].kind # "refreshAll"
           /\ o.kind = "refreshAll" => op[d] = Idle
           /\ o.kind \in {"refresh", "requestLoc"} /\ op[d].kind \in {"refresh", "requestLoc"} => op[d].id # o.id,
         o.kind \in {"refresh", "requestLoc"} /\ o.version # Absent /\ o.id \in DOMAIN Listing =>
           objects[Listing[o.id]].version <= o.version,
         o.kind = "refreshAll" /\ o.served =>
           \A id \in DOMAIN Listing \cap DOMAIN o.versions : objects[Listing[id]].version <= o.versions[id]
  PROVE  Apart' /\ Newer'
<1>1. op'[c] = o /\ \A d \in Callers \ {c} : op'[d] = op[d]
  BY DEF Begin, RInv, Pending
<1>2. Listing' = Listing /\ objects' = objects
  BY QuietShape DEF RInv, UnchangedClient
<1>3. o.kind = "idle" => o = Idle
  BY DEF Operations, FullRefreshes, Idle
<1>4. Newer'
  <2> SUFFICES ASSUME NEW d \in Callers
      PROVE /\ op'[d].kind \in {"refresh", "requestLoc"} /\ op'[d].version # Absent /\ op'[d].id \in DOMAIN Listing' =>
                 objects'[Listing'[op'[d].id]].version <= op'[d].version
            /\ op'[d].kind = "refreshAll" /\ op'[d].served =>
                 \A id \in DOMAIN Listing' \cap DOMAIN op'[d].versions :
                   objects'[Listing'[id]].version <= op'[d].versions[id]
    BY DEF Newer
  <2>1. CASE d = c
    BY <1>1, <1>2, <2>1
  <2>2. CASE d # c
    BY <1>1, <1>2, <2>2 DEF Newer
  <2> QED BY <2>1, <2>2
<1>5. Apart'
  <2> SUFFICES ASSUME NEW d \in Callers, NEW e \in Callers, d # e
      PROVE /\ op'[d].kind \in {"refresh", "requestLoc"} /\ op'[e].kind \in {"refresh", "requestLoc"} => op'[d].id # op'[e].id
            /\ op'[d].kind = "refreshAll" => op'[e] = Idle
    BY DEF Apart
  <2>1. CASE d = c
    BY <1>1, <2>1
  <2>2. CASE e = c
    BY <1>1, <1>3, <2>2 DEF Apart
  <2>3. CASE d # c /\ e # c
    BY <1>1, <2>3 DEF Apart
  <2> QED BY <2>1, <2>2, <2>3
<1> QED BY <1>4, <1>5

(* Its operations start apart from those in flight. *)
LEMMA AwaitStarting ==
  ASSUME RInv, Disciplined, Patient, client.awaited, NEW c \in Callers, NEW kind, NEW ids, MayStart(c, kind, ids),
         kind \in {"refresh", "requestLoc", "refreshAll", "cancel"}
  PROVE  \A d \in Callers :
           /\ op[d].kind # "refreshAll"
           /\ kind \in {"refreshAll", "cancel"} => op[d] = Idle
           /\ op[d].kind \in {"refresh", "requestLoc"} => op[d].id \notin ids
<1>1. /\ client \in Clients /\ \A d \in Callers : op[d].kind \in client.operations \cup {"idle"}
      /\ \A d \in Callers : op[d] \in Operations
  BY DEF RInv, Pending
<1>2. \A d \in Callers : op[d].kind # "refreshAll"
  BY <1>1 DEF MayStart, Running, Patient
<1>3. \A d \in Callers : op[d].kind \in {"refresh", "requestLoc"} => op[d].id \notin ids
  BY DEF MayStart, Running
<1>4. kind \in {"refreshAll", "cancel"} => \A d \in Callers : op[d].kind = "idle"
  BY <1>1 DEF MayStart, Running, Patient, Disciplined
<1>5. \A d \in Callers : op[d].kind = "idle" => op[d] = Idle
  BY <1>1 DEF Operations, FullRefreshes, Idle
<1> QED BY <1>2, <1>3, <1>4, <1>5

(* What the backend answers is not older than what is listed. *)
LEMMA ListedIsKnown ==
  ASSUME RInv
  PROVE  \A id \in DOMAIN Listing : objects[Listing[id]].version <= backend[id]
BY DEF RInv, Shape, ListsLive, Backed

LEMMA AwaitStep ==
  ASSUME RInv, Disciplined, Patient, client.awaited, Apart, Newer, Next, UNCHANGED client
  PROVE  /\ Apart' /\ Newer'
         /\ \A id \in DOMAIN Listing \cap DOMAIN Listing' : objects[Listing[id]].version <= objects'[Listing'[id]].version
<1> DEFINE Forward == \A id \in DOMAIN Listing \cap DOMAIN Listing' :
                        objects[Listing[id]].version <= objects'[Listing'[id]].version
<1>0. /\ \A id \in DOMAIN Listing : objects[Listing[id]].version <= objects[Listing[id]].version
      /\ op \in [Callers -> Operations] /\ Idle \in Operations /\ Idle.kind = "idle"
  <2>1. \A id \in DOMAIN Listing : objects[Listing[id]].version \in Nat
    BY ConstantsAssumption DEF RInv, Shape, ListsLive, Linked, Versions
  <2> QED BY <2>1 DEF RInv, Pending, Operations, Idle
<1>1. ASSUME UnchangedClient PROVE Forward
  BY <1>0, <1>1, QuietShape DEF RInv, UnchangedClient
<1>2. CASE \E id \in LocIds : Touch(id)
  <2>1. UnchangedClient /\ op' = op
    BY <1>2 DEF Touch
  <2>2. Listing' = Listing /\ objects' = objects
    BY <2>1, QuietShape DEF RInv, UnchangedClient
  <2> QED BY <1>1, <2>1, <2>2 DEF Apart, Newer
<1>3. ASSUME NEW c \in Callers, NEW h \in held, Refresh(c, h) PROVE Apart' /\ Newer' /\ Forward
  <2> DEFINE o == [kind |-> "refresh", id |-> IdOf(h), version |-> Absent, registry |-> RegistryOf(CurrentObject[h])]
  <2>1. Begin(c, o) /\ UnchangedClient /\ MayStart(c, "refresh", {IdOf(h)})
    BY <1>3 DEF Refresh
  <2>2. o \in Operations
    <3>1. Linked(objects, Last) /\ Last \in Nat /\ h \in DOMAIN objects
      BY RootIs DEF RInv, Shape, Tracked
    <3>2. CurrentObject[h] \in DOMAIN objects
      BY <3>1, CurrentIs, Lands
    <3>3. IdOf(h) \in LocIds /\ RegistryOf(CurrentObject[h]) \in Nat
      BY <3>1, <3>2 DEF Linked, Handles, IdOf
    <3> QED BY <3>3 DEF Operations
  <2>3. \A d \in Callers : op[d].kind # "refreshAll" /\ (op[d].kind \in {"refresh", "requestLoc"} => op[d].id # IdOf(h))
    BY <2>1, AwaitStarting
  <2> QED BY <1>1, <2>1, <2>2, <2>3, AwaitQuiet
<1>4. ASSUME NEW c \in Callers, NEW h \in held, Cancel(c, h) PROVE Apart' /\ Newer' /\ Forward
  <2>1. UnchangedClient /\ MayStart(c, "cancel", {IdOf(h)}) /\ op'[c].kind = "cancel"
    BY <1>0, <1>4 DEF Cancel, Begin
  <2>2. \A d \in Callers : op[d] = Idle
    BY <2>1, AwaitStarting
  <2>3. \A d \in Callers : op'[d].kind = "idle" \/ op'[d].kind = "cancel"
    BY <1>0, <1>4, <2>1, <2>2 DEF Cancel, Begin
  <2> QED BY <1>1, <2>1, <2>3 DEF Apart, Newer
<1>5. ASSUME NEW c \in Callers, NEW r \in HeldRegistries, RefreshAll(c, r) PROVE Apart' /\ Newer' /\ Forward
  <2> DEFINE o == [kind |-> "refreshAll", on |-> CurrentRegistry[r], served |-> FALSE, versions |-> Nothing, missed |-> {}]
  <2>1. Begin(c, o) /\ UnchangedClient /\ MayStart(c, "refreshAll", LocIds)
    BY <1>5 DEF RefreshAll
  <2>2. o \in Operations
    <3>1. CurrentRegistry[r] \in Nat
      BY HeldRegistriesExist, RootIs DEF RInv, Shape
    <3> QED BY <3>1 DEF Operations, FullRefreshes
  <2>3. \A d \in Callers : op[d] = Idle
    BY <2>1, AwaitStarting
  <2> QED BY <1>0, <1>1, <2>1, <2>2, <2>3, AwaitQuiet
<1>6. ASSUME NEW c \in Callers, NEW r \in HeldRegistries, NEW id \in LocIds, RequestLoc(c, r, id)
      PROVE  Apart' /\ Newer' /\ Forward
  <2> DEFINE o == [kind |-> "requestLoc", id |-> id, version |-> 1, registry |-> r]
  <2>1. Begin(c, o) /\ UnchangedClient /\ MayStart(c, "requestLoc", {id}) /\ backend[id] = Absent
    BY <1>6 DEF RequestLoc
  <2>2. o \in Operations
    <3>1. r \in Nat /\ 1 \in Versions
      BY HeldRegistriesExist, RootIs, ConstantsAssumption DEF RInv, Shape, Versions
    <3> QED BY <3>1 DEF Operations
  <2>3. \A d \in Callers : op[d].kind # "refreshAll" /\ (op[d].kind \in {"refresh", "requestLoc"} => op[d].id # id)
    BY <2>1, AwaitStarting
  <2>4. id \notin DOMAIN Listing
    <3>1. \A d \in Callers : op[d].kind # "cancel"
      BY <2>1, Starting
    <3> QED BY <2>1, <3>1 DEF RInv, Backed, Accepted, Versions, Absent
  <2> QED BY <1>1, <2>1, <2>2, <2>3, <2>4, AwaitQuiet
<1>7. ASSUME NEW c \in Callers, RefreshServed(c) PROVE Apart' /\ Newer' /\ Forward
  <2>1. op[c].kind = "refresh" /\ UnchangedClient /\ UNCHANGED backend
    BY <1>7 DEF RefreshServed
  <2>2. op[c] \in [kind : {"refresh", "requestLoc"}, id : LocIds, version : Versions \cup {Absent}, registry : Nat]
    BY <1>0, <2>1 DEF Operations, FullRefreshes, Idle
  <2>3. CASE op[c].id \in Existing
    <3> DEFINE o == [op[c] EXCEPT !.version = backend[op[c].id]]
    <3>1. backend[op[c].id] \in Versions
      BY <2>3 DEF Existing
    <3>2. /\ o \in [kind : {"refresh", "requestLoc"}, id : LocIds, version : Versions \cup {Absent}, registry : Nat]
          /\ o.kind = "refresh" /\ o.id = op[c].id /\ o.version = backend[op[c].id]
      BY <2>1, <2>2, <3>1
    <3>3. Begin(c, o)
      BY <1>7, <2>3 DEF RefreshServed, Fetched
    <3> HIDE DEF o
    <3>4. o \in Operations
      BY <3>2 DEF Operations
    <3>5. \A d \in Callers \ {c} :
            /\ op[d].kind # "refreshAll"
            /\ op[d].kind \in {"refresh", "requestLoc"} => op[d].id # o.id
      BY <2>1, <3>2 DEF Apart, Idle
    <3> QED BY <1>1, <2>1, <3>2, <3>3, <3>4, <3>5, ListedIsKnown, AwaitQuiet
  <2>4. CASE op[c].id \notin Existing
    <3>1. Begin(c, Idle)
      BY <1>7, <2>4 DEF RefreshServed, End, Begin
    <3> QED BY <1>0, <1>1, <2>1, <3>1, AwaitQuiet
  <2> QED BY <2>3, <2>4
<1>8. ASSUME NEW c \in Callers, RefreshAllServed(c) PROVE Apart' /\ Newer' /\ Forward
  <2> PICK ids \in SUBSET Existing :
        Begin(c, [op[c] EXCEPT !.served = TRUE, !.versions = [id \in ids |-> backend[id]], !.missed = Existing \ ids])
    BY <1>8 DEF RefreshAllServed
  <2> DEFINE versions == [id \in ids |-> backend[id]]
             o == [op[c] EXCEPT !.served = TRUE, !.versions = versions, !.missed = Existing \ ids]
  <2>1. op[c].kind = "refreshAll" /\ UnchangedClient /\ Begin(c, o)
    BY <1>8 DEF RefreshAllServed
  <2>2. op[c] \in FullRefreshes
    BY <1>0, <2>1 DEF Operations, Idle
  <2>3. versions \in Fetches /\ DOMAIN versions = ids /\ \A id \in ids : versions[id] = backend[id]
    <3>1. ids \subseteq LocIds /\ versions \in [ids -> Versions]
      BY DEF Existing
    <3> QED BY <3>1 DEF Fetches
  <2>m. Existing \ ids \in SUBSET LocIds
    BY DEF Existing
  <2> HIDE DEF versions
  <2>4. o \in FullRefreshes /\ o.kind = "refreshAll" /\ o.versions = versions
    BY <2>1, <2>2, <2>3, <2>m DEF FullRefreshes
  <2> HIDE DEF o
  <2>5. o \in Operations
    BY <2>4 DEF Operations
  <2>6. \A d \in Callers \ {c} : op[d] = Idle
    BY <2>1 DEF Apart
  <2>7. \A id \in DOMAIN Listing \cap DOMAIN versions : objects[Listing[id]].version <= versions[id]
    BY <2>3, ListedIsKnown
  <2> QED BY <1>0, <1>1, <2>1, <2>4, <2>5, <2>6, <2>7, AwaitQuiet
<1>9. ASSUME NEW c \in Callers, CancelServed(c) PROVE Apart' /\ Newer' /\ Forward
  <2>1. UnchangedClient /\ op[c].kind = "cancel" /\ \A d \in Callers \ {c} : op[d] = Idle
    BY <1>9 DEF CancelServed, RInv, Pending
  <2>2. \A d \in Callers : op'[d].kind = "idle" \/ op'[d].kind = "cancel"
    <3>1. op[c] \in [kind : {"cancel"}, id : LocIds, on : Handles, registry : Nat, answer : Answers]
      BY <1>0, <2>1 DEF Operations, FullRefreshes, Idle
    <3>2. \A answer : [op[c] EXCEPT !.answer = answer].kind = "cancel"
      BY <3>1
    <3>p. PICK answer : Begin(c, [op[c] EXCEPT !.answer = answer])
      BY <1>9 DEF CancelServed
    <3>3. op'[c].kind = "cancel" /\ \A d \in Callers \ {c} : op'[d] = op[d]
      BY <1>0, <3>2, <3>p DEF Begin
    <3> QED BY <1>0, <2>1, <3>3
  <2> QED BY <1>1, <2>1, <2>2 DEF Apart, Newer
<1>10. ASSUME NEW c \in Callers, RefreshDone(c) PROVE Apart' /\ Newer' /\ Forward
  <2>1. /\ op[c].kind \in {"refresh", "requestLoc"} /\ op[c].version # Absent /\ End(c)
        /\ DOMAIN Listing' = DOMAIN Listing \cup {op[c].id}
        /\ objects'[Listing'[op[c].id]].version = op[c].version
        /\ \A i \in DOMAIN Listing \ {op[c].id} : objects'[Listing'[i]].version = objects[Listing[i]].version
    BY <1>10, RefreshDoneStep
  <2>2. op'[c] = Idle /\ \A d \in Callers \ {c} : op'[d] = op[d]
    BY <1>0, <2>1 DEF End
  <2>3. \A d \in Callers \ {c} : /\ op[d].kind # "refreshAll"
                                 /\ op[d].kind \in {"refresh", "requestLoc"} => op[d].id # op[c].id
    BY <2>1 DEF Apart, Idle
  <2>4. Forward
    BY <1>0, <2>1 DEF Newer
  <2>5. Apart'
    BY <1>0, <2>2, <2>3 DEF Apart
  <2>6. Newer'
    BY <1>0, <2>1, <2>2, <2>3 DEF Newer
  <2> QED BY <2>4, <2>5, <2>6
<1>11. ASSUME NEW c \in Callers, RefreshAllDone(c) PROVE Apart' /\ Newer' /\ Forward
  <2>1. /\ op[c].kind = "refreshAll" /\ op[c].served /\ End(c)
        /\ \/ UnchangedClient
           \/ /\ DOMAIN Listing' = DOMAIN op[c].versions
              /\ \A i \in DOMAIN Listing' : objects'[Listing'[i]].version = op[c].versions[i]
    BY <1>11, RefreshAllDoneStep DEF AllFetched
  <2>2. Forward
    BY <1>1, <2>1 DEF Newer
  <2>3. \A d \in Callers : op'[d] = Idle
    BY <1>0, <2>1 DEF Apart, End
  <2> QED BY <1>0, <2>2, <2>3 DEF Apart, Newer
<1>12. ASSUME NEW c \in Callers, CancelDone(c) PROVE Apart' /\ Newer' /\ Forward
  <2>1. op[c].kind = "cancel" /\ End(c)
    BY <1>12 DEF CancelDone
  <2>2. \A d \in Callers : op'[d] = Idle
    BY <1>0, <2>1 DEF RInv, Pending, End
  <2>3. Forward
    BY <1>0, <1>12, CancelDoneStep DEF RInv, Shape, ListsLive
  <2> QED BY <1>0, <2>2, <2>3 DEF Apart, Newer
<1> QED BY <1>2, <1>3, <1>4, <1>5, <1>6, <1>7, <1>8, <1>9, <1>10, <1>11, <1>12 DEF Next

(* When the client awaits its operations on a LOC, those on the other LOCs *)
(* never bring older data of it back into the registry.                    *)
THEOREM DataGoForward ==
  ASSUME Disciplined, Patient
  PROVE  Spec => ListedDataGoesForward
<1>1. Init => AwaitInv
  BY DEF Init, AwaitInv, Apart, Newer, Idle
<1>2. RInv /\ AwaitInv /\ [Next /\ UNCHANGED client]_vars => AwaitInv'
  <2>1. CASE Next /\ UNCHANGED client
    BY <2>1, AwaitStep DEF AwaitInv
  <2>2. CASE UNCHANGED vars
    BY <2>2 DEF vars, AwaitInv, Apart, Newer, Listing, Last
  <2> QED BY <2>1, <2>2
<1>3. RInv => \A id \in DOMAIN Listing : CurrentObject[Listing[id]] = Listing[id] /\ objects[Listing[id]].version \in Nat
  BY LiveStays, ConstantsAssumption DEF RInv, Shape, ListsLive, Linked, Versions
<1>4. RInv /\ RInv' /\ AwaitInv /\ [Next /\ UNCHANGED client]_vars =>
        [client.awaited =>
           \A id \in DOMAIN ListedLocs \cap DOMAIN ListedLocs' : DataOf(id) <= DataOf(id)']_vars
  <2> SUFFICES ASSUME RInv, RInv', AwaitInv, Next, UNCHANGED client, client.awaited,
                      NEW id \in DOMAIN ListedLocs \cap DOMAIN ListedLocs'
               PROVE  DataOf(id) <= DataOf(id)'
    OBVIOUS
  <2>1. ListedLocs = Listing /\ ListedLocs' = Listing'
    BY ListedIs
  <2>2. objects[Listing[id]].version <= objects'[Listing'[id]].version
    BY <2>1, AwaitStep DEF AwaitInv
  <2>3. DataOf(id) = objects[Listing[id]].version
    BY <1>3, <2>1 DEF DataOf
  <2>4. DataOf(id)' = objects'[Listing'[id]].version
    <3>1. Linked(objects', Last') /\ Last' \in Nat /\ ListsLive'
      BY DEF RInv, Shape, Chained, Last
    <3>2. Solves(objects', CurrentObject')
      BY <3>1, CurrentIsNext
    <3>3. CurrentObject'[Listing'[id]] = Listing'[id]
      BY <2>1, <3>1, <3>2 DEF Solves, ListsLive, Ends
    <3> QED BY <2>1, <3>3 DEF DataOf
  <2> QED BY <2>2, <2>3, <2>4
<1> QED BY <1>1, <1>2, <1>4, RegistryInvariant, PTL DEF Spec, ListedDataGoesForward
=============================================================================
