-------------------------- MODULE LocLifecycleProofs --------------------------
(***************************************************************************)
(* What LocLifecycle promises, for any number of interrupted clients.  The *)
(* classes of the objects are true because the chain only goes forward; no *)
(* object goes back to a request because a LOC that the chain knows is     *)
(* OPEN or CLOSED for the backend, which needs the operations in flight:   *)
(* what opens a LOC, or undoes its opening, is announced while the chain   *)
(* does not know the LOC.                                                  *)
(***************************************************************************)
EXTENDS LocLifecycle, TLAPS

InFlight == {"submitted", "orphan", "undoing"}

(* The chain knows no LOC that the backend does not say OPEN or CLOSED.    *)
LocIsAnnounced == loc # "none" => request \in {"OPEN", "CLOSED"}

(* Only the requester opens, and an opening in flight concerns a LOC that  *)
(* does not exist yet.                                                     *)
OpeningsPrecede ==
  \A u \in Users : op[u].at \in InFlight /\ op[u].name = "open" =>
    u = "requester" /\ loc = "none" /\ request = "OPEN"

(* What closes or voids a LOC concerns one that exists.                    *)
ClosingsFollow ==
  /\ \A u \in Users : op[u].at \in InFlight /\ op[u].name \in {"close", "void"} => loc # "none"
  /\ voided => loc # "none"

(* So does a request that undoes one and that nobody awaits: nothing opens *)
(* the LOC before it has arrived.                                          *)
CancelsPrecede ==
  cancelling =>
    /\ loc = "none" /\ request = "OPEN"
    /\ ~(op["requester"].at \in InFlight /\ op["requester"].name = "open")

LifeInv ==
  /\ ClassIsTrue
  /\ LocIsAnnounced
  /\ OpeningsPrecede
  /\ ClosingsFollow
  /\ OpeningIsPending
  /\ CancelsPrecede

(* Whatever a client or the backend knows of the item, the chain knows.    *)
DatesAreTrue ==
  /\ dates \subseteq recorded
  /\ \A u \in Users : object[u].data.dates \subseteq recorded /\ op[u].read.dates \subseteq recorded

(* The acknowledgements follow the publication, which follows the opening. *)
RecordsAreOrdered ==
  /\ loc = "none" => recorded = {}
  /\ recorded # {} => "published" \in recorded

ItemInv == DatesAreTrue /\ RecordsAreOrdered /\ ReadyIsOnChain

-----------------------------------------------------------------------------
(* Types. *)

(* What a client reads from the backend is a record of the backend.        *)
LEMMA FetchedType == TypeOK => Fetched \in Backend
  BY DEF TypeOK, Fetched

(* An object that is replaced by a well-formed one, or an operation.       *)
LEMMA ObjectType ==
  ASSUME NEW u \in Users, TypeOK,
         NEW class \in Classes, NEW data \in Backend, NEW issuers \in BOOLEAN,
         object' = [object EXCEPT ![u] = [class |-> class, data |-> data, issuers |-> issuers]]
  PROVE  object' \in [Users -> [class : Classes, data : Backend, issuers : BOOLEAN]]
  BY DEF TypeOK

Operations == {"none", "all", "open", "publish", "acknowledge", "close", "void", "issuer"}

Ops == [name : Operations, auto : BOOLEAN, read : Backend,
        at : {"idle", "submitted", "orphan", "undoing", "reading", "read"}]

(* The empty record of the backend, and an idle operation, are well-formed. *)
LEMMA NothingType == Nothing \in Backend
  BY DEF Nothing, Backend, ItemStatuses, Submitters, Facts

LEMMA IdleType == Idle \in Ops
  BY NothingType DEF Idle, Ops, Operations

(* So is an operation that is replaced by a well-formed one, *)
LEMMA OpType ==
  ASSUME NEW u \in Users, TypeOK, NEW o \in Ops, op' = [op EXCEPT ![u] = o]
  PROVE  op' \in [Users -> Ops]
  BY DEF TypeOK, Ops, Operations

(* An operation that ends, starts or goes on stays well-formed. *)
LEMMA EndsType ==
  ASSUME NEW u \in Users, TypeOK, Ends(u)
  PROVE  op' \in [Users -> Ops]
  BY IdleType, OpType DEF Ends

LEMMA CallsType ==
  ASSUME NEW u \in Users, TypeOK, Calls(u)
  PROVE  op' \in [Users -> Ops]
<1>1. [Idle EXCEPT !.at = "reading"] \in Ops
  BY NothingType DEF Idle, Ops, Operations
<1> QED  BY <1>1, OpType DEF Calls

(* or is announced, *)
LEMMA AnnouncesType ==
  ASSUME NEW u \in Users, NEW name \in Operations, NEW auto \in BOOLEAN,
         TypeOK, Announces(u, name, auto)
  PROVE  op' \in [Users -> Ops]
<1>1. [Idle EXCEPT !.name = name, !.at = "submitted", !.auto = auto] \in Ops
  BY NothingType DEF Idle, Ops, Operations
<1> QED  BY <1>1, OpType DEF Announces

(* or goes on. *)
LEMMA AtType ==
  ASSUME NEW u \in Users, TypeOK,
         NEW phase \in {"idle", "submitted", "orphan", "undoing", "reading", "read"}, At(u, phase)
  PROVE  op' \in [Users -> Ops]
<1>1. [op[u] EXCEPT !.at = phase] \in Ops
  BY DEF TypeOK, Ops, Operations
<1>2. op' = [op EXCEPT ![u] = [op[u] EXCEPT !.at = phase]]
  BY DEF At
<1> QED  BY <1>1, <1>2, OpType

(* The classes that createFromRequest and refreshLoc give. *)
LEMMA ClassType ==
  /\ \A status \in {"DRAFT", "REVIEW_PENDING", "REVIEW_ACCEPTED", "REVIEW_REJECTED"} :
       RequestClass(status) \in Requests
  /\ \A data : LocClass(data) \in {"OpenLoc", "ClosedLoc", "VoidedLoc"}
  /\ Requests \subseteq Classes /\ {"OpenLoc", "ClosedLoc", "VoidedLoc"} \subseteq Classes
  BY DEF RequestClass, LocClass, Requests, Classes

(* The four parts of the type invariant that steps disturb. *)
BackendOK == [request |-> request, item |-> item, submitter |-> submitter, dates |-> dates] \in Backend
ChainOK == /\ loc \in {"none", "open", "closed"} /\ voided \in BOOLEAN
           /\ recorded \subseteq Facts /\ issuer \in {"never", "selected", "unselected"}
ObjectsOK == object \in [Users -> [class : Classes, data : Backend, issuers : BOOLEAN]]
OpsOK == op \in [Users -> Ops]

(* The parts make the invariant, before and after a step. *)
LEMMA TypeParts ==
  /\ TypeOK <=> BackendOK /\ ChainOK /\ ObjectsOK /\ OpsOK /\ cancelling \in BOOLEAN /\ faults \subseteq Users \union {"early"}
  /\ TypeOK' <=> BackendOK' /\ ChainOK' /\ ObjectsOK' /\ OpsOK' /\ cancelling' \in BOOLEAN /\ faults' \subseteq Users \union {"early"}
  BY DEF TypeOK, BackendOK, ChainOK, ObjectsOK, OpsOK, Ops, Operations

(* Before the LOC is requested, no client does anything. *)
NothingYet == request = "none" => \A u \in Users : op[u].at = "idle" /\ object[u].class = "none"

(* What a client has submitted is an extrinsic. *)
Extrinsics == {"open", "publish", "acknowledge", "close", "void", "issuer"}

Named == \A u \in Users : op[u].at \in InFlight => op[u].name \in Extrinsics

(* What a client reads: a LOC, nothing, or a request. *)
IsRead(u) ==
  /\ request \in {"OPEN", "CLOSED"}
  /\ op' = [op EXCEPT ![u].at = "read", ![u].read = Fetched]
  /\ UNCHANGED object

IsMissing(u) ==
  /\ request = "cancelled" \/ op[u].name = "all"
  /\ Ends(u)
  /\ object' = IF op[u].name = "all" THEN [object EXCEPT ![u] = NoObject] ELSE object

IsRequest(u) ==
  /\ request \notin {"OPEN", "CLOSED", "cancelled"}
  /\ Ends(u)
  /\ object' = [object EXCEPT ![u] = [class |-> RequestClass(request), data |-> Fetched, issuers |-> FALSE]]

LEMMA ReadingKinds == \A u \in Users : ReadRequest(u) => IsRead(u) \/ IsMissing(u) \/ IsRequest(u)
  BY DEF ReadRequest, IsRead, IsMissing, IsRequest

(* No step leaves the types. *)
LEMMA TypeStep == TypeOK /\ NothingYet /\ Named /\ [Next]_vars => TypeOK'
<1> SUFFICES ASSUME TypeOK, NothingYet, Named, [Next]_vars PROVE TypeOK'
  OBVIOUS
<1> USE TypeParts
<1>u. "requester" \in Users /\ "officer" \in Users
  BY DEF Users
<1>n. NoObject \in [class : Classes, data : Backend, issuers : BOOLEAN]
  BY NothingType DEF NoObject, Classes
<1>1. CASE RequestLoc
  <2>1. request' \in {"DRAFT", "REVIEW_PENDING"} /\ RequestClass(request') \in Classes
    BY <1>1, ClassType DEF RequestLoc
  <2>2. [Fetched EXCEPT !.request = request'] \in Backend
    BY <2>1 DEF TypeOK, Fetched, Backend, RequestStatuses
  <2>3. ObjectsOK'
    BY <1>1, <1>u, <2>1, <2>2, ObjectType DEF RequestLoc, ObjectsOK
  <2> QED  BY <1>1, <2>1, <2>3 DEF RequestLoc, BackendOK, ChainOK, OpsOK, Backend, RequestStatuses, chain
<1>2. CASE Submit \/ Rework \/ RejectLoc \/ AcceptLoc \/ ReviewItem
  <2>1. OpsOK'
    BY <1>2, <1>u, CallsType DEF Submit, Rework, RejectLoc, AcceptLoc, ReviewItem, OpsOK
  <2> QED  BY <1>2, <2>1 DEF Submit, Rework, RejectLoc, AcceptLoc, ReviewItem, Calls, BackendOK, ChainOK,
                ObjectsOK, Backend, RequestStatuses, ItemStatuses, chain
<1>3. CASE Cancel
  BY <1>3, <1>n DEF Cancel, BackendOK, ChainOK, ObjectsOK, OpsOK, Backend, chain
<1>4. ASSUME NEW who \in Submitters, AddItem(who) \/ DeleteItem(who) \/ RequestItemReview(who)
      PROVE  TypeOK'
  <2>1. OpsOK' /\ UNCHANGED <<chain, object, cancelling, faults>>
    BY <1>4, <1>u, CallsType DEF AddItem, DeleteItem, RequestItemReview, Edits, RequesterEdits, IssuerEdits, Calls, OpsOK
  <2> QED  BY <1>4, <2>1 DEF AddItem, DeleteItem, RequestItemReview, BackendOK, ChainOK, ObjectsOK,
                Backend, ItemStatuses, chain
<1>5. CASE PublishItem \/ VoidLoc \/ \E auto \in BOOLEAN : Open(auto) \/ Close(auto) \/ SetIssuerSelection(auto)
  <2>1. OpsOK' /\ UNCHANGED <<chain, object, cancelling, faults>>
    BY <1>5, <1>u, AnnouncesType DEF PublishItem, VoidLoc, Open, Close, SetIssuerSelection, Announces, OpsOK, Operations
  <2> QED  BY <1>5, <2>1 DEF PublishItem, VoidLoc, Open, Close, SetIssuerSelection, BackendOK, ChainOK, ObjectsOK,
                Backend, RequestStatuses, ItemStatuses, chain, backend
<1>6. CASE AcknowledgeItem
  <2>1. [Idle EXCEPT !.name = "acknowledge", !.at = "submitted"] \in Ops
    BY NothingType DEF Idle, Ops, Operations
  <2>2. OpsOK'
    <3>1. op' = [op EXCEPT !["officer"] = [Idle EXCEPT !.name = "acknowledge", !.at = "submitted"]]
      BY <1>6 DEF AcknowledgeItem
    <3> QED  BY <1>u, <2>1, <3>1, OpType DEF OpsOK
  <2> QED  BY <1>6, <2>2 DEF AcknowledgeItem, BackendOK, ChainOK, ObjectsOK, Backend, ItemStatuses, chain
<1>7. CASE IssuerAcknowledgesItem
  BY <1>7 DEF IssuerAcknowledgesItem, BackendOK, ChainOK, ObjectsOK, OpsOK, backend, Facts
<1>8. ASSUME NEW u \in Users, Include(u)
      PROVE  TypeOK'
  <2>1. [Idle EXCEPT !.at = "reading"] \in Ops
    BY NothingType DEF Idle, Ops, Operations
  <2>2. OpsOK'
    <3>1. CASE Ends(u)
      BY <3>1, EndsType DEF OpsOK
    <3>2. CASE op' = [op EXCEPT ![u] = [Idle EXCEPT !.at = "reading"]]
      BY <3>2, <2>1, OpType DEF OpsOK
    <3> QED  BY <1>8, <3>1, <3>2 DEF Include
  <2>3. ChainOK'
    <3>1. op[u].name \in Extrinsics
      BY <1>8 DEF Include, Named, InFlight
    <3> QED  BY <1>8, <3>1 DEF Include, Effect, Opened, Closed, ChainOK, Facts, Extrinsics
  <2> QED  BY <1>8, <2>2, <2>3 DEF Include, BackendOK, ObjectsOK, backend
<1>9. ASSUME NEW u \in Users, Refuse(u) \/ Undo(u)
      PROVE  TypeOK'
  <2>1. OpsOK'
    BY <1>9, AtType, EndsType DEF Refuse, Undo, OpsOK
  <2>2. BackendOK'
    BY <1>9 DEF Refuse, Undo, OpenUndone, CloseUndone, Retracted, BackendOK, Backend, RequestStatuses, ItemStatuses, backend
  <2> QED  BY <1>9, <2>1, <2>2 DEF Refuse, Undo, ChainOK, ObjectsOK, chain
<1>10. CASE Follow
  BY <1>10 DEF Follow, BackendOK, ChainOK, ObjectsOK, OpsOK, Backend, chain
<1>11. ASSUME NEW u \in Users, Refresh(u)
       PROVE  TypeOK'
  BY <1>11, CallsType DEF Refresh, Calls, BackendOK, ChainOK, ObjectsOK, OpsOK, backend, chain
<1>12. ASSUME NEW u \in Users, RefreshAll(u)
       PROVE  TypeOK'
  <2>1. [Idle EXCEPT !.name = "all", !.at = "reading"] \in Ops
    BY NothingType DEF Idle, Ops, Operations
  <2>2. OpsOK'
    <3>1. op' = [op EXCEPT ![u] = [Idle EXCEPT !.name = "all", !.at = "reading"]]
      BY <1>12 DEF RefreshAll
    <3> QED  BY <2>1, <3>1, OpType DEF OpsOK
  <2> QED  BY <1>12, <2>2 DEF RefreshAll, BackendOK, ChainOK, ObjectsOK, backend, chain
<1>13. ASSUME NEW u \in Users, ReadRequest(u)
       PROVE  TypeOK'
  <2> USE <1>13
  <2>1. [op[u] EXCEPT !.at = "read", !.read = Fetched] \in Ops
    <3>1. op[u] \in Ops
      BY DEF OpsOK
    <3> QED  BY <3>1, FetchedType DEF Ops
  <2>2. CASE IsRead(u)
    <3>1. op' = [op EXCEPT ![u] = [op[u] EXCEPT !.at = "read", !.read = Fetched]] /\ UNCHANGED object
      BY <2>2 DEF IsRead
    <3>2. OpsOK'
      BY <3>1, <2>1, OpType DEF OpsOK
    <3> QED  BY <3>1, <3>2 DEF ReadRequest, BackendOK, ChainOK, ObjectsOK, backend, chain
  <2>3. CASE IsMissing(u)
    BY <2>3, <1>n, EndsType DEF ReadRequest, IsMissing, OpsOK, BackendOK, ChainOK, ObjectsOK, backend, chain
  <2>4. CASE IsRequest(u)
    <3>1. /\ Ends(u)
          /\ object' = [object EXCEPT ![u] = [class |-> RequestClass(request), data |-> Fetched, issuers |-> FALSE]]
      BY <2>4 DEF IsRequest
    <3>2. RequestClass(request) \in Classes
      BY <2>4, ClassType DEF ReadRequest, IsRequest, NothingYet, BackendOK, Backend, RequestStatuses
    <3>3. ObjectsOK'
      BY <3>1, <3>2, FetchedType, ObjectType DEF ObjectsOK
    <3> QED  BY <3>1, <3>3, EndsType DEF ReadRequest, OpsOK, BackendOK, ChainOK, backend, chain
  <2> QED  BY <2>2, <2>3, <2>4, ReadingKinds
<1>14. ASSUME NEW u \in Users, ReadChain(u)
       PROVE  TypeOK'
  <2> USE <1>14
  <2>1. ASSUME loc # "none" PROVE ObjectsOK'
    <3>1. /\ op[u].read \in Backend /\ LocClass(op[u].read) \in Classes /\ Issuers \in BOOLEAN
      BY ClassType DEF OpsOK, Ops, Issuers
    <3>2. object' = [object EXCEPT ![u] = [class |-> LocClass(op[u].read), data |-> op[u].read, issuers |-> Issuers]]
      BY <2>1 DEF ReadChain
    <3> QED  BY <3>1, <3>2, ObjectType DEF ObjectsOK
  <2>2. ASSUME loc = "none" PROVE ObjectsOK'
    BY <2>2, <1>n DEF ReadChain, ObjectsOK
  <2> QED  BY <2>1, <2>2, EndsType DEF ReadChain, OpsOK, BackendOK, ChainOK, backend, chain
<1>15. ASSUME NEW u \in Users, Interrupt(u)
       PROVE  TypeOK'
  BY <1>15, AtType, EndsType DEF Interrupt, OpsOK, BackendOK, ChainOK, ObjectsOK, backend, chain
<1>16. CASE UNCHANGED vars
  BY <1>16 DEF vars, backend, chain, BackendOK, ChainOK, ObjectsOK, OpsOK
<1>17. CASE UndoUnawaited \/ CancelOpen \/ CancelOpenFails
  <2>1. OpsOK'
    BY <1>u, <1>17, EndsType DEF UndoUnawaited, CancelOpen, CancelOpenFails, OpsOK
  <2>2. BackendOK'
    BY <1>17 DEF UndoUnawaited, CancelOpen, CancelOpenFails, OpenUndone, BackendOK, Backend, RequestStatuses,
       ItemStatuses, backend
  <2> QED  BY <1>u, <1>17, <2>1, <2>2 DEF UndoUnawaited, CancelOpen, CancelOpenFails, ChainOK, ObjectsOK, chain
<1> QED
  BY <1>1, <1>2, <1>3, <1>4, <1>5, <1>6, <1>7, <1>8, <1>9, <1>10, <1>11, <1>12, <1>13, <1>14, <1>15, <1>16,
     <1>17 DEF Next

(* Nor does any step make a request disappear. *)
LEMMA NothingYetStep == TypeOK /\ NothingYet /\ [Next]_vars => NothingYet'
<1> SUFFICES ASSUME TypeOK, NothingYet, [Next]_vars, request' = "none"
             PROVE  request = "none" /\ UNCHANGED <<op, object>>
  BY DEF NothingYet
<1>1. request = "none"
  BY DEF Next, vars, backend, RequestLoc, Submit, Rework, Cancel, AddItem, DeleteItem, RequestItemReview,
    ReviewItem, RejectLoc, AcceptLoc, PublishItem, AcknowledgeItem, IssuerAcknowledgesItem, VoidLoc, Open,
    Close, SetIssuerSelection, Include, Refuse, Undo, OpenUndone, CloseUndone, Retracted, UndoUnawaited,
    CancelOpen, CancelOpenFails, Follow, Refresh, RefreshAll, ReadRequest, ReadChain, Interrupt
<1>2. \A u \in Users : op[u].at = "idle" /\ object[u].class = "none"
  BY <1>1 DEF NothingYet
<1>3. ~RequestLoc /\ ~Submit /\ ~Rework /\ ~Cancel /\ ~ReviewItem /\ ~RejectLoc /\ ~AcceptLoc
  BY <1>1 DEF RequestLoc, Submit, Rework, Cancel, ReviewItem, RejectLoc, AcceptLoc
<1>4. \A who \in Submitters : ~AddItem(who) /\ ~DeleteItem(who) /\ ~RequestItemReview(who)
  BY <1>1 DEF AddItem, DeleteItem, RequestItemReview, Edits, RequesterEdits, IssuerEdits
<1>5. ~PublishItem /\ ~AcknowledgeItem /\ ~IssuerAcknowledgesItem /\ \A auto \in BOOLEAN : ~Open(auto) /\ ~Close(auto)
  BY <1>1 DEF PublishItem, AcknowledgeItem, IssuerAcknowledgesItem, Open, Close
<1>6. ~VoidLoc /\ \A auto \in BOOLEAN : ~SetIssuerSelection(auto)
  BY <1>2 DEF VoidLoc, SetIssuerSelection, Class, Users
<1>7. \A u \in Users : ~Include(u) /\ ~Refuse(u) /\ ~Undo(u) /\ ~ReadRequest(u) /\ ~ReadChain(u) /\ ~Interrupt(u)
  BY <1>2 DEF Include, Refuse, Undo, ReadRequest, ReadChain, Interrupt
<1>8. \A u \in Users : ~Refresh(u) /\ ~RefreshAll(u)
  BY <1>1, <1>2 DEF Refresh, RefreshAll, Class
<1>9. CASE CancelOpen \/ CancelOpenFails \/ Follow \/ UNCHANGED vars
  BY <1>1, <1>9 DEF CancelOpen, CancelOpenFails, Follow, vars
<1>10. ~UndoUnawaited
  BY <1>2 DEF UndoUnawaited, Users
<1> QED  BY <1>10, <1>3, <1>4, <1>5, <1>6, <1>7, <1>8, <1>9 DEF Next

(* What an extrinsic is submitted for depends on what the client sees.     *)
Begins(u, name) ==
  /\ name = "open" => u = "requester" /\ request = "REVIEW_ACCEPTED" /\ request' = "OPEN"
  /\ name = "close" => CanClose(object["officer"], op'[u].auto) /\ u = "officer"
  /\ name \in {"close", "void"} => object["officer"].class \in {"OpenLoc", "ClosedLoc"}
  /\ UNCHANGED <<chain, object>>

(* How the operation of a client changes in a step: it is left alone,      *)
(* submits something, fails under its name, or leaves what it was doing.   *)
OpMoves(u) ==
  \/ op'[u] = op[u]
  \/ op[u].at = "idle" /\ op'[u].at = "submitted" /\ op'[u].name \in Extrinsics /\ Begins(u, op'[u].name)
  \/ /\ op[u].at = "submitted" /\ op'[u].at \in {"undoing", "orphan"}
     /\ op'[u].at = "orphan" => u \in faults'
     /\ op'[u].name = op[u].name /\ op'[u].auto = op[u].auto
  \/ /\ op'[u].at \notin InFlight
     /\ op[u].at \in {"submitted", "undoing"} =>
          Include(u) \/ Undo(u) \/ (u = "requester" /\ UndoUnawaited) \/ u \in faults'

(* Every step is one of these for every client. *)
LEMMA OpStep ==
  ASSUME TypeOK, [Next]_vars, NEW u \in Users
  PROVE  OpMoves(u)
<1>t. op \in [Users -> Ops]
  BY TypeParts DEF OpsOK
<1>i. Idle.at = "idle" /\ [Idle EXCEPT !.at = "reading"].at = "reading"
  BY DEF Idle
<1>e. \A v \in Users : Ends(v) /\ (op[v].at \in {"submitted", "undoing"} =>
                                       Include(v) \/ Undo(v) \/ (v = "requester" /\ UndoUnawaited) \/ v \in faults')
                      => OpMoves(u)
  BY <1>t, <1>i DEF Ends, OpMoves, InFlight
<1>c. \A v \in Users : Calls(v) => OpMoves(u)
  BY <1>t, <1>i DEF Calls, OpMoves, InFlight
<1>a. \A v \in Users, name \in Extrinsics, auto \in BOOLEAN :
        Announces(v, name, auto) /\ (op'[v].auto = auto => Begins(v, name)) => OpMoves(u)
  BY <1>t DEF Announces, OpMoves, Idle
<1>1. UNCHANGED op => OpMoves(u)
  BY DEF OpMoves
<1>u. {"requester", "officer"} = Users
  BY DEF Users
<1>2. CASE Submit \/ Rework \/ ReviewItem \/ RejectLoc \/ AcceptLoc
  BY <1>2, <1>c, <1>u DEF Submit, Rework, ReviewItem, RejectLoc, AcceptLoc
<1>3. CASE RequestLoc \/ Cancel \/ IssuerAcknowledgesItem \/ CancelOpen \/ CancelOpenFails \/ Follow \/ UNCHANGED vars
  BY <1>3, <1>1 DEF RequestLoc, Cancel, IssuerAcknowledgesItem, CancelOpen, CancelOpenFails, Follow, vars
<1>4. ASSUME NEW who \in Submitters, AddItem(who) \/ DeleteItem(who) \/ RequestItemReview(who)
      PROVE  OpMoves(u)
  BY <1>4, <1>c, <1>1, <1>u DEF AddItem, DeleteItem, RequestItemReview, Edits, RequesterEdits, IssuerEdits
<1>5. CASE PublishItem \/ VoidLoc
  BY <1>5, <1>a, <1>u DEF PublishItem, VoidLoc, Announces, Begins, Class, Extrinsics
<1>6. ASSUME NEW auto \in BOOLEAN, Open(auto) \/ Close(auto) \/ SetIssuerSelection(auto)
      PROVE  OpMoves(u)
  <2>1. CASE Open(auto)
    BY <2>1, <1>a, <1>u DEF Open, Announces, Begins, Extrinsics
  <2>2. CASE Close(auto)
    BY <2>2, <1>a, <1>u DEF Close, Announces, Begins, Class, Extrinsics
  <2>3. CASE SetIssuerSelection(auto)
    BY <2>3, <1>a, <1>u DEF SetIssuerSelection, Announces, Begins, Extrinsics
  <2> QED  BY <1>6, <2>1, <2>2, <2>3
<1>7. CASE AcknowledgeItem
  <2>1. op' = [op EXCEPT !["officer"] = [Idle EXCEPT !.name = "acknowledge", !.at = "submitted"]]
    BY <1>7 DEF AcknowledgeItem
  <2>2. op["officer"].at = "idle"
    BY <1>7 DEF AcknowledgeItem
  <2>3. CASE u = "officer"
    BY <1>7, <2>1, <2>2, <2>3, <1>t, <1>u DEF AcknowledgeItem, OpMoves, Idle, Extrinsics, InFlight, Begins
  <2> QED  BY <1>t, <2>1, <2>3 DEF OpMoves
<1>8. ASSUME NEW v \in Users, Include(v) \/ Undo(v)
      PROVE  OpMoves(u)
  <2>1. CASE Include(v)
    <3>1. CASE Ends(v)
      BY <2>1, <3>1, <1>e
    <3>2. CASE op' = [op EXCEPT ![v] = [Idle EXCEPT !.at = "reading"]]
      BY <2>1, <3>2, <1>t, <1>i DEF OpMoves, InFlight
    <3> QED  BY <2>1, <3>1, <3>2 DEF Include
  <2>2. CASE Undo(v)
    BY <2>2, <1>e DEF Undo
  <2> QED  BY <1>8, <2>1, <2>2
<1>9. ASSUME NEW v \in Users, Refuse(v) \/ Interrupt(v)
      PROVE  OpMoves(u)
  <2>1. CASE Ends(v) /\ (op[v].at \in {"submitted", "undoing"} => v \in faults')
    BY <2>1, <1>e
  <2>2. ASSUME NEW phase \in {"undoing", "orphan"}, op[v].at = "submitted", At(v, phase), phase = "orphan" => v \in faults'
        PROVE  OpMoves(u)
    BY <2>2, <1>t DEF At, OpMoves, Ops
  <2>3. CASE Refuse(v)
    BY <2>1, <2>2, <2>3 DEF Refuse
  <2>4. CASE Interrupt(v)
    BY <2>1, <2>2, <2>4 DEF Interrupt
  <2> QED  BY <1>9, <2>3, <2>4
<1>10. ASSUME NEW v \in Users, Refresh(v) \/ RefreshAll(v) \/ ReadRequest(v) \/ ReadChain(v)
      PROVE  OpMoves(u)
  <2>1. CASE Refresh(v) \/ ReadChain(v)
    BY <2>1, <1>c, <1>e DEF Refresh, ReadChain
  <2>2. CASE RefreshAll(v)
    BY <2>2, <1>t DEF RefreshAll, OpMoves, InFlight, Idle
  <2>3. CASE ReadRequest(v)
    <3>1. CASE IsRead(v)
      BY <2>3, <3>1, <1>t DEF ReadRequest, IsRead, OpMoves, InFlight, Ops
    <3>2. CASE IsMissing(v) \/ IsRequest(v)
      BY <2>3, <3>2, <1>e DEF ReadRequest, IsMissing, IsRequest
    <3> QED  BY <2>3, <3>1, <3>2, ReadingKinds
  <2> QED  BY <1>10, <2>1, <2>2, <2>3
<1>11. CASE UndoUnawaited
  BY <1>11, <1>e, <1>u DEF UndoUnawaited
<1> QED  BY <1>2, <1>3, <1>4, <1>5, <1>6, <1>7, <1>8, <1>9, <1>10, <1>11 DEF Next

(* So what is submitted stays an extrinsic. *)
LEMMA NamedStep == TypeOK /\ Named /\ [Next]_vars => Named'
<1> SUFFICES ASSUME TypeOK, Named, [Next]_vars, NEW u \in Users, op'[u].at \in InFlight
             PROVE  op'[u].name \in Extrinsics
  BY DEF Named
<1> QED  BY OpStep DEF OpMoves, Named, InFlight

(* Every variable keeps its type, nothing precedes the request and what is *)
(* submitted is an extrinsic.                                              *)
WellFormed == TypeOK /\ NothingYet /\ Named

(* In every state a behaviour of LocLifecycle reaches. *)
THEOREM TypeCorrect == Spec => []WellFormed
<1>1. Init => TypeOK
  <2> SUFFICES ASSUME Init PROVE TypeOK
    OBVIOUS
  <2>1. BackendOK /\ ChainOK
    BY DEF Init, BackendOK, ChainOK, Backend, RequestStatuses, ItemStatuses, Submitters, Facts
  <2>2. NoObject \in [class : Classes, data : Backend, issuers : BOOLEAN]
    BY NothingType DEF NoObject, Classes
  <2> QED  BY <2>1, <2>2, IdleType, TypeParts DEF Init, ObjectsOK, OpsOK
<1>2. Init => NothingYet /\ Named
  BY DEF Init, NothingYet, Named, Idle, NoObject, InFlight
<1> QED  BY <1>1, <1>2, TypeStep, NothingYetStep, NamedStep, PTL DEF Spec, WellFormed

-----------------------------------------------------------------------------
(* What a step does to each part of the state. *)

(* The chain moves when it includes an extrinsic, and when an issuer       *)
(* acknowledges.                                                           *)
LEMMA ChainStep ==
  ASSUME [Next]_vars
  PROVE  \/ UNCHANGED chain
         \/ \E u \in Users : Include(u)
         \/ IssuerAcknowledgesItem
<1>1. CASE \E who \in Submitters : AddItem(who) \/ DeleteItem(who) \/ RequestItemReview(who)
  BY <1>1 DEF AddItem, DeleteItem, RequestItemReview, Edits, RequesterEdits, IssuerEdits, Calls
<1>2. CASE RequestLoc \/ Submit \/ Rework \/ Cancel \/ ReviewItem \/ RejectLoc \/ AcceptLoc
  BY <1>2 DEF RequestLoc, Submit, Rework, Cancel, ReviewItem, RejectLoc, AcceptLoc, Calls
<1>3. CASE PublishItem \/ AcknowledgeItem \/ VoidLoc \/ \E auto \in BOOLEAN : Open(auto) \/ Close(auto) \/ SetIssuerSelection(auto)
  BY <1>3 DEF PublishItem, AcknowledgeItem, VoidLoc, Open, Close, SetIssuerSelection, Announces
<1>4. CASE \E u \in Users : Refuse(u) \/ Undo(u) \/ Refresh(u) \/ RefreshAll(u) \/ ReadRequest(u) \/ ReadChain(u) \/ Interrupt(u)
  BY <1>4 DEF Refuse, Undo, Refresh, RefreshAll, ReadRequest, ReadChain, Interrupt, Calls
<1>5. CASE UndoUnawaited \/ CancelOpen \/ CancelOpenFails \/ Follow \/ UNCHANGED vars
  BY <1>5 DEF UndoUnawaited, CancelOpen, CancelOpenFails, Follow, vars
<1> QED  BY <1>1, <1>2, <1>3, <1>4, <1>5 DEF Next

(* It goes forward. *)
LEMMA ChainForward ==
  ASSUME WellFormed, [Next]_vars
  PROVE  /\ loc' = loc \/ (loc = "none" /\ loc' = "open") \/ (loc = "open" /\ loc' = "closed")
         /\ voided => voided'
         /\ loc = "none" /\ loc' # "none" => \E u \in Users : Include(u) /\ op[u].at \in InFlight /\ op[u].name = "open"
         /\ ~voided /\ voided' => \E u \in Users : Include(u) /\ op[u].at \in InFlight /\ op[u].name = "void"
<1>1. ASSUME NEW u \in Users, Include(u)
      PROVE  /\ op[u].at \in InFlight /\ op[u].name \in Extrinsics
             /\ loc' = loc \/ (loc = "none" /\ loc' = "open" /\ op[u].name = "open") \/ (loc = "open" /\ loc' = "closed")
             /\ voided' = voided \/ (op[u].name = "void" /\ voided')
  <2>1. op[u].at \in InFlight /\ op[u].name \in Extrinsics
    BY <1>1 DEF Include, InFlight, WellFormed, Named
  <2> QED  BY <1>1, <2>1 DEF Include, Effect, Opened, Closed, Extrinsics
<1> QED  BY <1>1, ChainStep DEF chain, IssuerAcknowledgesItem

(* How the object of a client changes. *)
ObjectMoves(u) ==
  \/ object'[u] = object[u]
  \/ /\ op'[u].at = "idle"
     /\ \/ object'[u] = NoObject
        \/ object'[u].class \in Requests /\ request \notin {"OPEN", "CLOSED"} /\ object'[u].data.dates = dates
        \/ loc # "none" /\ object'[u].class = LocClass(op[u].read) /\ object'[u].data = op[u].read
  
(* Every step is one of these for every client. *)
LEMMA ObjectStep ==
  ASSUME WellFormed, [Next]_vars, NEW u \in Users
  PROVE  ObjectMoves(u)
<1>o. object \in [Users -> [class : Classes, data : Backend, issuers : BOOLEAN]] /\ op \in [Users -> Ops]
  BY TypeParts DEF WellFormed, ObjectsOK, OpsOK
<1>0. UNCHANGED object => ObjectMoves(u)
  BY DEF ObjectMoves
<1>1. CASE \E who \in Submitters : AddItem(who) \/ DeleteItem(who) \/ RequestItemReview(who)
  BY <1>0, <1>1 DEF AddItem, DeleteItem, RequestItemReview, Edits, RequesterEdits, IssuerEdits, Calls
<1>2. CASE Submit \/ Rework \/ ReviewItem \/ RejectLoc \/ AcceptLoc
  BY <1>0, <1>2 DEF Submit, Rework, ReviewItem, RejectLoc, AcceptLoc, Calls
<1>3. CASE PublishItem \/ AcknowledgeItem \/ IssuerAcknowledgesItem \/ VoidLoc
           \/ \E auto \in BOOLEAN : Open(auto) \/ Close(auto) \/ SetIssuerSelection(auto)
  BY <1>0, <1>3 DEF PublishItem, AcknowledgeItem, IssuerAcknowledgesItem, VoidLoc, Open, Close, SetIssuerSelection, Announces
<1>4. CASE UndoUnawaited \/ CancelOpen \/ CancelOpenFails \/ Follow \/ UNCHANGED vars
           \/ \E v \in Users : Include(v) \/ Refuse(v) \/ Undo(v) \/ Refresh(v) \/ RefreshAll(v) \/ Interrupt(v)
  BY <1>0, <1>4 DEF UndoUnawaited, CancelOpen, CancelOpenFails, Follow, vars, Include, Refuse, Undo, Refresh, RefreshAll, Interrupt, Calls
<1>5. CASE RequestLoc
  <2>1. /\ object' = [object EXCEPT !["requester"] = [class |-> RequestClass(request'), issuers |-> FALSE,
                                                       data |-> [Fetched EXCEPT !.request = request']]]
        /\ op'["requester"].at = "idle" /\ request = "none" /\ RequestClass(request') \in Requests
    BY <1>5, ClassType DEF RequestLoc, WellFormed, NothingYet, Users
  <2>2. [Fetched EXCEPT !.request = request'].dates = dates
    BY DEF Fetched
  <2> QED  BY <1>o, <2>1, <2>2 DEF ObjectMoves
<1>6. CASE Cancel
  BY <1>o, <1>6 DEF Cancel, ObjectMoves
<1>7. ASSUME NEW v \in Users, ReadRequest(v)
      PROVE  ObjectMoves(u)
  <2>1. CASE IsRead(v)
    BY <1>0, <1>7, <2>1 DEF IsRead
  <2>2. CASE IsMissing(v) \/ IsRequest(v)
    <3>1. op' = [op EXCEPT ![v] = Idle] /\ op'[v].at = "idle"
      BY <1>o, <2>2 DEF IsMissing, IsRequest, Ends, Idle
    <3>2. CASE IsMissing(v)
      BY <1>o, <1>7, <3>1, <3>2 DEF IsMissing, ObjectMoves
    <3>3. CASE IsRequest(v)
      <4>1. RequestClass(request) \in Requests
        BY <1>7, <3>3, ClassType, TypeParts DEF ReadRequest, IsRequest, WellFormed, NothingYet, BackendOK, Backend, RequestStatuses
      <4>2. object' = [object EXCEPT ![v] = [class |-> RequestClass(request), data |-> Fetched, issuers |-> FALSE]]
        BY <3>3 DEF IsRequest
      <4>3. request \notin {"OPEN", "CLOSED"}
        BY <3>3 DEF IsRequest
      <4> QED  BY <1>o, <3>1, <4>1, <4>2, <4>3 DEF ObjectMoves, Fetched
    <3> QED  BY <2>2, <3>2, <3>3
  <2> QED  BY <1>7, <2>1, <2>2, ReadingKinds
<1>8. ASSUME NEW v \in Users, ReadChain(v)
      PROVE  ObjectMoves(u)
  <2>1. op' = [op EXCEPT ![v] = Idle] /\ op'[v].at = "idle"
    BY <1>o, <1>8 DEF ReadChain, Ends, Idle
  <2>2. CASE loc # "none"
    <3>1. object' = [object EXCEPT ![v] = [class |-> LocClass(op[v].read), data |-> op[v].read, issuers |-> Issuers]]
      BY <1>8, <2>2 DEF ReadChain
    <3> QED  BY <1>o, <2>1, <2>2, <3>1 DEF ObjectMoves
  <2>3. CASE loc = "none"
    BY <1>o, <1>8, <2>1, <2>3 DEF ReadChain, ObjectMoves
  <2> QED  BY <2>2, <2>3
<1> QED  BY <1>1, <1>2, <1>3, <1>4, <1>5, <1>6, <1>7, <1>8 DEF Next

(* How the status of the LOC changes. *)
RequestMoves ==
  \/ request' = request
  \/ request \notin {"OPEN", "CLOSED"} /\ request' \notin {"OPEN", "CLOSED"}
  \/ request \notin {"OPEN", "CLOSED"} /\ request' = "OPEN" /\ op'["requester"].name = "open" /\ op'["requester"].at = "submitted"
  \/ request = "OPEN" /\ request' = "CLOSED" /\ object["officer"].class = "OpenLoc"
  \/ /\ UNCHANGED chain
     /\ \E u \in Users : /\ op[u].at = "undoing" /\ op'[u].at = "idle"
                        /\ \/ op[u].name = "open"
                           \/ op[u].name = "close" /\ request' = "OPEN"
  \/ UNCHANGED chain /\ cancelling /\ ~cancelling' /\ request' = "REVIEW_ACCEPTED"

(* Every step is one of these. *)
LEMMA RequestStep ==
  ASSUME WellFormed, [Next]_vars
  PROVE  RequestMoves
<1>o. op \in [Users -> Ops]
  BY TypeParts DEF WellFormed, OpsOK
<1>0. UNCHANGED request => RequestMoves
  BY DEF RequestMoves
<1>1. CASE RequestLoc \/ Submit \/ Rework \/ Cancel \/ RejectLoc \/ AcceptLoc
  BY <1>1 DEF RequestLoc, Submit, Rework, Cancel, RejectLoc, AcceptLoc, RequestMoves
<1>2. CASE ReviewItem \/ \E who \in Submitters : AddItem(who) \/ DeleteItem(who) \/ RequestItemReview(who)
  BY <1>0, <1>2 DEF ReviewItem, AddItem, DeleteItem, RequestItemReview
<1>3. CASE PublishItem \/ AcknowledgeItem \/ IssuerAcknowledgesItem \/ VoidLoc \/ \E auto \in BOOLEAN : SetIssuerSelection(auto)
  BY <1>0, <1>3 DEF PublishItem, AcknowledgeItem, IssuerAcknowledgesItem, VoidLoc, SetIssuerSelection, backend
<1>4. CASE UndoUnawaited \/ CancelOpenFails \/ Follow \/ UNCHANGED vars
           \/ \E v \in Users : Include(v) \/ Refuse(v) \/ Refresh(v) \/ RefreshAll(v)
                             \/ ReadRequest(v) \/ ReadChain(v) \/ Interrupt(v)
  BY <1>0, <1>4 DEF UndoUnawaited, CancelOpenFails, Follow, vars, Include, Refuse, Refresh, RefreshAll, ReadRequest, ReadChain, Interrupt, backend
<1>5. ASSUME NEW auto \in BOOLEAN, Open(auto)
      PROVE  RequestMoves
  <2>1. op'["requester"] = [Idle EXCEPT !.name = "open", !.at = "submitted", !.auto = auto]
    BY <1>o, <1>5 DEF Open, Announces, Users
  <2> QED  BY <1>5, <2>1 DEF Open, RequestMoves, Idle
<1>6. ASSUME NEW auto \in BOOLEAN, Close(auto)
      PROVE  RequestMoves
  BY <1>6 DEF Close, Class, RequestMoves
<1>7. ASSUME NEW u \in Users, Undo(u)
      PROVE  RequestMoves
  <2>1. UNCHANGED chain /\ op[u].at = "undoing" /\ op'[u].at = "idle" /\ op[u].name \in Extrinsics
    BY <1>o, <1>7 DEF Undo, Ends, Idle, WellFormed, Named, InFlight
  <2>2. CASE op[u].name = "open"
    BY <2>1, <2>2 DEF RequestMoves
  <2>3. CASE op[u].name = "close"
    BY <1>7, <2>1, <2>3 DEF Undo, CloseUndone, RequestMoves
  <2>4. CASE op[u].name \notin {"open", "close"}
    BY <1>7, <1>0, <2>4 DEF Undo, Retracted
  <2> QED  BY <2>2, <2>3, <2>4
<1>8. CASE CancelOpen
  BY <1>8 DEF CancelOpen, OpenUndone, RequestMoves
<1> QED  BY <1>1, <1>2, <1>3, <1>4, <1>5, <1>6, <1>7, <1>8 DEF Next

(* A request that undoes an opening is under way from the failure of that  *)
(* opening until the backend has it.                                       *)
LEMMA CancellingStep ==
  ASSUME [Next]_vars
  PROVE  \/ cancelling' = cancelling
         \/ cancelling' /\ UndoUnawaited
         \/ cancelling /\ ~cancelling' /\ (CancelOpen \/ (CancelOpenFails /\ "requester" \in faults'))
<1>1. CASE RequestLoc \/ Submit \/ Rework \/ Cancel \/ ReviewItem \/ RejectLoc \/ AcceptLoc
           \/ \E who \in Submitters : AddItem(who) \/ DeleteItem(who) \/ RequestItemReview(who)
  BY <1>1 DEF RequestLoc, Submit, Rework, Cancel, ReviewItem, RejectLoc, AcceptLoc, AddItem, DeleteItem,
     RequestItemReview, Edits, RequesterEdits, IssuerEdits, Calls
<1>2. CASE PublishItem \/ AcknowledgeItem \/ IssuerAcknowledgesItem \/ VoidLoc
           \/ \E auto \in BOOLEAN : Open(auto) \/ Close(auto) \/ SetIssuerSelection(auto)
  BY <1>2 DEF PublishItem, AcknowledgeItem, IssuerAcknowledgesItem, VoidLoc, Open, Close, SetIssuerSelection, Announces
<1>3. CASE Follow \/ UNCHANGED vars \/ \E u \in Users : Include(u) \/ Refuse(u) \/ Undo(u) \/ Refresh(u) \/ RefreshAll(u)
             \/ ReadRequest(u) \/ ReadChain(u) \/ Interrupt(u)
  BY <1>3 DEF Follow, vars, Include, Refuse, Undo, Refresh, RefreshAll, ReadRequest, ReadChain, Interrupt, Calls
<1>4. CASE UndoUnawaited \/ CancelOpen \/ CancelOpenFails
  <2>1. CancelOpen \/ CancelOpenFails => cancelling /\ ~cancelling'
    BY DEF CancelOpen, CancelOpenFails
  <2>2. CancelOpenFails => "requester" \in faults'
    BY DEF CancelOpenFails
  <2>3. UndoUnawaited => cancelling'
    BY DEF UndoUnawaited
  <2> QED  BY <1>4, <2>1, <2>2, <2>3
<1> QED  BY <1>1, <1>2, <1>3, <1>4 DEF Next

(* The interruptions are never forgotten. *)
LEMMA FaultsGrow ==
  ASSUME [Next]_vars
  PROVE  faults \subseteq faults'
<1>1. CASE RequestLoc \/ Submit \/ Rework \/ Cancel \/ ReviewItem \/ RejectLoc \/ AcceptLoc
           \/ \E who \in Submitters : AddItem(who) \/ DeleteItem(who) \/ RequestItemReview(who)
  BY <1>1 DEF RequestLoc, Submit, Rework, Cancel, ReviewItem, RejectLoc, AcceptLoc, AddItem, DeleteItem,
     RequestItemReview, Edits, RequesterEdits, IssuerEdits, Calls
<1>2. CASE PublishItem \/ AcknowledgeItem \/ IssuerAcknowledgesItem \/ VoidLoc
           \/ \E auto \in BOOLEAN : Open(auto) \/ Close(auto) \/ SetIssuerSelection(auto)
  BY <1>2 DEF PublishItem, AcknowledgeItem, IssuerAcknowledgesItem, VoidLoc, Open, Close, SetIssuerSelection, Announces
<1>3. CASE Follow \/ UNCHANGED vars \/ \E u \in Users : Include(u) \/ Refuse(u) \/ Undo(u) \/ Refresh(u) \/ RefreshAll(u)
             \/ ReadRequest(u) \/ ReadChain(u) \/ Interrupt(u)
  BY <1>3 DEF Follow, vars, Include, Refuse, Undo, Refresh, RefreshAll, ReadRequest, ReadChain, Interrupt, Calls
<1>4. CASE UndoUnawaited \/ CancelOpen \/ CancelOpenFails
  BY <1>4 DEF UndoUnawaited, CancelOpen, CancelOpenFails
<1> QED  BY <1>1, <1>2, <1>3, <1>4 DEF Next

-----------------------------------------------------------------------------
(* The classes. *)

(* The invariant holds at first. *)
LEMMA LifeInit == Init => LifeInv
  BY DEF Init, LifeInv, ClassIsTrue, Class, NoObject, LocIsAnnounced, OpeningsPrecede, ClosingsFollow, Idle,
     InFlight, OpeningIsPending, CancelsPrecede

(* An extrinsic that is included is not in flight any more. *)
LEMMA IncludedIsDone ==
  ASSUME WellFormed, NEW u \in Users, Include(u)
  PROVE  op'[u].at \notin InFlight
<1>1. op \in [Users -> Ops]
  BY TypeParts DEF WellFormed, OpsOK
<1> QED  BY <1>1 DEF Include, Ends, Idle, InFlight

(* And every step keeps it. *)
LEMMA LifeStep ==
  ASSUME WellFormed, LifeInv, [Next]_vars
  PROVE  LifeInv'
<1>c. loc \in {"none", "open", "closed"} /\ loc' \in {"none", "open", "closed"} /\ voided \in BOOLEAN
  BY ChainForward, TypeParts DEF WellFormed, ChainOK
<1>u. Users = {"requester", "officer"}
  BY DEF Users
<1>1. ClassIsTrue'
  <2> SUFFICES ASSUME NEW u \in Users
               PROVE  /\ object'[u].class = "OpenLoc" => loc' # "none"
                      /\ object'[u].class = "ClosedLoc" => loc' = "closed"
                      /\ object'[u].class = "VoidedLoc" => voided'
    BY DEF ClassIsTrue, Class
  <2>1. CASE object'[u] = object[u]
    BY <2>1, ChainForward DEF LifeInv, ClassIsTrue, Class
  <2>2. CASE object'[u] = NoObject \/ object'[u].class \in Requests
    BY <2>2 DEF NoObject, Requests
  <2>3. CASE loc # "none" /\ object'[u].class = LocClass(op[u].read)
    BY <2>3, ChainForward DEF LocClass
  <2> QED  BY <2>1, <2>2, <2>3, ObjectStep DEF ObjectMoves
<1>2. LocIsAnnounced'
  <2>1. loc = "none" /\ loc' # "none" => request = "OPEN"
    BY ChainForward DEF LifeInv, OpeningsPrecede
  <2>2. request \notin {"OPEN", "CLOSED"} => loc' = "none"
    BY <2>1 DEF LifeInv, LocIsAnnounced
  <2>3. ASSUME NEW u \in Users, UNCHANGED chain, op[u].at = "undoing", op[u].name = "open"
        PROVE  loc' = "none"
    BY <2>3 DEF LifeInv, OpeningsPrecede, chain, InFlight
  <2>4. UNCHANGED chain /\ cancelling => loc' = "none"
    BY DEF LifeInv, CancelsPrecede, chain
  <2> QED  BY <2>1, <2>2, <2>3, <2>4, RequestStep DEF RequestMoves, LocIsAnnounced, LifeInv
<1>3. OpeningsPrecede'
  <2> SUFFICES ASSUME NEW u \in Users, op'[u].at \in InFlight, op'[u].name = "open"
               PROVE  u = "requester" /\ loc' = "none" /\ request' = "OPEN"
    BY DEF OpeningsPrecede
  <2>1. CASE op[u].at = "idle" /\ Begins(u, op'[u].name)
    BY <2>1 DEF Begins, LifeInv, LocIsAnnounced, chain
  <2>2. CASE op[u].at \in InFlight /\ op[u].name = "open"
    <3>1. u = "requester" /\ loc = "none" /\ request = "OPEN"
      BY <2>2 DEF LifeInv, OpeningsPrecede
    <3>2. loc' = "none"
      <4>1. ASSUME NEW v \in Users, Include(v), op[v].at \in InFlight, op[v].name = "open"
            PROVE  FALSE
        BY <3>1, <4>1, IncludedIsDone DEF LifeInv, OpeningsPrecede
      <4> QED  BY <3>1, <4>1, ChainForward
    <3>3. object["officer"].class # "OpenLoc"
      BY <1>u, <3>1 DEF LifeInv, ClassIsTrue, Class
    <3>4. ASSUME NEW v \in Users, op[v].at = "undoing", op'[v].at = "idle", op[v].name = "open"
          PROVE  FALSE
      BY <3>1, <3>4 DEF LifeInv, OpeningsPrecede, InFlight
    <3>5. ~cancelling
      BY <2>2, <3>1 DEF LifeInv, CancelsPrecede
    <3> QED  BY <3>1, <3>2, <3>3, <3>4, <3>5, RequestStep DEF RequestMoves
  <2> QED  BY <2>1, <2>2, OpStep DEF OpMoves, InFlight, WellFormed
<1>4. ClosingsFollow'
  <2>1. ASSUME NEW u \in Users, op'[u].at \in InFlight, op'[u].name \in {"close", "void"}
        PROVE  loc' # "none"
    <3>1. CASE op[u].at = "idle" /\ Begins(u, op'[u].name)
      BY <1>u, <2>1, <3>1 DEF Begins, LifeInv, ClassIsTrue, Class, chain
    <3>2. CASE op[u].at \in InFlight /\ op[u].name = op'[u].name
      BY <2>1, <3>2, ChainForward DEF LifeInv, ClosingsFollow
    <3> QED  BY <2>1, <3>1, <3>2, OpStep DEF OpMoves, InFlight, WellFormed
  <2>2. voided' => loc' # "none"
    BY ChainForward DEF LifeInv, ClosingsFollow
  <2> QED  BY <2>1, <2>2 DEF ClosingsFollow
<1>5. OpeningIsPending'
  <2> SUFFICES ASSUME request' = "OPEN", loc' = "none", "requester" \notin faults', ~cancelling'
               PROVE  op'["requester"].name = "open" /\ op'["requester"].at \in {"submitted", "undoing"}
    BY DEF OpeningIsPending
  <2>1. loc = "none" /\ "requester" \notin faults
    BY ChainForward, FaultsGrow
  <2>2. ASSUME NEW v \in Users
        PROVE  ~(op[v].at = "undoing" /\ op[v].name = "close")
    BY <2>1 DEF LifeInv, ClosingsFollow, InFlight
  <2>3. CASE request = "OPEN"
    <3>0. ~cancelling /\ ~UndoUnawaited
      <4>1. ~UndoUnawaited
        BY DEF UndoUnawaited
      <4>2. ~CancelOpen
        BY DEF CancelOpen, OpenUndone
      <4> QED  BY <4>1, <4>2, CancellingStep
    <3>1. op["requester"].name = "open" /\ op["requester"].at \in {"submitted", "undoing"}
      BY <2>1, <2>3, <3>0 DEF LifeInv, OpeningIsPending
    <3>2. ~Include("requester")
      BY <3>1 DEF Include, Effect, Opened
    <3>3. ~Undo("requester")
      BY <3>1 DEF Undo, OpenUndone
    <3> QED  BY <1>u, <3>0, <3>1, <3>2, <3>3, OpStep DEF OpMoves, WellFormed
  <2>4. CASE request # "OPEN"
    <3>1. ASSUME NEW v \in Users, op[v].at = "undoing", op[v].name = "open"
          PROVE  FALSE
      BY <2>4, <3>1 DEF LifeInv, OpeningsPrecede, InFlight
    <3> QED  BY <2>2, <2>4, <3>1, RequestStep DEF RequestMoves
  <2> QED  BY <2>3, <2>4
<1>6. CancelsPrecede'
  <2> SUFFICES ASSUME cancelling'
               PROVE  /\ loc' = "none" /\ request' = "OPEN"
                      /\ ~(op'["requester"].at \in InFlight /\ op'["requester"].name = "open")
    BY DEF CancelsPrecede
  <2>1. CASE cancelling
    <3>1. loc = "none" /\ request = "OPEN" /\ ~(op["requester"].at \in InFlight /\ op["requester"].name = "open")
      BY <2>1 DEF LifeInv, CancelsPrecede
    <3>2. \A v \in Users : ~(op[v].at \in InFlight /\ op[v].name \in {"open", "close"})
      BY <3>1 DEF LifeInv, OpeningsPrecede, ClosingsFollow
    <3>3. loc' = "none"
      BY <3>1, <3>2, ChainForward
    <3>4. object["officer"].class # "OpenLoc"
      BY <1>u, <3>1 DEF LifeInv, ClassIsTrue, Class
    <3>5. request' = "OPEN"
      BY <3>1, <3>2, <3>4, RequestStep DEF RequestMoves, InFlight
    <3>6. ~(op'["requester"].at \in InFlight /\ op'["requester"].name = "open")
      BY <1>u, <3>1, OpStep DEF OpMoves, Begins, InFlight, WellFormed
    <3> QED  BY <3>3, <3>5, <3>6
  <2>2. CASE UndoUnawaited
    <3>1. op'["requester"].at = "idle"
      BY <1>u, <2>2, TypeParts DEF UndoUnawaited, Ends, Idle, WellFormed, OpsOK
    <3>2. loc = "none" /\ request = "OPEN"
      BY <1>u, <2>2 DEF UndoUnawaited, LifeInv, OpeningsPrecede, InFlight
    <3> QED  BY <2>2, <3>1, <3>2 DEF UndoUnawaited, chain, backend, InFlight
  <2> QED  BY <2>1, <2>2, CancellingStep
<1> QED  BY <1>1, <1>2, <1>3, <1>4, <1>5, <1>6 DEF LifeInv

(* The inductive invariant. *)
THEOREM LifeIsConsistent == Spec => []LifeInv
  BY TypeCorrect, LifeInit, LifeStep, PTL DEF Spec

(* No client takes for open, closed or void a LOC that is not. *)
THEOREM ClassesAreTrue == Spec => []ClassIsTrue
  BY LifeIsConsistent, PTL DEF LifeInv

(* Without interruption, a LOC that the backend says OPEN and the chain    *)
(* does not know is being opened, or its opening is being undone.          *)
THEOREM OpeningsArePending == Spec => []OpeningIsPending
  BY LifeIsConsistent, PTL DEF LifeInv

(* The object of a client never goes back. *)
LEMMA ForwardStep ==
  ASSUME WellFormed, LifeInv, [Next]_vars, NEW u \in Users, object'[u].class # "none"
  PROVE  Rank(object'[u].class) >= Rank(object[u].class)
<1>r. \A class : Rank(class) \in 0..3 /\ (class \in Requests => Rank(class) = 0)
  BY DEF Rank, Requests
<1>1. CASE object'[u] = object[u]
  BY <1>1, <1>r
<1>2. CASE object'[u].class \in Requests /\ request \notin {"OPEN", "CLOSED"}
  <2>1. loc = "none" /\ ~voided
    BY <1>2, TypeParts DEF LifeInv, LocIsAnnounced, ClosingsFollow, WellFormed, ChainOK
  <2>2. object[u].class \notin {"OpenLoc", "ClosedLoc", "VoidedLoc"}
    BY <2>1 DEF LifeInv, ClassIsTrue, Class
  <2> QED  BY <1>r, <2>2 DEF Rank
<1>3. CASE loc # "none" /\ object'[u].class = LocClass(op[u].read)
  <2>1. voided => Rank(object'[u].class) = 3
    BY <1>3 DEF LocClass, Rank
  <2>2. ~voided /\ loc = "closed" => Rank(object'[u].class) = 2
    BY <1>3 DEF LocClass, Rank
  <2>3. ~voided /\ loc # "closed" => Rank(object'[u].class) = 1
    BY <1>3 DEF LocClass, Rank
  <2>4. ~voided => Rank(object[u].class) \in 0..2
    BY DEF LifeInv, ClassIsTrue, Class, Rank
  <2>5. ~voided /\ loc # "closed" => Rank(object[u].class) \in 0..1
    BY DEF LifeInv, ClassIsTrue, Class, Rank
  <2> QED  BY <1>r, <2>1, <2>2, <2>3, <2>4, <2>5, TypeParts DEF WellFormed, ChainOK
<1> QED  BY <1>1, <1>2, <1>3, ObjectStep DEF ObjectMoves, NoObject

(* No client goes back from void to closed, from closed to open or from    *)
(* any of them to a request.                                               *)
THEOREM ClassesGoForward == Spec => ClassGoesForward
<1>1. WellFormed /\ LifeInv /\ [Next]_vars
      => [\A u \in Users : object'[u].class # "none" => Rank(object'[u].class) >= Rank(object[u].class)]_vars
  BY ForwardStep
<1> QED  BY <1>1, TypeCorrect, LifeIsConsistent, PTL DEF Spec, ClassGoesForward

-----------------------------------------------------------------------------
(* The item. *)

(* What the chain records of the item stays. *)
LEMMA RecordsGrow ==
  ASSUME WellFormed, RecordsAreOrdered, [Next]_vars
  PROVE  recorded \subseteq recorded' /\ RecordsAreOrdered'
<1>1. ASSUME NEW u \in Users, Include(u)
      PROVE  recorded \subseteq recorded' /\ RecordsAreOrdered'
  <2>1. op[u].name \in Extrinsics
    BY <1>1 DEF Include, WellFormed, Named, InFlight
  <2>2. CASE op[u].name = "open"
    BY <1>1, <2>2 DEF Include, Effect, Opened, RecordsAreOrdered
  <2>3. CASE op[u].name \in {"publish", "acknowledge"}
    BY <1>1, <2>3 DEF Include, Effect, RecordsAreOrdered
  <2>4. CASE op[u].name = "close"
    BY <1>1, <2>4 DEF Include, Effect, Closed, RecordsAreOrdered
  <2>5. CASE op[u].name \in {"void", "issuer"}
    BY <1>1, <2>5 DEF Include, Effect, RecordsAreOrdered
  <2> QED  BY <2>1, <2>2, <2>3, <2>4, <2>5 DEF Extrinsics
<1>2. CASE IssuerAcknowledgesItem
  BY <1>2 DEF IssuerAcknowledgesItem, RecordsAreOrdered
<1> QED  BY <1>1, <1>2, ChainStep DEF chain, RecordsAreOrdered

(* The backend learns from the chain, the clients from the backend. *)
LEMMA DatesStep ==
  ASSUME [Next]_vars
  PROVE  dates' = dates \/ dates' = recorded
  BY DEF Next, vars, backend, RequestLoc, Submit, Rework, Cancel, AddItem, DeleteItem, RequestItemReview,
    ReviewItem, RejectLoc, AcceptLoc, PublishItem, AcknowledgeItem, IssuerAcknowledgesItem, VoidLoc, Open,
    Close, SetIssuerSelection, Include, Refuse, Undo, UndoUnawaited, CancelOpen, CancelOpenFails, Follow,
    Refresh, RefreshAll, ReadRequest, ReadChain, Interrupt

(* What a client has read is empty or was true of the backend. *)
LEMMA ReadStep ==
  ASSUME WellFormed, [Next]_vars, NEW u \in Users
  PROVE  op'[u].read = op[u].read \/ op'[u].read.dates = {} \/ op'[u].read.dates = dates
<1> DEFINE Goal == op'[u].read = op[u].read \/ op'[u].read.dates = {} \/ op'[u].read.dates = dates
<1>t. op \in [Users -> Ops]
  BY TypeParts DEF WellFormed, OpsOK
<1>u. Users = {"requester", "officer"}
  BY DEF Users
<1>i. ASSUME NEW v \in Users, NEW o, o.read = Nothing, op' = [op EXCEPT ![v] = o]
      PROVE  Goal
  BY <1>i, <1>t DEF Nothing
<1>e. \A v \in Users : Ends(v) => Goal
  BY <1>i DEF Ends, Idle
<1>c. \A v \in Users : Calls(v) => Goal
  <2> SUFFICES ASSUME NEW v \in Users, Calls(v) PROVE Goal
    OBVIOUS
  <2>1. [Idle EXCEPT !.at = "reading"].read = Nothing
    BY DEF Idle
  <2> QED  BY <1>i, <2>1 DEF Calls
<1>a. \A v \in Users : \A name, auto : Announces(v, name, auto) => Goal
  <2> SUFFICES ASSUME NEW v \in Users, NEW name, NEW auto, Announces(v, name, auto) PROVE Goal
    OBVIOUS
  <2>1. [Idle EXCEPT !.name = name, !.at = "submitted", !.auto = auto].read = Nothing
    BY DEF Idle
  <2> QED  BY <1>i, <2>1 DEF Announces
<1>s. \A v \in Users : \A phase : At(v, phase) => Goal
  BY <1>t DEF At, Ops
<1>0. UNCHANGED op => Goal
  OBVIOUS
<1>1. CASE RequestLoc \/ Cancel \/ IssuerAcknowledgesItem \/ CancelOpen \/ CancelOpenFails \/ Follow \/ UNCHANGED vars
  BY <1>0, <1>1 DEF RequestLoc, Cancel, IssuerAcknowledgesItem, CancelOpen, CancelOpenFails, Follow, vars
<1>2. CASE Submit \/ Rework \/ ReviewItem \/ RejectLoc \/ AcceptLoc
           \/ \E who \in Submitters : AddItem(who) \/ DeleteItem(who) \/ RequestItemReview(who)
  BY <1>0, <1>2, <1>c, <1>u DEF Submit, Rework, ReviewItem, RejectLoc, AcceptLoc, AddItem, DeleteItem,
     RequestItemReview, Edits, RequesterEdits, IssuerEdits
<1>3. CASE PublishItem \/ VoidLoc \/ \E auto \in BOOLEAN : Open(auto) \/ Close(auto) \/ SetIssuerSelection(auto)
  BY <1>3, <1>a, <1>u DEF PublishItem, VoidLoc, Open, Close, SetIssuerSelection
<1>4. CASE AcknowledgeItem
  <2>1. [Idle EXCEPT !.name = "acknowledge", !.at = "submitted"].read = Nothing
    BY DEF Idle
  <2> QED  BY <1>4, <1>i, <1>u, <2>1 DEF AcknowledgeItem
<1>5. ASSUME NEW v \in Users, Include(v) \/ RefreshAll(v)
      PROVE  Goal
  <2>1. [Idle EXCEPT !.at = "reading"].read = Nothing /\ [Idle EXCEPT !.name = "all", !.at = "reading"].read = Nothing
    BY DEF Idle
  <2> QED  BY <1>5, <1>i, <1>e, <2>1 DEF Include, RefreshAll
<1>6. ASSUME NEW v \in Users, Refuse(v) \/ Undo(v) \/ Refresh(v) \/ ReadChain(v) \/ Interrupt(v)
      PROVE  Goal
  BY <1>6, <1>e, <1>c, <1>s DEF Refuse, Undo, Refresh, ReadChain, Interrupt
<1>8. CASE UndoUnawaited
  BY <1>8, <1>e, <1>u DEF UndoUnawaited
<1>7. ASSUME NEW v \in Users, ReadRequest(v)
      PROVE  Goal
  <2>1. CASE IsRead(v)
    BY <1>7, <1>t, <2>1 DEF ReadRequest, IsRead, Fetched, Ops
  <2>2. CASE IsMissing(v) \/ IsRequest(v)
    BY <1>7, <1>e, <2>2 DEF ReadRequest, IsMissing, IsRequest
  <2> QED  BY <1>7, <2>1, <2>2, ReadingKinds
<1> QED  BY <1>1, <1>2, <1>3, <1>4, <1>5, <1>6, <1>7, <1>8 DEF Next

(* What the officer's client requires for closing, in terms of the chain.  *)
LEMMA ReadyWhenClosing ==
  ASSUME ItemInv, NEW auto \in BOOLEAN, CanClose(object["officer"], auto), object["officer"].data.item # "none"
  PROVE  /\ "published" \in recorded
         /\ auto \/ "byOwner" \in recorded
         /\ NeedsIssuer(object["officer"]) => "byIssuer" \in recorded
<1>1. object["officer"].data.dates \subseteq recorded
  BY DEF ItemInv, DatesAreTrue, Users
<1> QED
  BY <1>1 DEF CanClose, IsReadyForAutoAck, IsAcknowledgedOnChain, IsPublishedOnChain, ItemInv, RecordsAreOrdered

(* What is known of the item stays known. *)
LEMMA ItemStep ==
  ASSUME WellFormed, ItemInv, [Next]_vars
  PROVE  ItemInv'
<1>r. recorded \subseteq recorded' /\ RecordsAreOrdered'
  BY RecordsGrow DEF ItemInv
<1>1. DatesAreTrue'
  <2>1. dates' \subseteq recorded'
    BY <1>r, DatesStep DEF ItemInv, DatesAreTrue
  <2>2. ASSUME NEW u \in Users
        PROVE  op'[u].read.dates \subseteq recorded' /\ object'[u].data.dates \subseteq recorded'
    <3>1. op'[u].read.dates \subseteq recorded'
      BY <1>r, ReadStep DEF ItemInv, DatesAreTrue
    <3>2. object'[u].data.dates \subseteq recorded'
      BY <1>r, ObjectStep DEF ObjectMoves, ItemInv, DatesAreTrue, NoObject, Nothing
    <3> QED  BY <3>1, <3>2
  <2> QED  BY <2>1, <2>2 DEF DatesAreTrue
<1>2. ReadyIsOnChain'
  <2> SUFFICES ASSUME op'["officer"].name = "close", op'["officer"].at = "submitted", object'["officer"].data.item # "none"
               PROVE  /\ "published" \in recorded'
                      /\ op'["officer"].auto \/ "byOwner" \in recorded'
                      /\ NeedsIssuer(object'["officer"]) => "byIssuer" \in recorded'
    BY DEF ReadyIsOnChain, NeedsIssuer
  <2>o. "officer" \in Users
    BY DEF Users
  <2>1. object'["officer"] = object["officer"]
    BY <2>o, ObjectStep DEF ObjectMoves
  <2>2. CASE op'["officer"] = op["officer"]
    BY <1>r, <2>1, <2>2 DEF ItemInv, ReadyIsOnChain
  <2>3. CASE Begins("officer", "close")
    <3>1. op'["officer"].auto \in BOOLEAN
      BY <2>o, TypeStep, TypeParts DEF WellFormed, OpsOK, Ops
    <3> QED  BY <1>r, <2>1, <2>3, <3>1, ReadyWhenClosing DEF Begins
  <2> QED  BY <2>o, <2>2, <2>3, OpStep DEF OpMoves, InFlight, WellFormed
<1> QED  BY <1>r, <1>1, <1>2 DEF ItemInv

(* Nothing is known of it at first. *)
LEMMA ItemInit == Init => ItemInv
<1> SUFFICES ASSUME Init PROVE ItemInv
  OBVIOUS
<1>1. Nothing.dates = {} /\ NoObject.data = Nothing /\ Idle.read = Nothing /\ Idle.name = "none"
  BY DEF Nothing, NoObject, Idle
<1>2. \A u \in Users : object[u] = NoObject /\ op[u] = Idle
  BY DEF Init
<1>3. DatesAreTrue /\ RecordsAreOrdered
  BY <1>1, <1>2 DEF Init, DatesAreTrue, RecordsAreOrdered
<1>4. ReadyIsOnChain
  BY <1>1, <1>2 DEF ReadyIsOnChain, Users
<1> QED  BY <1>3, <1>4 DEF ItemInv

(* The officer's client closes a LOC on data that are old, but what they   *)
(* say of the item, the chain recorded.                                    *)
THEOREM ClosingsAreReady == Spec => []ReadyIsOnChain
<1>1. Init => ItemInv
  BY ItemInit
<1>2. ItemInv => ReadyIsOnChain
  BY DEF ItemInv
<1> QED  BY <1>1, <1>2, TypeCorrect, ItemStep, PTL DEF Spec
-----------------------------------------------------------------------------
(* What is published on chain is published for the backend and the other   *)
(* way round, as long as nothing goes wrong.  The review of an item is the *)
(* officer's, who refreshes after it; the opening and the publication are  *)
(* the requester's, one at a time.  So each knows what counts when it acts,*)
(* although the data it acts upon is old.                                  *)

Accepted == {"REVIEW_ACCEPTED", "PUBLISHED", "ACKNOWLEDGED"}
Published == {"PUBLISHED", "ACKNOWLEDGED"}
Underway == {"submitted", "undoing"}
Reads == {"reading", "read"}

(* The officer's extrinsics concern a LOC that exists and are his, ...     *)
OfficerActs ==
  op["officer"].at \in Underway =>
    loc # "none" /\ op["officer"].name \in {"acknowledge", "void", "issuer", "close"}

(* ... and he takes for pending what is.                                   *)
OfficerKnowsRequest ==
  Class("officer") = "PendingRequest" /\ op["officer"].at \notin Reads =>
    request \in {"REVIEW_PENDING", "cancelled"}

(* What he accepted, he has seen or is about to see.                       *)
OfficerKnowsItem ==
  item \in Accepted =>
    \/ op["officer"].at = "reading"
    \/ op["officer"].at = "read" /\ op["officer"].read.item # "none"
    \/ op["officer"].at \notin Reads /\ (Class("officer") = "OpenLoc" => Seen("officer").item # "none")

RequesterActs ==
  op["requester"].at \in Underway =>
    \/ op["requester"].name = "open"
    \/ op["requester"].name = "publish" /\ Class("requester") # "AcceptedRequest"

(* The requester takes for accepted what is, with the item it has seen.    *)
RequesterKnowsRequest ==
  Class("requester") = "AcceptedRequest" /\ op["requester"].at = "idle" /\ ~cancelling =>
    /\ request \in {"REVIEW_ACCEPTED", "cancelled"}
    /\ request = "REVIEW_ACCEPTED" => Seen("requester").item = item

(* While a LOC is being opened, the item is as the requester has seen it,  *)
(* but for its publication.                                                *)
OpensWhatItSaw ==
  op["requester"].at \in Underway /\ op["requester"].name = "open" =>
    /\ Seen("requester").item \notin Published
    /\ item = IF op["requester"].auto /\ Seen("requester").item = "REVIEW_ACCEPTED" THEN "PUBLISHED"
              ELSE Seen("requester").item

(* So it is while the opening is to be undone and nobody waits for that.   *)
CancelsWhatItSaw ==
  cancelling =>
    /\ op["requester"].at \notin Underway
    /\ item # "ACKNOWLEDGED"
    /\ Class("requester") # "none" =>
         Seen("requester").item = IF item = "PUBLISHED" THEN "REVIEW_ACCEPTED" ELSE item

PublishesOnce ==
  op["requester"].at \in Underway /\ op["requester"].name = "publish" =>
    item = "PUBLISHED" /\ "published" \notin recorded

PublishedIsRecorded ==
  item \in Published =>
    \/ "published" \in recorded
    \/ item = "PUBLISHED" /\ (op["requester"].at \in Underway \/ cancelling)

Smooth ==
  /\ \A u \in Users : op[u].at # "orphan"
  /\ OfficerActs
  /\ OfficerKnowsRequest
  /\ OfficerKnowsItem
  /\ RequesterActs
  /\ RequesterKnowsRequest
  /\ OpensWhatItSaw
  /\ CancelsWhatItSaw
  /\ PublishesOnce
  /\ ("published" \in recorded => item \in Published)
  /\ PublishedIsRecorded

SmoothInv == faults = {} => Smooth

(* What is known besides. *)
Sound == WellFormed /\ LifeInv /\ ItemInv

Parts ==
  /\ op \in [Users -> Ops] /\ object \in [Users -> [class : Classes, data : Backend, issuers : BOOLEAN]]
  /\ op["requester"].at \in Underway /\ op["requester"].name = "open" => loc = "none" /\ request = "OPEN"
  /\ op["officer"].at \in Underway => op["officer"].name # "open"
  /\ loc # "none" => request \in {"OPEN", "CLOSED"}
  /\ cancelling => loc = "none" /\ request = "OPEN"
  /\ loc = "none" => recorded = {}
  /\ \A u \in Users : object[u].class \in {"OpenLoc", "ClosedLoc", "VoidedLoc"} => loc # "none"
  /\ \A u \in Users : op[u].at \in Underway => op[u].name \in Extrinsics

LEMMA SoundParts == Sound => Parts
<1> SUFFICES ASSUME Sound PROVE Parts
  OBVIOUS
<1>1. op \in [Users -> Ops] /\ object \in [Users -> [class : Classes, data : Backend, issuers : BOOLEAN]]
  BY TypeParts DEF Sound, WellFormed, OpsOK, ObjectsOK
<1>2. \A u \in Users : op[u].at \in Underway /\ op[u].name = "open" => u = "requester" /\ loc = "none" /\ request = "OPEN"
  BY DEF Sound, LifeInv, OpeningsPrecede, Underway, InFlight
<1>3. loc # "none" => request \in {"OPEN", "CLOSED"}
  BY DEF Sound, LifeInv, LocIsAnnounced
<1>4. loc = "none" => recorded = {}
  BY DEF Sound, ItemInv, RecordsAreOrdered
<1>5. \A u \in Users : object[u].class \in {"OpenLoc", "ClosedLoc", "VoidedLoc"} => loc # "none"
  BY DEF Sound, LifeInv, ClassIsTrue, ClosingsFollow, Class
<1>6. \A u \in Users : op[u].at \in Underway => op[u].name \in Extrinsics
  BY DEF Sound, WellFormed, Named, Underway, InFlight
<1>7. cancelling => loc = "none" /\ request = "OPEN"
  BY DEF Sound, LifeInv, CancelsPrecede
<1> QED BY <1>1, <1>2, <1>3, <1>4, <1>5, <1>6, <1>7 DEF Parts, Users

(* One operation moves, to what is said of it. *)
LEMMA OpBecomes ==
  ASSUME Parts, NEW u \in Users
  PROVE  /\ Ends(u) => op'[u].at = "idle" /\ \A v \in Users \ {u} : op'[v] = op[v]
         /\ Calls(u) => /\ op[u].at = "idle" /\ op'[u].at = "reading" /\ \A v \in Users \ {u} : op'[v] = op[v]
                        /\ UNCHANGED <<chain, object, cancelling, faults>>
         /\ \A name, auto : Announces(u, name, auto) =>
              /\ op[u].at = "idle" /\ op'[u].at = "submitted" /\ op'[u].name = name /\ op'[u].auto = auto
              /\ \A v \in Users \ {u} : op'[v] = op[v]
              /\ UNCHANGED <<chain, object, cancelling, faults>>
<1>1. op \in [Users -> Ops]
  BY DEF Parts
<1>2. Ends(u) => op'[u].at = "idle" /\ \A v \in Users \ {u} : op'[v] = op[v]
  BY <1>1 DEF Ends, Idle
<1>3. Calls(u) => /\ op[u].at = "idle" /\ op'[u].at = "reading" /\ \A v \in Users \ {u} : op'[v] = op[v]
                  /\ UNCHANGED <<chain, object, cancelling, faults>>
  BY <1>1 DEF Calls, Idle
<1>4. ASSUME NEW name, NEW auto, Announces(u, name, auto)
      PROVE  /\ op[u].at = "idle" /\ op'[u].at = "submitted" /\ op'[u].name = name /\ op'[u].auto = auto
             /\ \A v \in Users \ {u} : op'[v] = op[v]
             /\ UNCHANGED <<chain, object, cancelling, faults>>
  BY <1>1, <1>4 DEF Announces, Idle
<1> QED BY <1>2, <1>3, <1>4

(* An operation starts to read, or does, or reads nothing new: nothing     *)
(* that the invariant is about changes.                                    *)
LEMMA QuietUser ==
  ASSUME Parts, Smooth, NEW u \in Users, op[u].at \notin Underway, op'[u].at = "reading",
         \A v \in Users \ {u} : op'[v] = op[v], UNCHANGED <<backend, chain, object, cancelling>>
  PROVE  Smooth'
  BY DEF Parts, Smooth, Underway, Reads, CancelsWhatItSaw, OfficerActs, OfficerKnowsRequest, OfficerKnowsItem, RequesterActs,
         RequesterKnowsRequest, OpensWhatItSaw, PublishesOnce, PublishedIsRecorded, Class, Seen, Users, backend, chain

(* The requester acts on its request or on its item, and refreshes. *)
LEMMA RequesterTurn ==
  ASSUME Parts, Smooth, Calls("requester"), ~cancelling,
         request' = request \/ request \notin {"REVIEW_PENDING", "cancelled"},
         item' = item \/ (item \notin Accepted /\ item' \notin Accepted)
  PROVE  Smooth'
<1>1. /\ op["requester"].at = "idle" /\ op'["requester"].at = "reading" /\ op'["officer"] = op["officer"]
      /\ UNCHANGED <<chain, object, cancelling>>
  BY OpBecomes DEF Users
<1>2. (\A u \in Users : op'[u].at # "orphan") /\ OfficerActs' /\ RequesterActs' /\ RequesterKnowsRequest'
      /\ OpensWhatItSaw' /\ CancelsWhatItSaw' /\ PublishesOnce'
  BY <1>1 DEF Smooth, Users, Underway, OfficerActs, RequesterActs, RequesterKnowsRequest, OpensWhatItSaw,
              CancelsWhatItSaw, PublishesOnce, chain
<1>3. OfficerKnowsRequest' /\ OfficerKnowsItem'
  BY <1>1 DEF Smooth, OfficerKnowsRequest, OfficerKnowsItem, Class, Seen
<1>4. ("published" \in recorded' => item' \in Published) /\ PublishedIsRecorded'
  BY <1>1 DEF Smooth, PublishedIsRecorded, Published, Accepted, Underway, chain
<1> QED BY <1>2, <1>3, <1>4 DEF Smooth

(* So does the officer. *)
LEMMA OfficerTurn ==
  ASSUME Parts, Smooth, Calls("officer"), ~cancelling,
         request' = request \/ request = "REVIEW_PENDING",
         \/ item' = item
         \/ /\ item = "REVIEW_PENDING" /\ item' \in {"REVIEW_ACCEPTED", "REVIEW_REJECTED"}
            /\ request = "REVIEW_PENDING" \/ loc # "none"
  PROVE  Smooth'
<1>1. /\ op["officer"].at = "idle" /\ op'["officer"].at = "reading" /\ op'["requester"] = op["requester"]
      /\ UNCHANGED <<chain, object, cancelling>>
  BY OpBecomes DEF Users
<1>2. (\A u \in Users : op'[u].at # "orphan") /\ OfficerActs' /\ RequesterActs' /\ PublishesOnce'
  BY <1>1 DEF Smooth, Users, Underway, OfficerActs, RequesterActs, PublishesOnce, Class, chain
<1>3. RequesterKnowsRequest' /\ OpensWhatItSaw' /\ CancelsWhatItSaw'
  BY <1>1 DEF Parts, Smooth, RequesterKnowsRequest, OpensWhatItSaw, CancelsWhatItSaw, Class, Seen
<1>4. OfficerKnowsRequest' /\ OfficerKnowsItem'
  BY <1>1 DEF OfficerKnowsRequest, OfficerKnowsItem, Reads
<1>5. ("published" \in recorded' => item' \in Published) /\ PublishedIsRecorded'
  BY <1>1 DEF Smooth, PublishedIsRecorded, Published, Underway, chain
<1> QED BY <1>2, <1>3, <1>4, <1>5 DEF Smooth

(* An issuer edits an open LOC. *)
LEMMA IssuerTurn ==
  ASSUME Parts, Smooth, UNCHANGED <<chain, object, op, cancelling, request>>, loc = "open",
         item \notin Accepted, item' \notin Accepted
  PROVE  Smooth'
<1>1. RequesterKnowsRequest' /\ OpensWhatItSaw' /\ CancelsWhatItSaw' /\ PublishesOnce'
  BY DEF Parts, Smooth, RequesterKnowsRequest, OpensWhatItSaw, CancelsWhatItSaw, PublishesOnce, Class, Seen, Accepted
<1>2. OfficerActs' /\ OfficerKnowsRequest' /\ OfficerKnowsItem' /\ RequesterActs'
  BY DEF Smooth, OfficerActs, OfficerKnowsRequest, OfficerKnowsItem, RequesterActs, Class, chain
<1>3. ("published" \in recorded' => item' \in Published) /\ PublishedIsRecorded'
  BY DEF Smooth, PublishedIsRecorded, Published, Accepted, chain
<1> QED BY <1>1, <1>2, <1>3 DEF Smooth

(* The review, of the request and of the item. *)
LEMMA ReviewStep ==
  ASSUME Parts, Smooth,
         \/ Submit \/ Rework \/ ReviewItem \/ RejectLoc \/ AcceptLoc
         \/ \E who \in Submitters : AddItem(who) \/ DeleteItem(who) \/ RequestItemReview(who)
  PROVE  Smooth'
<1>1. CASE Submit \/ Rework
  BY <1>1, RequesterTurn DEF Submit, Rework, Accepted, Parts
<1>2. CASE RejectLoc \/ AcceptLoc
  BY <1>2, OfficerTurn DEF RejectLoc, AcceptLoc, Parts
<1>3. CASE ReviewItem
  <2>1. Calls("officer") /\ op["officer"].at = "idle"
    BY <1>3 DEF ReviewItem, Calls
  <2>2. request = "REVIEW_PENDING" \/ loc # "none"
    BY <1>3, <2>1 DEF ReviewItem, Parts, Smooth, OfficerKnowsRequest, Reads, Class, Users
  <2>3. ~cancelling
    BY <2>2 DEF Parts
  <2> QED BY <1>3, <2>1, <2>2, <2>3, OfficerTurn DEF ReviewItem
<1>4. ASSUME NEW who \in Submitters, AddItem(who) \/ DeleteItem(who) \/ RequestItemReview(who)
      PROVE  Smooth'
  <2>1. item \notin Accepted /\ item' \notin Accepted /\ request' = request /\ Edits(who)
    BY <1>4 DEF AddItem, DeleteItem, RequestItemReview, Accepted
  <2>2. CASE who = "requester"
    <3>1. ~cancelling /\ Calls("requester")
      BY <2>1, <2>2 DEF Edits, RequesterEdits, Parts, Class, Users
    <3> QED BY <2>1, <3>1, RequesterTurn
  <2>3. CASE who # "requester"
    BY <2>1, <2>3, IssuerTurn DEF Edits, IssuerEdits
  <2> QED BY <2>2, <2>3
<1> QED BY <1>1, <1>2, <1>3, <1>4

(* A request is made or cancelled: the requester's object goes with it. *)
LEMMA RequestLocStep ==
  ASSUME Sound, Parts, Smooth, RequestLoc \/ Cancel
  PROVE  Smooth'
<1>o. object \in [Users -> [class : Classes, data : Backend, issuers : BOOLEAN]]
  BY DEF Parts
<1>1. /\ op' = op /\ item' = item /\ UNCHANGED chain /\ op["requester"].at = "idle" /\ ~cancelling /\ ~cancelling'
      /\ object'["requester"].class # "AcceptedRequest" /\ object'["officer"] = object["officer"]
      /\ \/ request = "none" /\ object["officer"].class = "none"
         \/ request # "none" /\ request' = "cancelled"
  <2>1. CASE RequestLoc
    <3>1. op["requester"].at = "idle" /\ object["officer"].class = "none"
      BY <2>1 DEF RequestLoc, Sound, WellFormed, NothingYet, Users
    <3>2. object'["officer"] = object["officer"] /\ object'["requester"].class = RequestClass(request')
      BY <1>o, <2>1 DEF RequestLoc, Users
    <3>3. RequestClass(request') # "AcceptedRequest"
      BY <2>1 DEF RequestLoc, RequestClass
    <3> QED BY <2>1, <3>1, <3>2, <3>3 DEF RequestLoc, Parts
  <2>2. CASE Cancel
    <3>1. object'["officer"] = object["officer"] /\ object'["requester"].class = "none"
      BY <1>o, <2>2 DEF Cancel, Users, NoObject
    <3> QED BY <2>2, <3>1 DEF Cancel, Parts
  <2> QED BY <2>1, <2>2
<1>2. RequesterActs' /\ RequesterKnowsRequest' /\ OpensWhatItSaw' /\ CancelsWhatItSaw' /\ PublishesOnce'
  BY <1>1 DEF Smooth, RequesterActs, RequesterKnowsRequest, OpensWhatItSaw, CancelsWhatItSaw, PublishesOnce, Underway, Class
<1>3. OfficerActs' /\ OfficerKnowsRequest' /\ OfficerKnowsItem'
  BY <1>1 DEF Smooth, OfficerActs, OfficerKnowsRequest, OfficerKnowsItem, Class, Seen, chain
<1>4. ("published" \in recorded' => item' \in Published) /\ PublishedIsRecorded'
  BY <1>1 DEF Smooth, PublishedIsRecorded, chain
<1> QED BY <1>1, <1>2, <1>3, <1>4 DEF Smooth

(* The LOC is about to be opened, or its item to be published. *)
LEMMA RequesterStarts ==
  ASSUME Parts, Smooth, PublishItem \/ \E auto \in BOOLEAN : Open(auto)
  PROVE  Smooth'
<1>1. ASSUME NEW auto \in BOOLEAN, Open(auto) PROVE Smooth'
  <2>1. /\ op["requester"].at = "idle" /\ op'["requester"].at = "submitted" /\ op'["requester"].name = "open"
        /\ op'["requester"].auto = auto /\ op'["officer"] = op["officer"] /\ UNCHANGED <<chain, object, cancelling>>
        /\ ~cancelling
    BY <1>1, OpBecomes DEF Open, Users, Parts
  <2>2. /\ Class("requester") = "AcceptedRequest" /\ request = "REVIEW_ACCEPTED" /\ request' = "OPEN"
        /\ item' = IF auto /\ item = "REVIEW_ACCEPTED" THEN "PUBLISHED" ELSE item
    BY <1>1 DEF Open
  <2>3. Seen("requester").item = item /\ loc = "none" /\ recorded = {}
    BY <2>1, <2>2 DEF Parts, Smooth, RequesterKnowsRequest
  <2>4. item \notin Published
    BY <2>1, <2>3 DEF Smooth, PublishedIsRecorded, Underway
  <2>5. OpensWhatItSaw' /\ CancelsWhatItSaw' /\ PublishedIsRecorded'
    BY <2>1, <2>2, <2>3, <2>4 DEF OpensWhatItSaw, CancelsWhatItSaw, PublishedIsRecorded, Seen, Published, Underway
  <2>6. RequesterActs' /\ RequesterKnowsRequest' /\ PublishesOnce' /\ OfficerActs'
    BY <2>1 DEF Smooth, RequesterActs, RequesterKnowsRequest, PublishesOnce, OfficerActs, chain
  <2>7. OfficerKnowsRequest' /\ OfficerKnowsItem'
    BY <2>1, <2>2 DEF Smooth, OfficerKnowsRequest, OfficerKnowsItem, Class, Seen, Accepted
  <2>8. "published" \in recorded' => item' \in Published
    BY <2>1, <2>3 DEF chain
  <2>9. \A u \in Users : op'[u].at # "orphan"
    BY <2>1 DEF Smooth, Users
  <2> QED BY <2>5, <2>6, <2>7, <2>8, <2>9 DEF Smooth
<1>2. CASE PublishItem
  <2>1. /\ op["requester"].at = "idle" /\ op'["requester"].at = "submitted" /\ op'["requester"].name = "publish"
        /\ op'["officer"] = op["officer"] /\ UNCHANGED <<chain, object, cancelling>> /\ ~cancelling
    BY <1>2, OpBecomes DEF PublishItem, Users, Parts, Class
  <2>2. Class("requester") = "OpenLoc" /\ item = "REVIEW_ACCEPTED" /\ item' = "PUBLISHED" /\ request' = request
    BY <1>2 DEF PublishItem
  <2>3. "published" \notin recorded
    BY <2>2 DEF Smooth, Published
  <2>4. OpensWhatItSaw' /\ CancelsWhatItSaw' /\ PublishedIsRecorded' /\ RequesterActs' /\ RequesterKnowsRequest'
        /\ PublishesOnce'
    BY <2>1, <2>2, <2>3 DEF OpensWhatItSaw, CancelsWhatItSaw, PublishedIsRecorded, RequesterActs, RequesterKnowsRequest,
                            PublishesOnce, Class, Underway, chain
  <2>5. OfficerActs' /\ OfficerKnowsRequest' /\ OfficerKnowsItem'
    BY <2>1, <2>2 DEF Smooth, OfficerActs, OfficerKnowsRequest, OfficerKnowsItem, Class, Seen, Accepted, chain
  <2>6. "published" \in recorded' => item' \in Published
    BY <2>2 DEF Published
  <2>7. \A u \in Users : op'[u].at # "orphan"
    BY <2>1 DEF Smooth, Users
  <2> QED BY <2>4, <2>5, <2>6, <2>7 DEF Smooth
<1> QED BY <1>1, <1>2

(* The officer starts what ends on chain, about a LOC that exists; what he *)
(* acknowledges, the chain knows.                                          *)
LEMMA OfficerStarts ==
  ASSUME Parts, Smooth, op["officer"].at = "idle", op'["officer"].at = "submitted",
         op'["officer"].name \in {"acknowledge", "void", "issuer", "close"},
         op'["requester"] = op["requester"], UNCHANGED <<chain, object, cancelling>>,
         Class("officer") \in {"OpenLoc", "ClosedLoc"},
         request' = request \/ request = "OPEN",
         item' = item \/ (item = "PUBLISHED" /\ item' = "ACKNOWLEDGED" /\ "published" \in recorded)
  PROVE  Smooth'
<1>1. loc # "none" /\ request \in {"OPEN", "CLOSED"} /\ ~cancelling
  BY DEF Parts, Class, Users
<1>2. OfficerActs' /\ OfficerKnowsRequest' /\ OfficerKnowsItem'
  BY <1>1 DEF Smooth, OfficerActs, OfficerKnowsRequest, OfficerKnowsItem, Class, Seen, Accepted, Reads, chain
<1>3. RequesterActs' /\ RequesterKnowsRequest' /\ OpensWhatItSaw' /\ CancelsWhatItSaw'
  BY <1>1 DEF Parts, Smooth, RequesterActs, RequesterKnowsRequest, OpensWhatItSaw, CancelsWhatItSaw, Class
<1>4. PublishesOnce' /\ PublishedIsRecorded' /\ ("published" \in recorded' => item' \in Published)
  BY <1>1 DEF Smooth, PublishesOnce, PublishedIsRecorded, Published, chain
<1>5. \A u \in Users : op'[u].at # "orphan"
  BY DEF Smooth, Users
<1> QED BY <1>2, <1>3, <1>4, <1>5 DEF Smooth

LEMMA OfficerActsStep ==
  ASSUME Sound, Parts, Smooth, faults' = {},
         AcknowledgeItem \/ VoidLoc \/ \E auto \in BOOLEAN : Close(auto) \/ SetIssuerSelection(auto)
  PROVE  Smooth'
<1>1. CASE AcknowledgeItem
  <2>1. "published" \in recorded
    BY <1>1 DEF AcknowledgeItem
  <2>2. op'["officer"].at = "submitted" /\ op'["officer"].name = "acknowledge" /\ op'["requester"] = op["requester"]
    BY <1>1 DEF AcknowledgeItem, Parts, Users, Idle
  <2> QED BY <1>1, <2>1, <2>2, OfficerStarts DEF AcknowledgeItem
<1>2. CASE VoidLoc
  BY <1>2, OpBecomes, OfficerStarts DEF VoidLoc, backend, Users
<1>3. ASSUME NEW auto \in BOOLEAN, SetIssuerSelection(auto) PROVE Smooth'
  BY <1>3, OpBecomes, OfficerStarts DEF SetIssuerSelection, backend, Users
<1>4. ASSUME NEW auto \in BOOLEAN, Close(auto) PROVE Smooth'
  <2>1. /\ op["officer"].at = "idle" /\ op'["officer"].at = "submitted" /\ op'["officer"].name = "close"
        /\ op'["requester"] = op["requester"] /\ UNCHANGED <<chain, object, cancelling>>
    BY <1>4, OpBecomes DEF Close, Users
  <2>2. Class("officer") = "OpenLoc" /\ CanClose(object["officer"], auto) /\ request = "OPEN"
    BY <1>4 DEF Close
  <2>3. item' = item \/ (item = "PUBLISHED" /\ item' = "ACKNOWLEDGED")
    BY <1>4 DEF Close
  <2>4. item = "PUBLISHED" => "published" \in recorded
    <3> SUFFICES ASSUME item = "PUBLISHED" PROVE "published" \in recorded
      OBVIOUS
    <3>1. object["officer"].data.item # "none"
      BY <2>1, <2>2 DEF Smooth, OfficerKnowsItem, Accepted, Reads, Seen
    <3> QED BY <2>2, <3>1, ReadyWhenClosing DEF Sound
  <2> QED BY <2>1, <2>2, <2>3, <2>4, OfficerStarts
<1> QED BY <1>1, <1>2, <1>3, <1>4

(* The chain includes what a client submitted.                             *)
LEMMA IncludeStep ==
  ASSUME Parts, Smooth, NEW u \in Users, Include(u)
  PROVE  Smooth'
<1>u. Users = {"requester", "officer"}
  BY DEF Users
<1>1. /\ op[u].at = "submitted" /\ op'[u].at = "reading" /\ \A v \in Users \ {u} : op'[v] = op[v]
      /\ UNCHANGED <<backend, object, cancelling>> /\ Effect(u) /\ ~cancelling
  <2>1. op[u].at # "orphan"
    BY DEF Smooth
  <2>2. op[u].at = "submitted" /\ op'[u].at = "reading" /\ \A v \in Users \ {u} : op'[v] = op[v]
    BY <2>1 DEF Include, Parts, Idle
  <2>3. ~cancelling
    BY <1>u, <2>2 DEF Parts, Smooth, CancelsWhatItSaw, OfficerActs, Underway
  <2> QED BY <2>2, <2>3 DEF Include
<1>2. \A v \in Users : op'[v].at # "orphan"
  BY <1>1 DEF Smooth
<1>3. CASE u = "requester"
  <2>1. op["requester"].name = "open" \/ op["requester"].name = "publish"
    BY <1>1, <1>3 DEF Smooth, RequesterActs, Underway
  <2>2. /\ loc # "none" => loc' # "none"
        /\ ("published" \in recorded' => item \in Published)
        /\ (item \in Published => "published" \in recorded')
    <3>1. CASE op["requester"].name = "open"
      <4>1. /\ loc = "none" /\ loc' = "open"
            /\ recorded' = IF op["requester"].auto /\ Seen("requester").item = "REVIEW_ACCEPTED"
                           THEN {"published"} ELSE {}
        BY <1>1, <1>3, <3>1 DEF Effect, Opened
      <4>2. /\ Seen("requester").item \notin Published
            /\ item = IF op["requester"].auto /\ Seen("requester").item = "REVIEW_ACCEPTED" THEN "PUBLISHED"
                      ELSE Seen("requester").item
        BY <1>1, <1>3, <3>1 DEF Smooth, OpensWhatItSaw, Underway
      <4> QED BY <4>1, <4>2 DEF Published
    <3>2. CASE op["requester"].name = "publish"
      <4>1. item = "PUBLISHED"
        BY <1>1, <1>3, <3>2 DEF Smooth, PublishesOnce, Underway
      <4>2. loc' = loc /\ recorded' = {"published"}
        BY <1>1, <1>3, <3>2 DEF Effect
      <4> QED BY <4>1, <4>2 DEF Published
    <3> QED BY <2>1, <3>1, <3>2
  <2>3. OfficerActs' /\ OfficerKnowsRequest' /\ OfficerKnowsItem'
    BY <1>u, <1>1, <1>3, <2>2 DEF Smooth, OfficerActs, OfficerKnowsRequest, OfficerKnowsItem, Class, Seen, backend
  <2>4. RequesterActs' /\ RequesterKnowsRequest' /\ OpensWhatItSaw' /\ CancelsWhatItSaw' /\ PublishesOnce'
    BY <1>1, <1>3 DEF RequesterActs, RequesterKnowsRequest, OpensWhatItSaw, CancelsWhatItSaw, PublishesOnce, Underway
  <2>5. ("published" \in recorded' => item' \in Published) /\ PublishedIsRecorded'
    BY <1>1, <2>2 DEF PublishedIsRecorded, backend
  <2> QED BY <1>2, <2>3, <2>4, <2>5 DEF Smooth
<1>4. CASE u = "officer"
  <2>1. op["officer"].name \in {"acknowledge", "void", "issuer", "close"} /\ loc # "none"
    BY <1>1, <1>4 DEF Smooth, OfficerActs, Underway
  <2>2. loc' # "none" /\ ("published" \in recorded' <=> "published" \in recorded)
    <3>1. CASE op["officer"].name = "acknowledge"
      BY <1>1, <1>4, <2>1, <3>1 DEF Effect
    <3>2. CASE op["officer"].name = "close"
      BY <1>1, <1>4, <2>1, <3>2 DEF Effect, Closed
    <3>3. CASE op["officer"].name \in {"void", "issuer"}
      BY <1>1, <1>4, <2>1, <3>3 DEF Effect
    <3> QED BY <2>1, <3>1, <3>2, <3>3
  <2>3. OfficerActs' /\ OfficerKnowsRequest' /\ OfficerKnowsItem'
    BY <1>1, <1>4 DEF OfficerActs, OfficerKnowsRequest, OfficerKnowsItem, Underway, Reads
  <2>4. RequesterActs' /\ RequesterKnowsRequest' /\ OpensWhatItSaw' /\ CancelsWhatItSaw'
    BY <1>u, <1>1, <1>4 DEF Smooth, RequesterActs, RequesterKnowsRequest, OpensWhatItSaw, CancelsWhatItSaw, Class, Seen, backend
  <2>5. PublishesOnce' /\ ("published" \in recorded' => item' \in Published) /\ PublishedIsRecorded'
    BY <1>u, <1>1, <1>4, <2>2 DEF Smooth, PublishesOnce, PublishedIsRecorded, backend
  <2> QED BY <1>2, <2>3, <2>4, <2>5 DEF Smooth
<1> QED BY <1>u, <1>3, <1>4

(* What a client announced is undone.                                      *)
LEMMA UndoStep ==
  ASSUME Parts, Smooth, NEW u \in Users, Undo(u)
  PROVE  Smooth'
<1>u. Users = {"requester", "officer"}
  BY DEF Users
<1>1. /\ op[u].at = "undoing" /\ op'[u].at = "idle" /\ \A v \in Users \ {u} : op'[v] = op[v]
      /\ UNCHANGED <<chain, object, cancelling>> /\ ~cancelling
  <2>1. ~cancelling
    BY <1>u DEF Undo, Parts, Smooth, CancelsWhatItSaw, OfficerActs, Underway
  <2> QED BY <2>1, OpBecomes DEF Undo
<1>2. \A v \in Users : op'[v].at # "orphan"
  BY <1>1 DEF Smooth
<1>3. CASE u = "requester"
  <2>1. op["requester"].name = "open" \/ (op["requester"].name = "publish" /\ Class("requester") # "AcceptedRequest")
    BY <1>1, <1>3 DEF Smooth, RequesterActs, Underway
  <2>2. /\ item' \notin Published /\ "published" \notin recorded /\ (item' \in Accepted => item \in Accepted)
        /\ request' = request \/ request = "OPEN"
        /\ op["requester"].name = "open" => request' = "REVIEW_ACCEPTED" /\ Seen("requester").item = item'
    <3>1. CASE op["requester"].name = "open"
      <4>1. request' = "REVIEW_ACCEPTED" /\ item' = IF item = "PUBLISHED" THEN "REVIEW_ACCEPTED" ELSE item
        BY <1>3, <3>1 DEF Undo, OpenUndone
      <4>2. /\ Seen("requester").item \notin Published
            /\ item = IF op["requester"].auto /\ Seen("requester").item = "REVIEW_ACCEPTED" THEN "PUBLISHED"
                      ELSE Seen("requester").item
        BY <1>1, <1>3, <3>1 DEF Smooth, OpensWhatItSaw, Underway
      <4>3. recorded = {} /\ request = "OPEN"
        BY <1>1, <1>3, <3>1 DEF Parts, Underway
      <4> QED BY <4>1, <4>2, <4>3 DEF Published, Accepted
    <3>2. CASE op["requester"].name = "publish"
      <4>1. item = "PUBLISHED" /\ "published" \notin recorded
        BY <1>1, <1>3, <3>2 DEF Smooth, PublishesOnce, Underway
      <4>2. item' = "REVIEW_ACCEPTED" /\ request' = request
        BY <1>3, <3>2, <4>1 DEF Undo, Retracted
      <4> QED BY <3>2, <4>1, <4>2 DEF Published, Accepted
    <3> QED BY <2>1, <3>1, <3>2
  <2>3. OfficerActs' /\ OfficerKnowsRequest' /\ OfficerKnowsItem'
    BY <1>u, <1>1, <1>3, <2>2 DEF Smooth, OfficerActs, OfficerKnowsRequest, OfficerKnowsItem, Class, Seen, chain
  <2>4. RequesterActs' /\ RequesterKnowsRequest' /\ OpensWhatItSaw' /\ CancelsWhatItSaw' /\ PublishesOnce'
    BY <1>1, <1>3, <2>1, <2>2 DEF RequesterActs, RequesterKnowsRequest, OpensWhatItSaw, CancelsWhatItSaw, PublishesOnce, Underway, Class, Seen
  <2>5. ("published" \in recorded' => item' \in Published) /\ PublishedIsRecorded'
    BY <1>1, <2>2 DEF PublishedIsRecorded, chain
  <2> QED BY <1>2, <2>3, <2>4, <2>5 DEF Smooth
<1>4. CASE u = "officer"
  <2>1. loc # "none" /\ request \in {"OPEN", "CLOSED"}
    BY <1>1, <1>4 DEF Parts, Smooth, OfficerActs, Underway
  <2>2. item' = item \/ (item = "ACKNOWLEDGED" /\ item' = "PUBLISHED")
    <3>1. op["officer"].name \in {"acknowledge", "void", "issuer", "close"}
      BY <1>1, <1>4 DEF Smooth, OfficerActs, Underway
    <3>2. CASE op["officer"].name \in {"acknowledge", "void", "issuer"}
      BY <1>4, <3>2 DEF Undo, Retracted
    <3>3. CASE op["officer"].name = "close"
      BY <1>4, <3>3 DEF Undo, CloseUndone
    <3> QED BY <3>1, <3>2, <3>3
  <2>3. item = "ACKNOWLEDGED" => "published" \in recorded
    BY DEF Smooth, PublishedIsRecorded, Published
  <2>4. OfficerActs' /\ OfficerKnowsRequest' /\ OfficerKnowsItem'
    BY <1>1, <1>4, <2>1, <2>2 DEF Smooth, OfficerActs, OfficerKnowsRequest, OfficerKnowsItem, Class, Seen, Underway, Reads, Accepted
  <2>5. op'["requester"] = op["requester"]
    BY <1>u, <1>1, <1>4
  <2>6. RequesterActs' /\ RequesterKnowsRequest' /\ OpensWhatItSaw' /\ CancelsWhatItSaw'
    BY <1>1, <2>1, <2>5 DEF Parts, Smooth, RequesterActs, RequesterKnowsRequest, OpensWhatItSaw, CancelsWhatItSaw, Class, Seen
  <2>7. PublishesOnce' /\ ("published" \in recorded' => item' \in Published) /\ PublishedIsRecorded'
    BY <1>1, <2>2, <2>3, <2>5 DEF Smooth, PublishesOnce, PublishedIsRecorded, Published, chain
  <2> QED BY <1>2, <2>4, <2>6, <2>7 DEF Smooth
<1> QED BY <1>u, <1>3, <1>4

(* An opening failed, and the request that undoes it is sent. *)
LEMMA UnawaitedStep ==
  ASSUME Parts, Smooth, UndoUnawaited
  PROVE  Smooth'
<1>1. /\ op["requester"].at = "undoing" /\ op'["requester"].at = "idle" /\ op'["officer"] = op["officer"]
      /\ UNCHANGED <<backend, chain, object>> /\ cancelling'
  BY OpBecomes DEF UndoUnawaited, Users
<1>2. /\ Seen("requester").item \notin Published
      /\ item = IF op["requester"].auto /\ Seen("requester").item = "REVIEW_ACCEPTED" THEN "PUBLISHED"
                ELSE Seen("requester").item
  BY <1>1 DEF UndoUnawaited, Smooth, OpensWhatItSaw, Underway
<1>3. CancelsWhatItSaw'
  BY <1>1, <1>2 DEF CancelsWhatItSaw, Published, Underway, Seen, backend
<1>4. RequesterActs' /\ RequesterKnowsRequest' /\ OpensWhatItSaw' /\ PublishesOnce'
  BY <1>1 DEF RequesterActs, RequesterKnowsRequest, OpensWhatItSaw, PublishesOnce, Underway
<1>5. OfficerActs' /\ OfficerKnowsRequest' /\ OfficerKnowsItem'
  BY <1>1 DEF Smooth, OfficerActs, OfficerKnowsRequest, OfficerKnowsItem, Class, Seen, backend, chain
<1>6. ("published" \in recorded' => item' \in Published) /\ PublishedIsRecorded'
  BY <1>1 DEF Smooth, PublishedIsRecorded, backend, chain
<1>7. \A u \in Users : op'[u].at # "orphan"
  BY <1>1 DEF Smooth, Users
<1> QED BY <1>3, <1>4, <1>5, <1>6, <1>7 DEF Smooth

(* The backend gets it. *)
LEMMA CancelOpenStep ==
  ASSUME Parts, Smooth, CancelOpen
  PROVE  Smooth'
<1>1. /\ cancelling /\ ~cancelling' /\ request' = "REVIEW_ACCEPTED" /\ UNCHANGED <<chain, object, op>>
      /\ item' = IF item = "PUBLISHED" THEN "REVIEW_ACCEPTED" ELSE item
  BY DEF CancelOpen, OpenUndone
<1>2. request = "OPEN" /\ loc = "none" /\ recorded = {}
  BY <1>1 DEF Parts
<1>3. /\ op["requester"].at \notin Underway
      /\ Class("requester") # "none" => Seen("requester").item = item'
      /\ item' \notin Published
  BY <1>1 DEF Smooth, CancelsWhatItSaw, Published
<1>4. RequesterActs' /\ RequesterKnowsRequest' /\ OpensWhatItSaw' /\ CancelsWhatItSaw' /\ PublishesOnce'
  BY <1>1, <1>3 DEF RequesterActs, RequesterKnowsRequest, OpensWhatItSaw, CancelsWhatItSaw, PublishesOnce, Class, Seen
<1>5. OfficerActs' /\ OfficerKnowsRequest' /\ OfficerKnowsItem'
  BY <1>1, <1>2 DEF Smooth, OfficerActs, OfficerKnowsRequest, OfficerKnowsItem, Class, Seen, Accepted, chain
<1>6. ("published" \in recorded' => item' \in Published) /\ PublishedIsRecorded'
  BY <1>1, <1>2, <1>3 DEF PublishedIsRecorded, chain
<1> QED BY <1>1, <1>4, <1>5, <1>6 DEF Smooth

(* A client reads the request, or then the LOC, that the chain knows.      *)
LEMMA ReadingStep ==
  ASSUME Sound, Parts, Smooth, faults' = {}, NEW u \in Users, ReadRequest(u) \/ ReadChain(u)
  PROVE  Smooth'
<1>u. Users = {"requester", "officer"}
  BY DEF Users
<1>o. op \in [Users -> Ops] /\ object \in [Users -> [class : Classes, data : Backend, issuers : BOOLEAN]]
  BY DEF Parts
<1>1. /\ op[u].at \in Reads /\ (\A v \in Users \ {u} : op'[v] = op[v] /\ object'[v] = object[v])
      /\ UNCHANGED <<backend, chain, cancelling>>
      /\ \/ /\ op'[u].at = "read" /\ op'[u].read.item = item /\ object' = object
         \/ /\ op'[u].at = "idle" /\ request = "cancelled" /\ object'[u].class \in {"none", object[u].class}
         \/ /\ op'[u].at = "idle" /\ object'[u].class = "none"
         \/ /\ op'[u].at = "idle" /\ object'[u].class = RequestClass(request) /\ object'[u].data.item = item
            /\ request \in {"DRAFT", "REVIEW_PENDING", "REVIEW_ACCEPTED", "REVIEW_REJECTED"}
         \/ /\ op'[u].at = "idle" /\ op[u].at = "read" /\ loc # "none" /\ object'[u].data.item = op[u].read.item
            /\ object'[u].class \in {"OpenLoc", "ClosedLoc", "VoidedLoc"}
  <2>e. Ends(u) => op'[u].at = "idle" /\ \A v \in Users \ {u} : op'[v] = op[v]
    BY OpBecomes
  <2>1. CASE ReadRequest(u)
    <3>1. op[u].at = "reading" /\ UNCHANGED <<backend, chain, cancelling>>
      BY <2>1 DEF ReadRequest
    <3>2. CASE IsRead(u)
      <4>1. object' = object /\ op' = [op EXCEPT ![u] = [op[u] EXCEPT !.at = "read", !.read = Fetched]]
        BY <3>2 DEF IsRead
      <4> DEFINE r == [op[u] EXCEPT !.at = "read", !.read = Fetched]
      <4>2. r.at = "read" /\ r.read = Fetched
        BY <1>o DEF Ops
      <4> HIDE DEF r
      <4>3. op'[u] = r /\ \A v \in Users \ {u} : op'[v] = op[v]
        BY <1>o, <4>1 DEF r
      <4> QED BY <3>1, <4>1, <4>2, <4>3 DEF Reads, Fetched
    <3>3. CASE IsMissing(u)
      <4>1. Ends(u) /\ object' = IF op[u].name = "all" THEN [object EXCEPT ![u] = NoObject] ELSE object
        BY <3>3 DEF IsMissing
      <4>2. op[u].name # "all" => request = "cancelled"
        BY <3>3 DEF IsMissing
      <4>3. object' = [object EXCEPT ![u] = NoObject] \/ (request = "cancelled" /\ object' = object)
        BY <4>1, <4>2
      <4> QED BY <1>o, <2>e, <3>1, <4>1, <4>3 DEF Reads, NoObject
    <3>4. CASE IsRequest(u)
      <4>1. /\ Ends(u) /\ request \notin {"OPEN", "CLOSED", "cancelled"}
            /\ object' = [object EXCEPT ![u] = [class |-> RequestClass(request), data |-> Fetched, issuers |-> FALSE]]
        BY <3>4 DEF IsRequest
      <4>2. request # "none"
        BY <3>1 DEF Sound, WellFormed, NothingYet
      <4>3. request \in {"DRAFT", "REVIEW_PENDING", "REVIEW_ACCEPTED", "REVIEW_REJECTED"}
        BY <4>1, <4>2, TypeParts DEF Sound, WellFormed, BackendOK, Backend, RequestStatuses
      <4> QED BY <1>o, <2>e, <3>1, <4>1, <4>3 DEF Reads, Fetched
    <3> QED BY <2>1, <3>2, <3>3, <3>4, ReadingKinds
  <2>2. CASE ReadChain(u)
    <3>1. op[u].at = "read" /\ UNCHANGED <<backend, chain, cancelling>> /\ Ends(u) /\ loc # "none"
      BY <2>2 DEF ReadChain
    <3>2. object' = [object EXCEPT ![u] = [class |-> LocClass(op[u].read), data |-> op[u].read, issuers |-> Issuers]]
      BY <2>2, <3>1 DEF ReadChain
    <3>3. LocClass(op[u].read) \in {"OpenLoc", "ClosedLoc", "VoidedLoc"}
      BY DEF LocClass
    <3> QED BY <1>o, <2>e, <3>1, <3>2, <3>3 DEF Reads
  <2> QED BY <2>1, <2>2
<1>2. \A v \in Users : op'[v].at # "orphan"
  BY <1>1 DEF Smooth
<1>3. OfficerActs' /\ RequesterActs' /\ OpensWhatItSaw' /\ PublishesOnce'
  BY <1>u, <1>1 DEF Smooth, OfficerActs, RequesterActs, OpensWhatItSaw, PublishesOnce, Underway, Class, Seen, backend, chain
<1>4. ("published" \in recorded' => item' \in Published) /\ PublishedIsRecorded'
  BY <1>u, <1>1 DEF Smooth, PublishedIsRecorded, Underway, Reads, backend, chain
<1>8. CancelsWhatItSaw'
  BY <1>u, <1>1 DEF Parts, Smooth, CancelsWhatItSaw, Underway, Reads, Class, Seen, backend
<1>5. RequesterKnowsRequest'
  BY <1>u, <1>1 DEF Smooth, RequesterKnowsRequest, RequestClass, Class, Seen, backend
<1>6. OfficerKnowsRequest'
  BY <1>u, <1>1 DEF Smooth, OfficerKnowsRequest, RequestClass, Class, Reads, backend
<1>7. OfficerKnowsItem'
  <2>1. CASE u = "requester"
    BY <1>u, <1>1, <2>1 DEF Smooth, OfficerKnowsItem, Class, Seen, backend
  <2>2. CASE u = "officer"
    <3> SUFFICES ASSUME item \in Accepted
                 PROVE  \/ op'["officer"].at = "read" /\ op'["officer"].read.item # "none"
                        \/ /\ op'["officer"].at \notin Reads
                           /\ object'["officer"].class = "OpenLoc" => object'["officer"].data.item # "none"
      BY <1>1 DEF OfficerKnowsItem, Class, Seen, backend
    <3>1. item # "none"
      BY DEF Accepted
    <3>2. request = "cancelled" => object["officer"].class # "OpenLoc"
      BY DEF Parts, Users
    <3>3. op["officer"].at = "read" => op["officer"].read.item # "none"
      BY DEF Smooth, OfficerKnowsItem, Reads
    <3> QED BY <1>1, <2>2, <3>1, <3>2, <3>3 DEF RequestClass, Reads
  <2> QED BY <1>u, <2>1, <2>2
<1> QED BY <1>2, <1>3, <1>4, <1>5, <1>6, <1>7, <1>8 DEF Smooth

(* A client refreshes, or fails before anything was done. *)
LEMMA RefuseStep ==
  ASSUME Parts, Smooth, NEW u \in Users, Refresh(u) \/ RefreshAll(u) \/ Refuse(u)
  PROVE  Smooth'
<1>o. op \in [Users -> Ops]
  BY DEF Parts
<1>1. CASE Refresh(u) \/ RefreshAll(u)
  <2>1. op[u].at = "idle" /\ op'[u].at = "reading" /\ (\A v \in Users \ {u} : op'[v] = op[v]) /\ UNCHANGED <<backend, chain, object, cancelling>>
    BY <1>o, <1>1, OpBecomes DEF Refresh, RefreshAll, Idle
  <2> QED BY <2>1, QuietUser DEF Underway
<1>2. CASE Refuse(u)
  <2>1. op[u].at = "submitted" /\ op' = [op EXCEPT ![u] = [op[u] EXCEPT !.at = "undoing"]] /\ UNCHANGED <<backend, chain, object, cancelling>>
    BY <1>2 DEF Refuse, At, Smooth
  <2> DEFINE r == [op[u] EXCEPT !.at = "undoing"]
  <2>2. r.at = "undoing" /\ r.name = op[u].name /\ r.auto = op[u].auto
    BY <1>o DEF Ops
  <2> HIDE DEF r
  <2>3. op'[u] = r /\ \A v \in Users \ {u} : op'[v] = op[v]
    BY <1>o, <2>1 DEF r
  <2>4. \A v \in Users : /\ op'[v].at # "orphan"
                         /\ op'[v].at \in Underway <=> op[v].at \in Underway
                         /\ op'[v].at \in Underway => op'[v].name = op[v].name /\ op'[v].auto = op[v].auto
                         /\ \/ op'[v].at = op[v].at /\ op'[v].read = op[v].read
                            \/ op[v].at = "submitted" /\ op'[v].at = "undoing"
    BY <2>1, <2>2, <2>3 DEF Smooth, Underway
  <2>5. OfficerActs' /\ RequesterActs' /\ OpensWhatItSaw' /\ CancelsWhatItSaw' /\ PublishesOnce'
    BY <2>1, <2>4 DEF Smooth, CancelsWhatItSaw, OfficerActs, RequesterActs, OpensWhatItSaw, PublishesOnce, Class, Seen, Users, backend, chain
  <2>6. OfficerKnowsRequest' /\ OfficerKnowsItem' /\ RequesterKnowsRequest'
    BY <2>1, <2>4 DEF Smooth, OfficerKnowsRequest, OfficerKnowsItem, RequesterKnowsRequest, Reads, Class, Seen, Users, backend
  <2>7. ("published" \in recorded' => item' \in Published) /\ PublishedIsRecorded'
    BY <2>1, <2>4 DEF Smooth, PublishedIsRecorded, Users, backend, chain
  <2> QED BY <2>4, <2>5, <2>6, <2>7 DEF Smooth
<1> QED BY <1>1, <1>2

(* Every step without fault keeps it. *)
LEMMA SmoothStep == Sound /\ SmoothInv /\ [Next]_vars => SmoothInv'
<1> SUFFICES ASSUME Sound, SmoothInv, [Next]_vars, faults' = {} PROVE Smooth'
  BY DEF SmoothInv
<1>1. Parts /\ Smooth
  BY SoundParts, FaultsGrow DEF SmoothInv
<1>2. CASE IssuerAcknowledgesItem \/ Follow \/ UNCHANGED vars
  <2>1. /\ UNCHANGED <<request, item, loc, object, op, cancelling>>
        /\ "published" \in recorded' <=> "published" \in recorded
    BY <1>2 DEF IssuerAcknowledgesItem, Follow, vars, backend, chain
  <2> QED BY <1>1, <2>1 DEF Smooth, OfficerActs, OfficerKnowsRequest, OfficerKnowsItem, RequesterActs,
             RequesterKnowsRequest, OpensWhatItSaw, CancelsWhatItSaw, PublishesOnce, PublishedIsRecorded, Class, Seen
<1>3. ~CancelOpenFails /\ \A u \in Users : ~Interrupt(u)
  BY DEF CancelOpenFails, Interrupt
<1> QED BY <1>1, <1>2, <1>3, ReviewStep, RequestLocStep, RequesterStarts, OfficerActsStep, IncludeStep, UndoStep,
           UnawaitedStep, CancelOpenStep, ReadingStep, RefuseStep DEF Next

(* What is published on chain is published for the backend and, once the   *)
(* requester's operation is over, the other way round, if nothing failed.  *)
THEOREM PublicationsAgree == Spec => []PublishedTogether
<1>1. Init => SmoothInv
  <2> SUFFICES ASSUME Init PROVE Smooth
    BY DEF SmoothInv
  <2>1. \A u \in Users : object[u].class = "none" /\ op[u].at = "idle"
    BY DEF Init, NoObject, Idle
  <2> QED BY <2>1 DEF Init, Smooth, OfficerActs, OfficerKnowsRequest, OfficerKnowsItem, RequesterActs,
             RequesterKnowsRequest, OpensWhatItSaw, CancelsWhatItSaw, PublishesOnce, PublishedIsRecorded, Class, Users,
             Underway, Accepted, Published
<1>2. Init => ItemInv
  BY ItemInit
<1>3. WellFormed /\ LifeInv /\ ItemInv /\ SmoothInv /\ [Next]_vars => SmoothInv'
  BY SmoothStep DEF Sound
<1>4. SmoothInv => PublishedTogether
  BY DEF SmoothInv, Smooth, PublishedIsRecorded, PublishedTogether, Published, Underway
<1> QED BY <1>1, <1>2, <1>3, <1>4, TypeCorrect, LifeIsConsistent, ItemStep, PTL DEF Spec
=============================================================================
