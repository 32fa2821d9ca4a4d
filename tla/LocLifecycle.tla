---------------------------- MODULE LocLifecycle -----------------------------
(***************************************************************************)
(* packages/client/src/Loc.ts: the life of one LOC and of one of its items *)
(* (a file or a metadata; links differ in LocOperations) in the hands of   *)
(* two clients, the requester's and the owning legal officer's.  The       *)
(* class of the object a client holds, DraftRequest, PendingRequest, ...,  *)
(* VoidedLoc, offers the operations.  A verified issuer takes part too; it *)
(* always reads before it acts and its operations take one step.           *)
(*                                                                         *)
(* An operation is a request to the backend, possibly an extrinsic and     *)
(* what undoes the request if it is refused (LocClient.ts), then a         *)
(* refresh: the request is read from the backend first and, only when the  *)
(* backend says OPEN or CLOSED, the LOC from the chain.  The object does   *)
(* not change before the end, and each client works from what it last      *)
(* read.  The start of an operation and its first request are one step: in *)
(* between, nothing but the object of the caller matters.                  *)
(***************************************************************************)
EXTENDS Naturals, FiniteSets

CONSTANT
  MaxInterrupts   \* bound: how many clients stop half-way in an operation

ASSUME ConstantsAssumption == MaxInterrupts \in Nat

Users == {"requester", "officer"}

Submitters == {"requester", "issuer"}

VARIABLES
  request,     \* in the backend: the status of the LOC,
  item,        \* of its item,
  submitter,   \* who submitted the item,
  dates,       \* what the backend learnt from the chain about it
  loc,         \* on chain: the LOC,
  voided,
  recorded,    \* what the chain knows of the item,
  issuer,      \* the verified issuer: never selected, selected or not any more
  object,      \* what each client holds,
  op,          \* and does
  cancelling,  \* whether a request that undoes an opening is under way, that nobody awaits
  faults       \* history: the clients whose operations ended half-way, and whether
               \* the acknowledgement of an item came before its publication

backend == <<request, item, submitter, dates>>
chain == <<loc, voided, recorded, issuer>>
vars == <<backend, chain, object, op, cancelling, faults>>

ItemStatuses == {"none", "DRAFT", "REVIEW_PENDING", "REVIEW_ACCEPTED",
                 "REVIEW_REJECTED", "PUBLISHED", "ACKNOWLEDGED"}

RequestStatuses == {"DRAFT", "REVIEW_PENDING", "REVIEW_ACCEPTED", "REVIEW_REJECTED",
                    "OPEN", "CLOSED"}

Facts == {"published", "byOwner", "byIssuer"}

Requests == {"DraftRequest", "PendingRequest", "AcceptedRequest", "RejectedRequest"}

Classes == {"none", "OpenLoc", "ClosedLoc", "VoidedLoc"} \union Requests

(* The classes whose objects have on-chain data, in the order of a life. *)
Rank(class) ==
  CASE class = "OpenLoc" -> 1 [] class = "ClosedLoc" -> 2 [] class = "VoidedLoc" -> 3
    [] OTHER -> 0

Backend == [request : RequestStatuses \union {"none", "cancelled"},
            item : ItemStatuses, submitter : Submitters, dates : SUBSET Facts]

Nothing == [request |-> "none", item |-> "none", submitter |-> "requester", dates |-> {}]

NoObject == [class |-> "none", data |-> Nothing, issuers |-> FALSE]

Idle == [name |-> "none", at |-> "idle", auto |-> FALSE, read |-> Nothing]

TypeOK ==
  /\ [request |-> request, item |-> item, submitter |-> submitter, dates |-> dates] \in Backend
  /\ loc \in {"none", "open", "closed"} /\ voided \in BOOLEAN
  /\ recorded \subseteq Facts
  /\ issuer \in {"never", "selected", "unselected"}
  /\ object \in [Users -> [class : Classes, data : Backend, issuers : BOOLEAN]]
  /\ op \in [Users -> [auto : BOOLEAN, read : Backend,
                       name : {"none", "all", "open", "publish", "acknowledge", "close", "void",
                               "issuer"},
                       at : {"idle", "submitted", "orphan", "undoing", "reading", "read"}]]
  /\ cancelling \in BOOLEAN
  /\ faults \subseteq Users \union {"early"}

Init ==
  /\ request = "none" /\ item = "none" /\ submitter = "requester" /\ dates = {}
  /\ loc = "none" /\ voided = FALSE /\ recorded = {} /\ issuer = "never"
  /\ object = [u \in Users |-> NoObject]
  /\ op = [u \in Users |-> Idle]
  /\ cancelling = FALSE
  /\ faults = {}

-----------------------------------------------------------------------------
(* Objects. *)

(* createFromRequest: while the request is under review, its status makes  *)
(* the class.                                                              *)
RequestClass(status) ==
  CASE status = "DRAFT" -> "DraftRequest"
    [] status = "REVIEW_PENDING" -> "PendingRequest"
    [] status = "REVIEW_ACCEPTED" -> "AcceptedRequest"
    [] status = "REVIEW_REJECTED" -> "RejectedRequest"

(* Mutant of LocClass: the backend's word is taken for the chain's. *)
LocClassOfRequest(data) ==
  IF voided THEN "VoidedLoc" ELSE IF data.request = "CLOSED" THEN "ClosedLoc" ELSE "OpenLoc"

(* refreshLoc: then, it is what the chain says. *)
LocClass(data) ==
  IF voided THEN "VoidedLoc" ELSE IF loc = "closed" THEN "ClosedLoc" ELSE "OpenLoc"

(* getLocIssuers lists the issuers of the backend, then those of the chain.*)
(* The backend goes on listing an issuer that is not selected any more.    *)
Issuers == issuer # "never"

Fetched == [request |-> request, item |-> item, submitter |-> submitter, dates |-> dates]

Class(u) == object[u].class
Seen(u) == object[u].data

At(u, phase) == op' = [op EXCEPT ![u].at = phase]

Ends(u) == op' = [op EXCEPT ![u] = Idle]

(* An operation that changed the backend only goes on with its refresh. *)
Calls(u) ==
  /\ op[u].at = "idle"
  /\ op' = [op EXCEPT ![u] = [Idle EXCEPT !.at = "reading"]]
  /\ UNCHANGED <<chain, object, cancelling, faults>>

(* One that was announced to the backend goes on with its extrinsic. *)
Announces(u, name, auto) ==
  /\ op[u].at = "idle"
  /\ op' = [op EXCEPT ![u] = [Idle EXCEPT !.name = name, !.at = "submitted", !.auto = auto]]
  /\ UNCHANGED <<chain, object, cancelling, faults>>

-----------------------------------------------------------------------------
(* The requester's operations on its request. *)

(* requestLoc, as a draft or not: the response makes the object. *)
RequestLoc ==
  /\ request = "none"
  /\ request' \in {"DRAFT", "REVIEW_PENDING"}
  /\ object' = [object EXCEPT !["requester"] =
                  [class |-> RequestClass(request'), issuers |-> FALSE,
                   data |-> [Fetched EXCEPT !.request = request']]]
  /\ UNCHANGED <<item, submitter, dates, chain, op, cancelling, faults>>

(* The draft items are submitted with their LOC. *)
Submit ==
  /\ Class("requester") = "DraftRequest" /\ request = "DRAFT"
  /\ request' = "REVIEW_PENDING"
  /\ item' = IF item = "DRAFT" THEN "REVIEW_PENDING" ELSE item
  /\ Calls("requester")
  /\ UNCHANGED <<submitter, dates>>

Rework ==
  /\ Class("requester") \in {"RejectedRequest", "AcceptedRequest"}
  /\ request \in {"REVIEW_REJECTED", "REVIEW_ACCEPTED"}
  /\ request' = "DRAFT"
  /\ Calls("requester")
  /\ UNCHANGED <<item, submitter, dates>>

(* finalizeOnSuccess then refreshWithout: nothing is left to refresh. *)
Cancel ==
  /\ op["requester"].at = "idle"
  /\ Class("requester") \in {"DraftRequest", "RejectedRequest", "AcceptedRequest"}
  /\ request \in {"DRAFT", "REVIEW_REJECTED", "REVIEW_ACCEPTED"}
  /\ request' = "cancelled"
  /\ object' = [object EXCEPT !["requester"] = NoObject]
  /\ UNCHANGED <<item, submitter, dates, chain, op, cancelling, faults>>

-----------------------------------------------------------------------------
(* EditableRequest: a draft is edited by its requester, an open LOC by the *)
(* verified issuers too.                                                   *)

RequesterEdits ==
  /\ \/ Class("requester") = "DraftRequest" /\ request = "DRAFT"
     \/ Class("requester") = "OpenLoc" /\ request = "OPEN"
  /\ Calls("requester")

IssuerEdits ==
  /\ issuer = "selected" /\ loc = "open" /\ ~voided /\ request = "OPEN"
  /\ UNCHANGED <<chain, object, op, cancelling, faults>>

Edits(who) == IF who = "requester" THEN RequesterEdits ELSE IssuerEdits

AddItem(who) ==
  /\ Edits(who)
  /\ item = "none"
  /\ item' = "DRAFT" /\ submitter' = who
  /\ UNCHANGED <<request, dates>>

DeleteItem(who) ==
  /\ Edits(who) /\ submitter = who
  /\ item \in {"DRAFT", "REVIEW_REJECTED"}
  /\ item' = "none"
  /\ UNCHANGED <<request, submitter, dates>>

RequestItemReview(who) ==
  /\ Edits(who) /\ submitter = who
  /\ item = "DRAFT"
  /\ item' = "REVIEW_PENDING"
  /\ UNCHANGED <<request, submitter, dates>>

-----------------------------------------------------------------------------
(* The legal officer's review. *)

ReviewItem ==
  /\ Class("officer") \in {"PendingRequest", "OpenLoc"}
  /\ request \in {"REVIEW_PENDING", "OPEN"}
  /\ item = "REVIEW_PENDING"
  /\ item' \in {"REVIEW_ACCEPTED", "REVIEW_REJECTED"}
  /\ Calls("officer")
  /\ UNCHANGED <<request, submitter, dates>>

RejectLoc ==
  /\ Class("officer") = "PendingRequest" /\ request = "REVIEW_PENDING"
  /\ request' = "REVIEW_REJECTED"
  /\ Calls("officer")
  /\ UNCHANGED <<item, submitter, dates>>

(* For a requester that has an account: acceptLoc, whatever the type. *)
AcceptLoc ==
  /\ Class("officer") = "PendingRequest" /\ request = "REVIEW_PENDING"
  /\ request' = "REVIEW_ACCEPTED"
  /\ Calls("officer")
  /\ UNCHANGED <<item, submitter, dates>>

-----------------------------------------------------------------------------
(* The operations that end on chain.  Each comes with what announces it to *)
(* the backend, what the extrinsic does and what undoes the announcement.  *)

(* open and openCollection.  With autoPublish, the backend publishes what  *)
(* it has accepted, the extrinsic what the object shows as accepted.       *)
Open(auto) ==
  /\ Class("requester") = "AcceptedRequest" /\ request = "REVIEW_ACCEPTED"
  /\ request' = "OPEN"
  /\ item' = IF auto /\ item = "REVIEW_ACCEPTED" THEN "PUBLISHED" ELSE item
  /\ Announces("requester", "open", auto)
  /\ UNCHANGED <<submitter, dates>>

(* Mutant of Opened: an item is published unless it was rejected. *)
OpenedWithAny ==
  /\ loc = "none" /\ loc' = "open"
  /\ recorded' = IF op["requester"].auto /\ Seen("requester").item \notin {"none", "REVIEW_REJECTED"}
                 THEN {"published"} ELSE {}
  /\ UNCHANGED <<voided, issuer>>

Opened ==
  /\ loc = "none" /\ loc' = "open"
  /\ recorded' = IF op["requester"].auto /\ Seen("requester").item = "REVIEW_ACCEPTED"
                 THEN {"published"} ELSE {}
  /\ UNCHANGED <<voided, issuer>>

(* Mutant of OpenUndone: a request that could not be opened stays open. *)
OpenNotUndone ==
  item' = (IF item = "PUBLISHED" THEN "REVIEW_ACCEPTED" ELSE item) /\ UNCHANGED request

OpenUndone ==
  /\ request' = "REVIEW_ACCEPTED"
  /\ item' = IF item = "PUBLISHED" THEN "REVIEW_ACCEPTED" ELSE item

(* publishFile, publishMetadata, publishLink: ensureCanPublish lets the    *)
(* requester only, findFile and the others the items accepted in review.   *)
PublishItem ==
  /\ Class("requester") = "OpenLoc" /\ Seen("requester").item = "REVIEW_ACCEPTED"
  /\ request = "OPEN" /\ item = "REVIEW_ACCEPTED"
  /\ item' = "PUBLISHED"
  /\ Announces("requester", "publish", FALSE)
  /\ UNCHANGED <<request, submitter, dates>>

(* The officer's acknowledgeFile and the others.  What becomes of the      *)
(* status while the issuer's acknowledgement is missing is up to the       *)
(* backend.                                                                *)
AcknowledgeItem ==
  /\ op["officer"].at = "idle"
  /\ Class("officer") = "OpenLoc" /\ Seen("officer").item = "PUBLISHED"
  /\ request = "OPEN" /\ item = "PUBLISHED"
  /\ \/ item' = "ACKNOWLEDGED"
     \/ item' = "PUBLISHED" /\ submitter = "issuer"
  /\ op' = [op EXCEPT !["officer"] = [Idle EXCEPT !.name = "acknowledge", !.at = "submitted"]]
  /\ faults' = IF "published" \in recorded THEN faults ELSE faults \union {"early"}
  /\ UNCHANGED <<request, submitter, dates, chain, object, cancelling>>

(* The issuer's, which leaves the status as it is. *)
IssuerAcknowledgesItem ==
  /\ issuer = "selected" /\ request = "OPEN" /\ item = "PUBLISHED"
  /\ loc = "open" /\ ~voided
  /\ "published" \in recorded /\ "byIssuer" \notin recorded
  /\ recorded' = recorded \union {"byIssuer"}
  /\ UNCHANGED <<backend, loc, voided, issuer, object, op, cancelling, faults>>

(* Mutant of IsPublishedOnChain: the status is enough. *)
HasPublishedStatus(data) == data.item = "PUBLISHED"

IsPublishedOnChain(data) == data.item = "PUBLISHED" /\ "published" \in data.dates

NeedsIssuer(o) == o.issuers /\ o.data.submitter = "issuer"

IsAcknowledgedOnChain(o) ==
  /\ o.data.item = "ACKNOWLEDGED"
  /\ "byOwner" \in o.data.dates
  /\ NeedsIssuer(o) => "byIssuer" \in o.data.dates

IsReadyForAutoAck(o) ==
  \/ IsAcknowledgedOnChain(o)
  \/ IsPublishedOnChain(o.data) /\ (NeedsIssuer(o) => "byIssuer" \in o.data.dates)

CanClose(o, autoAck) ==
  \/ o.data.item = "none"
  \/ IF autoAck THEN IsReadyForAutoAck(o) ELSE IsAcknowledgedOnChain(o)

Close(autoAck) ==
  /\ Class("officer") = "OpenLoc" /\ CanClose(object["officer"], autoAck)
  /\ request = "OPEN"
  /\ request' = "CLOSED"
  /\ item' = IF autoAck /\ item = "PUBLISHED" THEN "ACKNOWLEDGED" ELSE item
  /\ Announces("officer", "close", autoAck)
  /\ UNCHANGED <<submitter, dates>>

(* CannotCloseUnacknowledgedByOwner, ...ByVerifiedIssuer. *)
Closed ==
  /\ loc = "open" /\ ~voided
  /\ "published" \in recorded =>
       /\ op["officer"].auto \/ "byOwner" \in recorded
       /\ submitter = "issuer" => "byIssuer" \in recorded
  /\ loc' = "closed"
  /\ recorded' = recorded \union {f \in {"byOwner"} : "published" \in recorded}
  /\ UNCHANGED <<voided, issuer>>

(* Mutant of CloseUndone: what undoes an opening is called. *)
CloseUndoneAsOpening == request' = "REVIEW_ACCEPTED" /\ UNCHANGED item

CloseUndone ==
  /\ request' = "OPEN"
  /\ item' = IF op["officer"].auto /\ item = "ACKNOWLEDGED" /\ "byOwner" \notin dates
             THEN "PUBLISHED" ELSE item

VoidLoc ==
  /\ Class("officer") \in {"OpenLoc", "ClosedLoc"}
  /\ Announces("officer", "void", FALSE)
  /\ UNCHANGED backend

(* selectIssuer and unselectIssuer, from the list of getVerifiedIssuers:   *)
(* nothing is announced.                                                   *)
SetIssuerSelection(selected) ==
  /\ Class("officer") = "OpenLoc" /\ selected = (issuer # "selected")
  /\ Announces("officer", "issuer", selected)
  /\ UNCHANGED backend

-----------------------------------------------------------------------------
(* The chain includes the extrinsic of a client, or refuses it. *)

Effect(u) ==
  CASE op[u].name = "open" -> Opened
    [] op[u].name = "publish" ->
         /\ loc = "open" /\ ~voided /\ "published" \notin recorded
         /\ recorded' = {"published"}
         /\ UNCHANGED <<loc, voided, issuer>>
    [] op[u].name = "acknowledge" ->
         /\ loc = "open" /\ ~voided
         /\ "published" \in recorded /\ "byOwner" \notin recorded
         /\ recorded' = recorded \union {"byOwner"}
         /\ UNCHANGED <<loc, voided, issuer>>
    [] op[u].name = "close" -> Closed
    [] op[u].name = "void" ->
         /\ ~voided /\ voided' = TRUE
         /\ UNCHANGED <<loc, recorded, issuer>>
    [] op[u].name = "issuer" ->
         /\ loc = "open" /\ ~voided
         /\ issuer' = IF op[u].auto THEN "selected" ELSE "unselected"
         /\ UNCHANGED <<loc, voided, recorded>>

Include(u) ==
  /\ \/ op[u].at = "submitted" /\ op' = [op EXCEPT ![u] = [Idle EXCEPT !.at = "reading"]]
     \/ op[u].at = "orphan" /\ Ends(u)
  /\ Effect(u)
  /\ UNCHANGED <<backend, object, cancelling, faults>>

Refuse(u) ==
  /\ \/ op[u].at = "submitted" /\ At(u, "undoing")
     \/ op[u].at = "orphan" /\ Ends(u)
  /\ UNCHANGED <<backend, chain, object, cancelling, faults>>

(* DELETE pre-publish-ack and pre-ack: from the status they were to undo. *)
Retracted(from, to) ==
  /\ item' = IF item = from THEN to ELSE item
  /\ UNCHANGED request

(* The catch block, then the exception. *)
Undo(u) ==
  /\ op[u].at = "undoing"
  /\ CASE op[u].name = "open" -> OpenUndone
       [] op[u].name = "publish" -> Retracted("PUBLISHED", "REVIEW_ACCEPTED")
       [] op[u].name = "acknowledge" -> Retracted("ACKNOWLEDGED", "PUBLISHED")
       [] op[u].name = "close" -> CloseUndone
       [] OTHER -> UNCHANGED <<request, item>>
  /\ Ends(u)
  /\ UNCHANGED <<submitter, dates, chain, object, cancelling, faults>>

(* openTransactionLoc does not await it.  The type of the LOC is left out: *)
(* an opening fails in this way or the other one.                          *)
UndoUnawaited ==
  /\ op["requester"].at = "undoing" /\ op["requester"].name = "open"
  /\ cancelling' = TRUE
  /\ Ends("requester")
  /\ UNCHANGED <<backend, chain, object, faults>>

(* The request arrives whatever was done meanwhile, *)
CancelOpen ==
  /\ cancelling /\ cancelling' = FALSE
  /\ OpenUndone
  /\ UNCHANGED <<submitter, dates, chain, object, op, faults>>

(* or fails, and nobody knows. *)
CancelOpenFails ==
  /\ cancelling /\ cancelling' = FALSE
  /\ Cardinality(faults) < MaxInterrupts
  /\ faults' = faults \union {"requester"}
  /\ UNCHANGED <<backend, chain, object, op>>

(* The backend follows the events of the chain. *)
Follow ==
  /\ dates # recorded /\ dates' = recorded
  /\ UNCHANGED <<request, item, submitter, chain, object, op, cancelling, faults>>

-----------------------------------------------------------------------------
(* LocRequestState.refresh. *)
Refresh(u) ==
  /\ Class(u) # "none"
  /\ Calls(u)
  /\ UNCHANGED backend

(* LocsState.refresh, or the LOCs of a client that starts. *)
RefreshAll(u) ==
  /\ op[u].at = "idle" /\ request \notin {"none", "cancelled"}
  /\ op' = [op EXCEPT ![u] = [Idle EXCEPT !.name = "all", !.at = "reading"]]
  /\ UNCHANGED <<backend, chain, object, cancelling, faults>>

(* getLocRequest or fetchAll; the latter returns neither what was cancelled*)
(* nor what the node has when it does not answer.                          *)
ReadRequest(u) ==
  /\ op[u].at = "reading"
  /\ \/ /\ request \in {"OPEN", "CLOSED"}
        /\ op' = [op EXCEPT ![u].at = "read", ![u].read = Fetched]
        /\ UNCHANGED object
     \/ /\ request = "cancelled" \/ op[u].name = "all"
        /\ Ends(u)
        /\ object' = IF op[u].name = "all" THEN [object EXCEPT ![u] = NoObject] ELSE object
     \/ /\ request \notin {"OPEN", "CLOSED", "cancelled"}
        /\ Ends(u)
        /\ object' = [object EXCEPT ![u] = [class |-> RequestClass(request),
                                             data |-> Fetched, issuers |-> FALSE]]
  /\ UNCHANGED <<backend, chain, cancelling, faults>>

(* getLocIssuers and getLoc, or toState.  No LOC: refresh throws and the   *)
(* object stays, LocsState.refresh leaves the LOC out.                     *)
ReadChain(u) ==
  /\ op[u].at = "read"
  /\ Ends(u)
  /\ object' =
       IF loc # "none"
       THEN [object EXCEPT ![u] = [class |-> LocClass(op[u].read), data |-> op[u].read,
                                    issuers |-> Issuers]]
       ELSE IF op[u].name = "all" THEN [object EXCEPT ![u] = NoObject] ELSE object
  /\ faults' = IF loc = "none" THEN faults \union {u} ELSE faults
  /\ UNCHANGED <<backend, chain, cancelling>>

(* A request fails, an answer is lost or the client goes away. *)
Interrupt(u) ==
  /\ Cardinality(faults) < MaxInterrupts
  /\ op[u].at \notin {"idle", "orphan"}
  /\ IF op[u].at = "submitted" THEN At(u, "orphan") ELSE Ends(u)
  /\ faults' = faults \union {u}
  /\ UNCHANGED <<backend, chain, object, cancelling>>

-----------------------------------------------------------------------------
Next ==
  \/ RequestLoc \/ Submit \/ Rework \/ Cancel
  \/ \E who \in Submitters : AddItem(who) \/ DeleteItem(who) \/ RequestItemReview(who)
  \/ ReviewItem \/ RejectLoc \/ AcceptLoc
  \/ PublishItem \/ AcknowledgeItem \/ IssuerAcknowledgesItem \/ VoidLoc
  \/ \E auto \in BOOLEAN : Open(auto) \/ Close(auto) \/ SetIssuerSelection(auto)
  \/ \E u \in Users : Include(u) \/ Refuse(u) \/ Undo(u)
  \/ UndoUnawaited \/ CancelOpen \/ CancelOpenFails \/ Follow
  \/ \E u \in Users : Refresh(u) \/ RefreshAll(u) \/ ReadRequest(u) \/ ReadChain(u)
  \/ \E u \in Users : Interrupt(u)

Spec == Init /\ [][Next]_vars

-----------------------------------------------------------------------------
(* No client takes for open, closed or void a LOC that is not, although    *)
(* the backend says OPEN and CLOSED before the chain has decided.          *)
ClassIsTrue ==
  \A u \in Users :
    /\ Class(u) = "OpenLoc" => loc # "none"
    /\ Class(u) = "ClosedLoc" => loc = "closed"
    /\ Class(u) = "VoidedLoc" => voided

(* No client goes back from void to closed or from closed to open, nor     *)
(* from any of them to a request.                                          *)
ClassGoesForward ==
  [][\A u \in Users :
       object'[u].class # "none" => Rank(object'[u].class) >= Rank(object[u].class)]_vars

(* Unless an operation was interrupted, a LOC that is missing from the     *)
(* lists because the chain does not know it is one that is being opened,   *)
(* or whose opening failed and is being undone, awaited or not.            *)
OpeningIsPending ==
  request = "OPEN" /\ loc = "none" /\ "requester" \notin faults =>
    \/ op["requester"].name = "open" /\ op["requester"].at \in {"submitted", "undoing"}
    \/ cancelling

(* The conditions of the client for closing rest on data that is old, but  *)
(* what they found is on chain: such a close is not refused on their       *)
(* account.                                                                *)
ReadyIsOnChain ==
  LET o == object["officer"] IN
  op["officer"].name = "close" /\ op["officer"].at = "submitted" /\ o.data.item # "none" =>
    /\ "published" \in recorded
    /\ op["officer"].auto \/ "byOwner" \in recorded
    /\ NeedsIssuer(o) => "byIssuer" \in recorded

(* What is published on chain was accepted in review and is published for  *)
(* the backend, also when the items are published with the opening; and,   *)
(* without interruption, operation in flight nor opening to be undone, the *)
(* other way round.                                                        *)
PublishedTogether ==
  /\ "published" \in recorded /\ faults = {} => item \in {"PUBLISHED", "ACKNOWLEDGED"}
  /\ item \in {"PUBLISHED", "ACKNOWLEDGED"} /\ faults = {} /\ op["requester"].at = "idle" /\ ~cancelling =>
       "published" \in recorded
=============================================================================
