-------------------------------- MODULE Vault ---------------------------------
(***************************************************************************)
(* packages/client/src/Vault.ts, VaultClient.ts and node-api's             *)
(* VaultClass.ts: transfers out of a vault.  A transfer is a multisig on   *)
(* chain, that a legal officer approves, and a request in the backend of   *)
(* that legal officer, that leads to it: it holds the timepoint (block and *)
(* index) the chain wants for an approval or a cancellation.  The user     *)
(* creates the multisig first and the request second, cancels in the same  *)
(* order, and sees both through the lists of a VaultState.                 *)
(*                                                                         *)
(* VaultState is a State: an operation replaces the object it began with   *)
(* or throws, as in CompareAndSet.  An extrinsic is one of                 *)
(* SubmissionContract.  A transfer stands for its timepoint and for its    *)
(* request; the requests are then a function, and the sorted lists of      *)
(* VaultState sets: what is listed twice counts once.  The vault of a lost *)
(* account differs by the wrapping of its extrinsics in                    *)
(* recovery.asRecovered only.                                              *)
(*                                                                         *)
(* The user gives an operation a VaultTransferRequest, however old: its    *)
(* status may be pending while the request shows as rejected, settled or   *)
(* not at all, and the other way round.  Objects that say themselves that  *)
(* the request is settled are left out: the chain or the backend refuses   *)
(* what is asked for them, before the status is looked at.                 *)
(***************************************************************************)
EXTENDS FiniteSets

CONSTANTS
  Transfers,    \* those that may be made
  Call,         \* what each of them does: an amount and a destination
  Operations    \* operations of the client that may overlap

ASSUME ConstantsAssumption == Transfers # {} /\ DOMAIN Call = Transfers

VARIABLES
  multisig,   \* on chain: what became of each transfer
  request,    \* in the backend: the status of its request
  shown,      \* the lists of the current VaultState
  outdated,   \* history: the requests acted upon through an object that was not
              \* in its list any more, since the lists were last fetched
  op,         \* the operations in flight
  faults      \* history: what went wrong so far

lists == <<shown, outdated>>
vars == <<multisig, request, lists, op, faults>>

Statuses == {"PENDING", "REJECTED", "CANCELLED", "REJECTED_CANCELLED", "ACCEPTED"}

Lists == {"pending", "rejected", "cancelled", "accepted"}

(* The lists that operations take requests away from. *)
Open == {"pending", "rejected"}

(* filterByStatuses in fetchAll. *)
StatusesOf(list) ==
  CASE list = "pending"   -> {"PENDING"}
    [] list = "rejected"  -> {"REJECTED"}
    [] list = "cancelled" -> {"CANCELLED", "REJECTED_CANCELLED"}
    [] list = "accepted"  -> {"ACCEPTED"}

(* A client that stopped or a request that failed after the extrinsic; an  *)
(* operation whose result was not seen, as it lost its object to another   *)
(* one, or a node that is silent.                                          *)
Faults == {"interrupted", "unseen"}

NoList == [list \in Lists |-> {}]

Operation ==
  [kind : {"none", "create", "cancel", "resubmit", "refresh"},
   at : {"idle", "submitted", "orphan", "posting", "answered", "reading", "read"},
   live : BOOLEAN,                \* is the object it began with the current one?
   transfer : Transfers,
   from : Open,                   \* the status of the object the user gave
   read : [Lists -> SUBSET Transfers]]

Idle == [kind |-> "none", at |-> "idle", live |-> FALSE,
         transfer |-> CHOOSE t \in Transfers : TRUE, from |-> "pending", read |-> NoList]

TypeOK ==
  /\ multisig \in [Transfers -> {"none", "pending", "executed", "cancelled"}]
  /\ request \in [Transfers -> Statuses \union {"none"}]
  /\ shown \in [Lists -> SUBSET Transfers]
  /\ outdated \subseteq Transfers
  /\ op \in [Operations -> Operation]
  /\ faults \subseteq Faults

Init ==
  /\ multisig = [t \in Transfers |-> "none"]
  /\ request = [t \in Transfers |-> "none"]
  /\ shown = NoList /\ outdated = {}
  /\ op = [o \in Operations |-> Idle]
  /\ faults = {}

-----------------------------------------------------------------------------
(* What nodes that answer return; those that fail are left out.            *)
Fetched(silent) ==
  [list \in Lists |-> {t \in Transfers \ silent : request[t] \in StatusesOf(list)}]

(* A transition of the object begins. *)
Begin(o, kind, at, t, from) ==
  /\ op[o].at = "idle"
  /\ op' = [op EXCEPT ![o] =
       [Idle EXCEPT !.kind = kind, !.at = at, !.live = TRUE, !.transfer = t, !.from = from]]

(* What becomes of the other operations when the object is replaced. *)
Superseded(ops) == [o \in Operations |-> [ops[o] EXCEPT !.live = FALSE]]

(* The client is given new lists; late are the requests that an old object *)
(* moved in them.                                                          *)
Shows(new, late) ==
  shown' = new /\ outdated' = late

(* Mutant of Succeed: the object is replaced whichever it is by now. *)
SucceedAnyway(o, new, late) ==
  /\ op' = [op EXCEPT ![o] = Idle]
  /\ Shows(new, late)
  /\ UNCHANGED faults

(* It ends: discardOnSuccess throws if another one replaced the object.    *)
Succeed(o, new, late) ==
  IF op[o].live
  THEN /\ op' = Superseded([op EXCEPT ![o] = Idle])
       /\ Shows(new, late)
       /\ UNCHANGED faults
  ELSE /\ op' = [op EXCEPT ![o] = Idle]
       /\ faults' = faults \union {"unseen"}
       /\ UNCHANGED lists

Throw(o) == op' = [op EXCEPT ![o] = Idle]

(* "A similar transfer has already been requested and is pending". *)
Similar(t) == \E u \in Transfers : Call[u] = Call[t] /\ multisig[u] = "pending"

(* createVaultTransferRequest: transferFromVault, then signAndSend. *)
Create(o) ==
  /\ \E t \in Transfers :
       /\ multisig[t] = "none"
       /\ \A p \in Operations : op[p].kind = "create" => op[p].transfer # t
       /\ ~Similar(t)
       /\ Begin(o, "create", "submitted", t, "pending")
  /\ UNCHANGED <<multisig, request, lists, faults>>

(* The requests of which there are objects. *)
Requested == {t \in Transfers : request[t] # "none"}

(* Mutant of Cancel: the backend is told first, the chain never. *)
CancelInBackend(o) ==
  /\ \E t \in Requested, list \in Open : Begin(o, "cancel", "posting", t, list)
  /\ UNCHANGED <<multisig, request, lists, faults>>

(* cancelVaultTransferRequest, of any request object. *)
Cancel(o) ==
  /\ \E t \in Requested, list \in Open : Begin(o, "cancel", "submitted", t, list)
  /\ UNCHANGED <<multisig, request, lists, faults>>

Resubmit(o) ==
  /\ \E t \in Requested, list \in Open : Begin(o, "resubmit", "posting", t, list)
  /\ UNCHANGED <<multisig, request, lists, faults>>

Refresh(o) ==
  /\ Begin(o, "refresh", "reading", Idle.transfer, "pending")
  /\ UNCHANGED <<multisig, request, lists, faults>>

-----------------------------------------------------------------------------
(* The extrinsic. *)

(* It takes effect: a multisig is created unless the call has one, and     *)
(* cancelled if it still is pending.  The caller goes on with the request, *)
(* unless it went away.                                                    *)
Decide(o) ==
  /\ op[o].at \in {"submitted", "orphan"}
  /\ \/ /\ op[o].kind = "create"
        /\ ~\E u \in Transfers : Call[u] = Call[op[o].transfer] /\ multisig[u] = "pending"
        /\ multisig' = [multisig EXCEPT ![op[o].transfer] = "pending"]
     \/ /\ op[o].kind = "cancel"
        /\ multisig[op[o].transfer] = "pending"
        /\ multisig' = [multisig EXCEPT ![op[o].transfer] = "cancelled"]
  /\ op' = [op EXCEPT ![o] =
       IF op[o].at = "orphan" THEN Idle ELSE [op[o] EXCEPT !.at = "posting"]]
  /\ UNCHANGED <<request, lists, faults>>

(* It never will, and signAndSend rejects. *)
Refuse(o) ==
  /\ op[o].at \in {"submitted", "orphan"}
  /\ Throw(o)
  /\ UNCHANGED <<multisig, request, lists, faults>>

-----------------------------------------------------------------------------
(* The requests to the backend, that refuses what its status forbids. *)

Allowed(kind, status) ==
  CASE kind = "create"   -> status = "none"
    [] kind = "cancel"   -> status \in {"PENDING", "REJECTED"}
    [] kind = "resubmit" -> status = "REJECTED"
    [] OTHER             -> FALSE

Updated(kind, status) ==
  IF kind # "cancel" THEN "PENDING"
  ELSE IF status = "PENDING" THEN "CANCELLED" ELSE "REJECTED_CANCELLED"

Apply(o) ==
  LET t == op[o].transfer IN
  /\ Allowed(op[o].kind, request[t])
  /\ request' = [request EXCEPT ![t] = Updated(op[o].kind, request[t])]

Post(o) ==
  /\ op[o].at = "posting"
  /\ Apply(o)
  /\ op' = [op EXCEPT ![o].at = "answered"]
  /\ UNCHANGED <<multisig, lists, faults>>

PostRefused(o) ==
  /\ op[o].at = "posting"
  /\ ~Allowed(op[o].kind, request[op[o].transfer])
  /\ Throw(o)
  /\ UNCHANGED <<multisig, request, lists, faults>>

(* The request fails, before the backend applied it or after. *)
PostFails(o) ==
  /\ op[o].at = "posting"
  /\ Apply(o) \/ UNCHANGED request
  /\ Throw(o)
  /\ faults' = faults \union {"interrupted"}
  /\ UNCHANGED <<multisig, lists>>

(* Mutant of Moved: a cancelled request leaves the pending ones only. *)
MovedFromPending(o) ==
  LET t == op[o].transfer IN
  IF op[o].kind = "cancel"
  THEN [shown EXCEPT !.cancelled = @ \union {t}, !.pending = @ \ {t}]
  ELSE [shown EXCEPT !.pending = @ \union {t}, !.rejected = @ \ {t}]

(* Mutant of Moved: a cancelled request only leaves its list. *)
MovedAway(o) ==
  LET t == op[o].transfer IN
  IF op[o].kind = "cancel"
  THEN [shown EXCEPT !.pending = @ \ {t}, !.rejected = @ \ {t}]
  ELSE [shown EXCEPT !.pending = @ \union {t}, !.rejected = @ \ {t}]

(* The lists of the next object: the request leaves the list of the object *)
(* the user gave, whichever it is in by now.                               *)
Moved(o) ==
  LET t == op[o].transfer
      left(list) == IF op[o].from = list THEN shown[list] \ {t} ELSE shown[list]
  IN
  CASE op[o].kind = "create" -> [shown EXCEPT !.pending = @ \union {t}]
    [] op[o].kind = "cancel" ->
         [shown EXCEPT !.cancelled = @ \union {t}, !.pending = left("pending"),
                       !.rejected = left("rejected")]
    [] op[o].kind = "resubmit" ->
         [shown EXCEPT !.pending = @ \union {t}, !.rejected = left("rejected")]

(* Was it given an object that was not in its list any more? *)
WasOutdated(o) == op[o].kind \in {"cancel", "resubmit"} /\ op[o].transfer \notin shown[op[o].from]

(* The answer arrives. *)
Finish(o) ==
  /\ op[o].at = "answered"
  /\ Succeed(o, Moved(o), outdated \union {t \in {op[o].transfer} : WasOutdated(o)})
  /\ UNCHANGED <<multisig, request>>

(* fetchAll asks the nodes; the balances and transactions follow. *)
Read(o) ==
  /\ op[o].at = "reading"
  /\ \E silent \in SUBSET Transfers :
       /\ op' = [op EXCEPT ![o].at = "read", ![o].read = Fetched(silent)]
       /\ faults' = IF silent = {} THEN faults ELSE faults \union {"unseen"}
  /\ UNCHANGED <<multisig, request, lists>>

Refreshed(o) ==
  /\ op[o].at = "read"
  /\ Succeed(o, op[o].read, {})
  /\ UNCHANGED <<multisig, request>>

(* The client stops; an extrinsic the node has may still take effect.      *)
(* VaultState.create starts again from what the backends know.             *)
Crash ==
  /\ op' = [o \in Operations |->
       IF op[o].at \in {"submitted", "orphan"} THEN [op[o] EXCEPT !.at = "orphan", !.live = FALSE] ELSE Idle]
  /\ \E silent \in SUBSET Transfers : Shows(Fetched(silent), {})
  /\ faults' = faults \union {"interrupted"}
  /\ UNCHANGED <<multisig, request>>

-----------------------------------------------------------------------------
(* The legal officer: approveVaultTransfer then acceptVaultTransferRequest,*)
(* or rejectVaultTransferRequest, on what the backend knows.               *)

UnchangedUser == UNCHANGED <<lists, op, faults>>

Approve(t) ==
  /\ request[t] = "PENDING" /\ multisig[t] = "pending"
  /\ multisig' = [multisig EXCEPT ![t] = "executed"]
  /\ UNCHANGED request
  /\ UnchangedUser

Accept(t) ==
  /\ request[t] = "PENDING" /\ multisig[t] = "executed"
  /\ request' = [request EXCEPT ![t] = "ACCEPTED"]
  /\ UNCHANGED multisig
  /\ UnchangedUser

Reject(t) ==
  /\ request[t] = "PENDING" /\ multisig[t] # "executed"
  /\ request' = [request EXCEPT ![t] = "REJECTED"]
  /\ UNCHANGED multisig
  /\ UnchangedUser

Next ==
  \/ \E o \in Operations :
       \/ Create(o) \/ Cancel(o) \/ Resubmit(o) \/ Refresh(o)
       \/ Decide(o) \/ Refuse(o)
       \/ Post(o) \/ PostRefused(o) \/ PostFails(o) \/ Finish(o)
       \/ Read(o) \/ Refreshed(o)
  \/ \E t \in Transfers : Approve(t) \/ Accept(t) \/ Reject(t)
  \/ Crash

Spec == Init /\ [][Next]_vars

-----------------------------------------------------------------------------
(* Nothing is pending on chain without the request that leads to its       *)
(* approval or cancellation (VaultClient.createVaultTransferRequest comes  *)
(* after the extrinsic), unless the client was interrupted in between: the *)
(* timepoint is then lost, and similar transfers are refused for good.     *)
MultisigIsRequested ==
  "interrupted" \notin faults =>
    \A t \in Transfers : multisig[t] = "pending" =>
      \/ request[t] \in {"PENDING", "REJECTED"}
      \/ \E o \in Operations :
           op[o].kind = "create" /\ op[o].transfer = t /\ op[o].at = "posting"

(* Whatever fails or overlaps, a request shown as cancelled has its        *)
(* multisig cancelled, one shown as accepted has it executed, and none is  *)
(* in two of the lists of VaultState, unless the user acted upon it with   *)
(* an object of an older list since the lists were fetched: the old status *)
(* then tells the list it leaves (_cancelVaultTransferRequest).            *)
ListsAreTrue ==
  /\ \A t \in shown.cancelled : multisig[t] = "cancelled"
  /\ \A t \in shown.accepted : multisig[t] = "executed"
  /\ \A l1, l2 \in Lists : l1 # l2 => shown[l1] \intersect shown[l2] \subseteq outdated

(* As long as nothing went wrong, the lists of VaultState that operations  *)
(* compute are those a refresh would find, up to the officer's decisions.  *)
ListsAreComplete ==
  faults = {} /\ (\A o \in Operations : op[o].at \notin {"answered"}) =>
    \A t \in Transfers : request[t] # "none" =>
      IF request[t] \in StatusesOf("cancelled")
      THEN t \in shown.cancelled
      ELSE t \in shown.pending \union shown.rejected \union shown.accepted

(* No operation that overlaps another one brings back as pending or        *)
(* rejected what was shown as settled; only a request that an old object   *)
(* settled, and that still is in the list it was in, goes on being there.  *)
SettledStaysSettled ==
  [][(shown.cancelled \union shown.accepted) \intersect (shown.pending \union shown.rejected)'
       \subseteq shown.pending \union shown.rejected]_vars
=============================================================================
