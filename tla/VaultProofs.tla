------------------------------ MODULE VaultProofs -----------------------------
(***************************************************************************)
(* What Vault promises, for any transfers and any number of overlapping    *)
(* operations.  The status of a request follows the chain; each operation  *)
(* in flight knows something of its transfer that nothing undoes; and one  *)
(* whose object still is the current one knows where its transfer is       *)
(* shown, since the lists only change with the object.                     *)
(***************************************************************************)
EXTENDS Vault, TLAPS

Cancelled == {"CANCELLED", "REJECTED_CANCELLED"}

(* The status of a request is what became of the transfer. *)
StatusIsTrue ==
  \A t \in Transfers :
    /\ request[t] \in Cancelled => multisig[t] = "cancelled"
    /\ request[t] = "ACCEPTED" => multisig[t] = "executed"
    /\ multisig[t] = "none" => request[t] = "none"

(* One operation creates a transfer, on chain first.                       *)
CreatesAreFirst ==
  \A o \in Operations : op[o].kind = "create" =>
    /\ op[o].at \in {"submitted", "orphan"} => multisig[op[o].transfer] = "none"
    /\ op[o].at = "posting" => request[op[o].transfer] = "none" /\ multisig[op[o].transfer] # "none"
    /\ \A p \in Operations \ {o} : op[p].kind = "create" => op[p].transfer # op[o].transfer

(* What an operation got from the chain and from the backend.              *)
AnswersAreTrue ==
  \A o \in Operations :
    /\ op[o].kind = "cancel" /\ op[o].at = "posting" => multisig[op[o].transfer] = "cancelled"
    /\ op[o].at = "answered" =>
         /\ op[o].kind \in {"create", "cancel", "resubmit"}
         /\ request[op[o].transfer] # "none"
         /\ op[o].kind = "cancel" => request[op[o].transfer] \in Cancelled
    /\ op[o].at = "orphan" => "interrupted" \in faults

(* Lists that show requests, the settled ones where they belong; and none  *)
(* in two of them but those of some set.                                   *)
Truthful(ls) ==
  /\ \A l \in Lists : \A t \in ls[l] : request[t] # "none"
  /\ \A t \in ls["cancelled"] : request[t] \in Cancelled
  /\ \A t \in ls["accepted"] : request[t] = "ACCEPTED"

Apart(ls, mixed) == \A l1, l2 \in Lists : l1 # l2 => ls[l1] \intersect ls[l2] \subseteq mixed

ReadsAreTrue == \A o \in Operations : op[o].at = "read" => Truthful(op[o].read) /\ Apart(op[o].read, {})

(* How an operation that may still change the lists fits them.             *)
LiveFits ==
  \A o \in Operations : op[o].live =>
    /\ op[o].kind = "create" => \A l \in Lists : op[o].transfer \notin shown[l]
    /\ op[o].kind = "resubmit" /\ op[o].at = "answered" =>
         op[o].transfer \notin shown["cancelled"] \union shown["accepted"]
    /\ op[o].at = "read" =>
         (shown["cancelled"] \union shown["accepted"])
           \intersect (op[o].read["pending"] \union op[o].read["rejected"]) = {}

VaultInv ==
  /\ StatusIsTrue
  /\ CreatesAreFirst
  /\ AnswersAreTrue
  /\ Truthful(shown)
  /\ Apart(shown, outdated)
  /\ ReadsAreTrue
  /\ LiveFits
  /\ MultisigIsRequested

-----------------------------------------------------------------------------
(* Types. *)

(* An idle operation is one, about some transfer. *)
LEMMA IdleType ==
  /\ Idle \in Operation /\ NoList \in [Lists -> SUBSET Transfers]
  /\ Idle.kind = "none" /\ Idle.at = "idle" /\ Idle.live = FALSE /\ Idle.transfer \in Transfers
<1>1. NoList \in [Lists -> SUBSET Transfers]
  BY DEF NoList
<1>2. (CHOOSE t \in Transfers : TRUE) \in Transfers
  BY ConstantsAssumption
<1> QED  BY <1>1, <1>2 DEF Idle, Operation, Lists, Open

(* One operation goes on, the others are left alone. *)
LEMMA OneMoves ==
  ASSUME TypeOK, NEW o \in Operations, NEW r \in Operation, op' = [op EXCEPT ![o] = r]
  PROVE  op' \in [Operations -> Operation] /\ op'[o] = r /\ \A p \in Operations \ {o} : op'[p] = op[p]
  BY DEF TypeOK

(* A beginning operation is what Begin says, and the only one to move. *)
LEMMA BeginType ==
  ASSUME TypeOK, NEW o \in Operations, NEW kind \in {"create", "cancel", "resubmit", "refresh"},
         NEW at \in {"submitted", "posting", "reading"}, NEW t \in Transfers, NEW from \in Open,
         Begin(o, kind, at, t, from)
  PROVE  /\ op' \in [Operations -> Operation]
         /\ op[o].at = "idle"
         /\ op'[o].kind = kind /\ op'[o].at = at /\ op'[o].live /\ op'[o].transfer = t /\ op'[o].from = from
         /\ \A p \in Operations \ {o} : op'[p] = op[p]
<1> DEFINE r == [Idle EXCEPT !.kind = kind, !.at = at, !.live = TRUE, !.transfer = t, !.from = from]
<1>1. r \in Operation /\ r.kind = kind /\ r.at = at /\ r.live = TRUE /\ r.transfer = t /\ r.from = from
  BY IdleType DEF Idle, Operation
<1>2. op' = [op EXCEPT ![o] = r] /\ op[o].at = "idle"
  BY DEF Begin
<1> HIDE DEF r
<1> QED  BY <1>1, <1>2, OneMoves

(* The lists read and the lists moved are lists of transfers. *)
LEMMA FetchedType ==
  ASSUME NEW silent \in SUBSET Transfers
  PROVE  Fetched(silent) \in [Lists -> SUBSET Transfers]
  BY DEF Fetched

LEMMA MovedType ==
  ASSUME TypeOK, NEW o \in Operations, op[o].kind \in {"create", "cancel", "resubmit"}
  PROVE  Moved(o) \in [Lists -> SUBSET Transfers]
<1>1. shown \in [Lists -> SUBSET Transfers] /\ op[o].transfer \in Transfers /\ Lists = {"pending", "rejected", "cancelled", "accepted"}
  BY DEF TypeOK, Operation, Lists
<1>2. CASE op[o].kind = "create"
  BY <1>1, <1>2 DEF Moved
<1>3. CASE op[o].kind = "cancel"
  BY <1>1, <1>3 DEF Moved
<1>4. CASE op[o].kind = "resubmit"
  BY <1>1, <1>4 DEF Moved
<1> QED  BY <1>2, <1>3, <1>4

(* What ending an operation does to each variable, whether or not it is in time. *)
LEMMA SucceedType ==
  ASSUME TypeOK, NEW o \in Operations, NEW ls \in [Lists -> SUBSET Transfers], NEW late \in SUBSET Transfers,
         Succeed(o, ls, late)
  PROVE  /\ op' \in [Operations -> Operation] /\ shown' \in [Lists -> SUBSET Transfers] /\ outdated' \subseteq Transfers
         /\ faults' \subseteq Faults /\ faults \subseteq faults'
         /\ op'[o].kind = "none" /\ op'[o].at = "idle"
         /\ \A p \in Operations \ {o} :
              /\ op'[p].kind = op[p].kind /\ op'[p].at = op[p].at
              /\ op'[p].transfer = op[p].transfer /\ op'[p].read = op[p].read
         /\ \/ op[o].live /\ shown' = ls /\ outdated' = late /\ \A p \in Operations : ~op'[p].live
            \/ shown' = shown /\ outdated' = outdated /\ \A p \in Operations : op'[p] = op[p] \/ ~op'[p].live
<1> DEFINE ended == [op EXCEPT ![o] = Idle]
<1>1. ended \in [Operations -> Operation] /\ ended[o] = Idle /\ \A p \in Operations \ {o} : ended[p] = op[p]
  BY IdleType DEF TypeOK
<1>2. CASE op[o].live
  <2>1. op' = Superseded(ended) /\ shown' = ls /\ outdated' = late /\ faults' = faults
    BY <1>2 DEF Succeed, Shows
  <2> HIDE DEF ended
  <2>2. \A p \in Operations : op'[p] = [ended[p] EXCEPT !.live = FALSE]
    BY <2>1 DEF Superseded
  <2>3. \A r \in Operation : /\ [r EXCEPT !.live = FALSE] \in Operation
                            /\ [r EXCEPT !.live = FALSE].kind = r.kind /\ [r EXCEPT !.live = FALSE].at = r.at
                            /\ [r EXCEPT !.live = FALSE].transfer = r.transfer /\ [r EXCEPT !.live = FALSE].read = r.read
                            /\ ~[r EXCEPT !.live = FALSE].live
    BY DEF Operation
  <2>4. op' \in [Operations -> Operation]
    BY <1>1, <2>1, <2>3 DEF Superseded
  <2>5. op'[o].kind = "none" /\ op'[o].at = "idle"
    BY <1>1, <2>2, <2>3, IdleType
  <2>6. \A p \in Operations : ended[p] \in Operation /\ (p # o => ended[p] = op[p])
    BY <1>1
  <2>7. \A p \in Operations : ~op'[p].live
    BY <2>2, <2>3, <2>6
  <2>8. ASSUME NEW p \in Operations \ {o}
        PROVE  /\ op'[p].kind = op[p].kind /\ op'[p].at = op[p].at
               /\ op'[p].transfer = op[p].transfer /\ op'[p].read = op[p].read
    <3>1. op[p] \in Operation /\ op'[p] = [op[p] EXCEPT !.live = FALSE]
      BY <2>2, <2>6
    <3> QED  BY <3>1, <2>3
  <2> QED  BY <1>2, <2>1, <2>4, <2>5, <2>7, <2>8 DEF TypeOK
<1>3. CASE ~op[o].live
  <2>1. op' = ended /\ shown' = shown /\ outdated' = outdated /\ faults' = faults \union {"unseen"}
    BY <1>3 DEF Succeed, lists
  <2> HIDE DEF ended
  <2> QED  BY <1>1, <1>3, <2>1, IdleType DEF TypeOK, Faults
<1> QED  BY <1>2, <1>3

(* Every variable keeps its type, since only what was asked is answered.   *)
LEMMA TypeStep == TypeOK /\ AnswersAreTrue /\ [Next]_vars => TypeOK'
<1> SUFFICES ASSUME TypeOK, AnswersAreTrue, [Next]_vars PROVE TypeOK'
  OBVIOUS
<1>t. /\ multisig \in [Transfers -> {"none", "pending", "executed", "cancelled"}]
      /\ request \in [Transfers -> Statuses \union {"none"}]
      /\ shown \in [Lists -> SUBSET Transfers] /\ outdated \subseteq Transfers
      /\ op \in [Operations -> Operation] /\ faults \subseteq Faults
  BY DEF TypeOK
<1>i. Idle \in Operation /\ Idle.transfer \in Transfers /\ "pending" \in Open
  BY IdleType DEF Open
<1>1. ASSUME NEW o \in Operations, Create(o) \/ Cancel(o) \/ Resubmit(o) \/ Refresh(o)
      PROVE  TypeOK'
  <2>1. PICK kind \in {"create", "cancel", "resubmit", "refresh"}, at \in {"submitted", "posting", "reading"},
             t \in Transfers, from \in Open : Begin(o, kind, at, t, from)
    BY <1>1, <1>t, <1>i DEF Create, Cancel, Resubmit, Refresh, Requested
  <2>2. op' \in [Operations -> Operation]
    BY <2>1, BeginType
  <2> QED  BY <1>1, <1>t, <2>2 DEF TypeOK, Create, Cancel, Resubmit, Refresh, lists
<1>2. ASSUME NEW o \in Operations, Decide(o)
      PROVE  TypeOK'
  <2>1. [op[o] EXCEPT !.at = "posting"] \in Operation
    BY <1>t DEF Operation
  <2>2. (IF op[o].at = "orphan" THEN Idle ELSE [op[o] EXCEPT !.at = "posting"]) \in Operation
    BY <2>1, <1>i
  <2>3. op' \in [Operations -> Operation]
    BY <1>2, <1>t, <2>2 DEF Decide
  <2> QED  BY <1>2, <1>t, <2>3 DEF Decide, TypeOK, lists
<1>3. ASSUME NEW o \in Operations, Refuse(o) \/ PostRefused(o)
      PROVE  TypeOK'
  BY <1>3, <1>t, <1>i DEF Refuse, PostRefused, Throw, TypeOK, lists
<1>4. ASSUME NEW o \in Operations, Apply(o) \/ UNCHANGED request
      PROVE  request' \in [Transfers -> Statuses \union {"none"}]
  <2>1. Updated(op[o].kind, request[op[o].transfer]) \in Statuses
    BY DEF Updated, Statuses
  <2> QED  BY <1>4, <1>t, <2>1 DEF Apply
<1>5. ASSUME NEW o \in Operations, Post(o)
      PROVE  TypeOK'
  <2>1. [op[o] EXCEPT !.at = "answered"] \in Operation
    BY <1>t DEF Operation
  <2>2. op' \in [Operations -> Operation]
    BY <1>5, <1>t, <2>1 DEF Post
  <2> QED  BY <1>5, <1>4, <1>t, <2>2 DEF Post, TypeOK, lists
<1>6. ASSUME NEW o \in Operations, PostFails(o)
      PROVE  TypeOK'
  BY <1>6, <1>4, <1>t, <1>i DEF PostFails, Throw, Faults, TypeOK, lists
<1>7. ASSUME NEW o \in Operations, Finish(o)
      PROVE  TypeOK'
  <2>1. Moved(o) \in [Lists -> SUBSET Transfers]
    BY <1>7, MovedType DEF Finish, AnswersAreTrue
  <2>2. outdated \union {t \in {op[o].transfer} : WasOutdated(o)} \in SUBSET Transfers
    BY <1>t DEF Operation
  <2> QED  BY <1>7, <1>t, <2>1, <2>2, SucceedType DEF Finish, TypeOK
<1>8. ASSUME NEW o \in Operations, Read(o)
      PROVE  TypeOK'
  <2>1. PICK silent \in SUBSET Transfers : op' = [op EXCEPT ![o] = [op[o] EXCEPT !.at = "read", !.read = Fetched(silent)]]
    BY <1>8 DEF Read
  <2>2. [op[o] EXCEPT !.at = "read", !.read = Fetched(silent)] \in Operation
    BY <1>t, FetchedType DEF Operation
  <2>3. op' \in [Operations -> Operation]
    BY <1>t, <2>1, <2>2
  <2> QED  BY <1>8, <1>t, <2>3 DEF Read, Faults, TypeOK, lists
<1>9. ASSUME NEW o \in Operations, Refreshed(o)
      PROVE  TypeOK'
  <2>1. op[o].read \in [Lists -> SUBSET Transfers]
    BY <1>t DEF Operation
  <2>2. {} \in SUBSET Transfers
    OBVIOUS
  <2> QED  BY <1>9, <1>t, <2>1, <2>2, SucceedType DEF Refreshed, TypeOK
<1>10. ASSUME NEW t \in Transfers, Approve(t) \/ Accept(t) \/ Reject(t)
       PROVE  TypeOK'
  BY <1>10, <1>t DEF Approve, Accept, Reject, UnchangedUser, TypeOK, Statuses, lists
<1>11. CASE Crash
  <2>1. \A o \in Operations : [op[o] EXCEPT !.at = "orphan", !.live = FALSE] \in Operation
    BY <1>t DEF Operation
  <2>2. op' \in [Operations -> Operation]
    BY <1>11, <1>i, <2>1 DEF Crash
  <2> QED  BY <1>11, <1>t, <2>2, FetchedType DEF Crash, Shows, Faults, TypeOK
<1>12. CASE UNCHANGED vars
  BY <1>12, <1>t DEF vars, lists, TypeOK
<1> QED  BY <1>1, <1>2, <1>3, <1>5, <1>6, <1>7, <1>8, <1>9, <1>10, <1>11, <1>12 DEF Next

-----------------------------------------------------------------------------
(* The invariant. *)

(* Nothing is in flight, nothing is shown. *)
LEMMA VaultInit == Init => TypeOK /\ VaultInv
<1> SUFFICES ASSUME Init PROVE TypeOK /\ VaultInv
  OBVIOUS
<1>1. TypeOK
  BY IdleType DEF Init, TypeOK, Statuses
<1>2. \A o \in Operations : op[o].kind = "none" /\ op[o].at = "idle" /\ op[o].live = FALSE
  BY IdleType DEF Init
<1>3. Truthful(shown) /\ Apart(shown, outdated)
  BY DEF Init, NoList, Truthful, Apart, Lists
<1>4. StatusIsTrue
  BY DEF Init, StatusIsTrue, Cancelled
<1>5. CreatesAreFirst /\ AnswersAreTrue /\ ReadsAreTrue /\ LiveFits
  BY <1>2 DEF CreatesAreFirst, AnswersAreTrue, ReadsAreTrue, LiveFits
<1>6. MultisigIsRequested
  BY DEF Init, MultisigIsRequested
<1> QED  BY <1>1, <1>3, <1>4, <1>5, <1>6 DEF VaultInv

(* What an operation may become in a step of which it is not the subject,  *)
(* or that ends it: it is left alone, done, superseded or abandoned.       *)
Weakens(o) ==
  \/ op'[o] = op[o]
  \/ op'[o].kind = "none" /\ op'[o].at = "idle" /\ ~op'[o].live
  \/ /\ op'[o].kind = op[o].kind /\ op'[o].transfer = op[o].transfer /\ ~op'[o].live
     /\ \/ op'[o].at = op[o].at /\ op'[o].read = op[o].read
        \/ op[o].at \in {"submitted", "orphan"} /\ op'[o].at = "orphan" /\ "interrupted" \in faults'

(* Then what the operations know stays true, as long as the chain and the  *)
(* backend do not move.                                                    *)
LEMMA WeakStep ==
  ASSUME VaultInv, UNCHANGED <<multisig, request>>, faults \subseteq faults', \A o \in Operations : Weakens(o)
  PROVE  StatusIsTrue' /\ CreatesAreFirst' /\ AnswersAreTrue' /\ ReadsAreTrue'
<1>1. StatusIsTrue'
  BY DEF VaultInv, StatusIsTrue
<1>2. CreatesAreFirst'
  BY DEF VaultInv, CreatesAreFirst, Weakens
<1>3. AnswersAreTrue'
  BY DEF VaultInv, AnswersAreTrue, Weakens
<1>4. ReadsAreTrue'
  BY DEF VaultInv, ReadsAreTrue, Truthful, Apart, Weakens
<1> QED  BY <1>1, <1>2, <1>3, <1>4

(* What the live ones know of the lists stays true when the lists do.      *)
LEMMA WeakFits ==
  ASSUME LiveFits, UNCHANGED shown, \A o \in Operations : op'[o] = op[o] \/ ~op'[o].live
  PROVE  LiveFits'
  BY DEF LiveFits

(* The lists of Fetched are true, and those of an operation that moves its *)
(* transfer in the current lists.                                          *)
LEMMA FetchedTruthful ==
  ASSUME TypeOK, NEW silent \in SUBSET Transfers
  PROVE  Truthful(Fetched(silent)) /\ Apart(Fetched(silent), {})
<1>1. \A l1, l2 \in Lists : l1 # l2 => StatusesOf(l1) \intersect StatusesOf(l2) = {}
  BY DEF Lists, StatusesOf
<1>2. \A l \in Lists : "none" \notin StatusesOf(l)
  BY DEF Lists, StatusesOf
<1>3. \A l \in Lists : Fetched(silent)[l] = {t \in Transfers \ silent : request[t] \in StatusesOf(l)}
  BY DEF Fetched
<1>4. StatusesOf("cancelled") = Cancelled /\ StatusesOf("accepted") = {"ACCEPTED"} /\ {"cancelled", "accepted"} \subseteq Lists
  BY DEF StatusesOf, Cancelled, Lists
<1> QED  BY <1>1, <1>2, <1>3, <1>4 DEF Truthful, Apart

(* The three moves, list by list. *)
LEMMA MovedLists ==
  ASSUME TypeOK, NEW o \in Operations, op[o].kind \in {"create", "cancel", "resubmit"}
  PROVE  LET t == op[o].transfer
             left(l) == IF op[o].from = l THEN shown[l] \ {t} ELSE shown[l]
             moved == Moved(o)
         IN  /\ op[o].kind = "create" =>
                  moved["pending"] = shown["pending"] \union {t} /\ moved["rejected"] = shown["rejected"]
                  /\ moved["cancelled"] = shown["cancelled"] /\ moved["accepted"] = shown["accepted"]
             /\ op[o].kind = "cancel" =>
                  moved["pending"] = left("pending") /\ moved["rejected"] = left("rejected")
                  /\ moved["cancelled"] = shown["cancelled"] \union {t} /\ moved["accepted"] = shown["accepted"]
             /\ op[o].kind = "resubmit" =>
                  moved["pending"] = shown["pending"] \union {t} /\ moved["rejected"] = left("rejected")
                  /\ moved["cancelled"] = shown["cancelled"] /\ moved["accepted"] = shown["accepted"]
<1>1. shown \in [Lists -> SUBSET Transfers] /\ Lists = {"pending", "rejected", "cancelled", "accepted"}
  BY DEF TypeOK, Lists
<1>2. CASE op[o].kind = "create"
  BY <1>1, <1>2 DEF Moved
<1>3. CASE op[o].kind = "cancel"
  BY <1>1, <1>3 DEF Moved
<1>4. CASE op[o].kind = "resubmit"
  BY <1>1, <1>4 DEF Moved
<1> QED  BY <1>2, <1>3, <1>4

(* A live operation that was answered moves its transfer to true lists and *)
(* brings back nothing that is settled; it leaves a transfer in two lists  *)
(* only if it was given an object that was not in its list any more.       *)
LEMMA MovedTruthful ==
  ASSUME TypeOK, VaultInv, NEW o \in Operations, op[o].live, op[o].at = "answered"
  PROVE  /\ Truthful(Moved(o))
         /\ Apart(Moved(o), outdated \union {t \in {op[o].transfer} : WasOutdated(o)})
         /\ (shown["cancelled"] \union shown["accepted"]) \intersect (Moved(o)["pending"] \union Moved(o)["rejected"])
              \subseteq shown["pending"] \union shown["rejected"]
<1> DEFINE t == op[o].transfer
           moved == Moved(o)
           late == outdated \union {u \in {t} : WasOutdated(o)}
<1>l. Lists = {"pending", "rejected", "cancelled", "accepted"}
  BY DEF Lists
<1>k. op[o].kind \in {"create", "cancel", "resubmit"} /\ request[t] # "none"
  BY DEF VaultInv, AnswersAreTrue
<1>s. Truthful(shown)
  BY DEF VaultInv
<1>f. op[o].from \in {"pending", "rejected"}
  BY DEF TypeOK, Operation, Open
<1>o. op[o].kind \in {"cancel", "resubmit"} => t \in late \/ t \in shown[op[o].from]
  BY DEF WasOutdated
<1>d. /\ outdated \subseteq late
      /\ shown["pending"] \intersect shown["rejected"] \subseteq late /\ shown["pending"] \intersect shown["cancelled"] \subseteq late
      /\ shown["pending"] \intersect shown["accepted"] \subseteq late /\ shown["rejected"] \intersect shown["cancelled"] \subseteq late
      /\ shown["rejected"] \intersect shown["accepted"] \subseteq late /\ shown["cancelled"] \intersect shown["accepted"] \subseteq late
  BY <1>l DEF VaultInv, Apart
<1> HIDE DEF late
<1>g. ASSUME moved["pending"] \union moved["rejected"] \union moved["cancelled"] \union moved["accepted"]
                \subseteq shown["pending"] \union shown["rejected"] \union shown["cancelled"] \union shown["accepted"] \union {t},
             moved["cancelled"] \subseteq shown["cancelled"] \union {u \in {t} : request[u] \in Cancelled},
             moved["accepted"] = shown["accepted"]
      PROVE  Truthful(moved)
  <2> HIDE DEF t, moved
  <2>1. \A l \in Lists : \A u \in moved[l] : request[u] # "none"
    BY <1>g, <1>k, <1>l, <1>s DEF Truthful
  <2>3. (\A u \in moved["cancelled"] : request[u] \in Cancelled) /\ (\A u \in moved["accepted"] : request[u] = "ACCEPTED")
    BY <1>g, <1>s DEF Truthful
  <2> QED  BY <2>1, <2>3 DEF Truthful
<1>h. ASSUME /\ moved["pending"] \intersect moved["rejected"] \subseteq late
             /\ moved["pending"] \intersect moved["cancelled"] \subseteq late
             /\ moved["pending"] \intersect moved["accepted"] \subseteq late
             /\ moved["rejected"] \intersect moved["cancelled"] \subseteq late
             /\ moved["rejected"] \intersect moved["accepted"] \subseteq late
             /\ moved["cancelled"] \intersect moved["accepted"] \subseteq late
      PROVE  Apart(moved, late)
  <2> HIDE DEF t, moved
  <2> QED  BY <1>h, <1>l DEF Apart
<1>1. CASE op[o].kind = "create"
  <2>1. \A l \in Lists : t \notin shown[l]
    BY <1>1 DEF VaultInv, LiveFits
  <2>2. /\ moved["pending"] = shown["pending"] \union {t} /\ moved["rejected"] = shown["rejected"]
        /\ moved["cancelled"] = shown["cancelled"] /\ moved["accepted"] = shown["accepted"]
    BY <1>1, <1>k, MovedLists
  <2> HIDE DEF t, moved
  <2>3. t \notin shown["pending"] /\ t \notin shown["rejected"] /\ t \notin shown["cancelled"] /\ t \notin shown["accepted"]
    BY <2>1, <1>l
  <2>4. Truthful(moved)
    BY <1>g, <2>2
  <2>5. Apart(moved, late)
    BY <1>d, <1>h, <2>2, <2>3
  <2>6. (shown["cancelled"] \union shown["accepted"]) \intersect (moved["pending"] \union moved["rejected"])
          \subseteq shown["pending"] \union shown["rejected"]
    BY <2>2, <2>3
  <2> QED  BY <2>4, <2>5, <2>6 DEF moved, t, late
<1>2. CASE op[o].kind = "cancel"
  <2>1. request[t] \in Cancelled
    BY <1>2 DEF VaultInv, AnswersAreTrue
  <2>2. /\ moved["pending"] = IF op[o].from = "pending" THEN shown["pending"] \ {t} ELSE shown["pending"]
        /\ moved["rejected"] = IF op[o].from = "rejected" THEN shown["rejected"] \ {t} ELSE shown["rejected"]
        /\ moved["cancelled"] = shown["cancelled"] \union {t} /\ moved["accepted"] = shown["accepted"]
    BY <1>2, <1>k, MovedLists
  <2>7. t \in late \/ t \in shown[op[o].from]
    BY <1>2, <1>o
  <2> HIDE DEF t, moved
  <2>3. t \notin shown["accepted"]
    BY <1>s, <2>1 DEF Truthful, Cancelled
  <2>4. t \in late \/ (t \notin moved["pending"] /\ t \notin moved["rejected"])
    BY <1>d, <1>f, <2>2, <2>7
  <2>5. Truthful(moved)
    BY <1>g, <2>1, <2>2
  <2>8. Apart(moved, late)
    BY <1>d, <1>h, <2>2, <2>3, <2>4
  <2>6. (shown["cancelled"] \union shown["accepted"]) \intersect (moved["pending"] \union moved["rejected"])
          \subseteq shown["pending"] \union shown["rejected"]
    BY <2>2
  <2> QED  BY <2>5, <2>6, <2>8 DEF moved, t, late
<1>3. CASE op[o].kind = "resubmit"
  <2>1. t \notin shown["cancelled"] /\ t \notin shown["accepted"]
    BY <1>3 DEF VaultInv, LiveFits
  <2>2. /\ moved["rejected"] = IF op[o].from = "rejected" THEN shown["rejected"] \ {t} ELSE shown["rejected"]
        /\ moved["pending"] = shown["pending"] \union {t}
        /\ moved["cancelled"] = shown["cancelled"] /\ moved["accepted"] = shown["accepted"]
    BY <1>3, <1>k, MovedLists
  <2>7. t \in late \/ t \in shown[op[o].from]
    BY <1>3, <1>o
  <2> HIDE DEF t, moved
  <2>3. t \in late \/ t \notin moved["rejected"]
    BY <1>d, <1>f, <2>2, <2>7
  <2>4. Truthful(moved)
    BY <1>g, <2>2
  <2>8. Apart(moved, late)
    BY <1>d, <1>h, <2>1, <2>2, <2>3
  <2>5. (shown["cancelled"] \union shown["accepted"]) \intersect (moved["pending"] \union moved["rejected"])
          \subseteq shown["pending"] \union shown["rejected"]
    BY <2>1, <2>2
  <2> QED  BY <2>4, <2>5, <2>8 DEF moved, t, late
<1> QED  BY <1>k, <1>1, <1>2, <1>3

(* An operation begins. *)
LEMMA BeginStep ==
  ASSUME TypeOK, VaultInv, NEW o \in Operations, Create(o) \/ Cancel(o) \/ Resubmit(o) \/ Refresh(o)
  PROVE  VaultInv'
<1>u. UNCHANGED <<multisig, request, shown, outdated, faults>>
  BY DEF Create, Cancel, Resubmit, Refresh, lists
<1>i. "pending" \in Open /\ Idle.transfer \in Transfers
  BY IdleType DEF Open
<1>1. PICK kind \in {"create", "cancel", "resubmit", "refresh"}, at \in {"submitted", "posting", "reading"},
           t \in Transfers, from \in Open :
        /\ Begin(o, kind, at, t, from)
        /\ kind = "create" => /\ at = "submitted" /\ multisig[t] = "none"
                              /\ \A p \in Operations : op[p].kind = "create" => op[p].transfer # t
        /\ kind = "cancel" => at = "submitted"
        /\ kind \in {"cancel", "resubmit"} => request[t] # "none"
  <2>1. CASE Create(o)
    BY <1>i, <2>1 DEF Create
  <2>2. CASE Cancel(o)
    BY <1>i, <2>2 DEF Cancel, Requested
  <2>3. CASE Resubmit(o)
    BY <1>i, <2>3 DEF Resubmit, Requested
  <2>4. CASE Refresh(o)
    BY <1>i, <2>4 DEF Refresh
  <2> QED  BY <2>1, <2>2, <2>3, <2>4
<1>2. /\ op[o].at = "idle"
      /\ op'[o].kind = kind /\ op'[o].at = at /\ op'[o].live /\ op'[o].transfer = t /\ op'[o].from = from
      /\ \A p \in Operations \ {o} : op'[p] = op[p]
  BY <1>1, BeginType
<1>3. StatusIsTrue' /\ Truthful(shown)' /\ Apart(shown, outdated)'
  BY <1>u DEF VaultInv, StatusIsTrue, Truthful, Apart
<1>4. CreatesAreFirst'
  BY <1>u, <1>1, <1>2 DEF VaultInv, CreatesAreFirst
<1>5. AnswersAreTrue' /\ ReadsAreTrue'
  BY <1>u, <1>1, <1>2 DEF VaultInv, AnswersAreTrue, ReadsAreTrue, Truthful, Apart
<1>6. LiveFits'
  <2>1. kind = "create" => \A l \in Lists : t \notin shown[l]
    BY <1>1 DEF VaultInv, Truthful, StatusIsTrue
  <2> QED  BY <1>u, <1>1, <1>2, <2>1 DEF VaultInv, LiveFits
<1>7. MultisigIsRequested'
  BY <1>u, <1>2 DEF VaultInv, MultisigIsRequested
<1> QED  BY <1>3, <1>4, <1>5, <1>6, <1>7 DEF VaultInv

(* An extrinsic takes effect. *)
LEMMA DecideStep ==
  ASSUME TypeOK, VaultInv, NEW o \in Operations, Decide(o)
  PROVE  VaultInv'
<1> DEFINE t == op[o].transfer
<1>t. /\ op \in [Operations -> Operation] /\ multisig \in [Transfers -> {"none", "pending", "executed", "cancelled"}]
      /\ \A p \in Operations : op[p].transfer \in Transfers
  BY DEF TypeOK, Operation
<1>u. UNCHANGED <<request, shown, outdated, faults>> /\ op[o].at \in {"submitted", "orphan"}
  BY DEF Decide, lists
<1>1. \/ op[o].kind = "create" /\ multisig' = [multisig EXCEPT ![t] = "pending"] /\ multisig[t] = "none"
      \/ op[o].kind = "cancel" /\ multisig' = [multisig EXCEPT ![t] = "cancelled"] /\ multisig[t] = "pending"
  BY DEF Decide, VaultInv, CreatesAreFirst
<1>2. \A p \in Operations \ {o} : op'[p] = op[p]
  BY <1>t DEF Decide
<1>3. op[o].at = "orphan" => op'[o].kind = "none" /\ op'[o].at = "idle" /\ ~op'[o].live
  BY <1>t, IdleType DEF Decide
<1>4. op[o].at = "submitted" => /\ op'[o].kind = op[o].kind /\ op'[o].at = "posting" /\ op'[o].live = op[o].live
                               /\ op'[o].transfer = t /\ op'[o].from = op[o].from
  BY <1>t DEF Decide, Operation
<1>5. StatusIsTrue'
  BY <1>t, <1>u, <1>1 DEF VaultInv, StatusIsTrue, Cancelled
<1>6. Truthful(shown)' /\ Apart(shown, outdated)' /\ ReadsAreTrue'
  BY <1>u, <1>2, <1>3, <1>4 DEF VaultInv, ReadsAreTrue, Truthful, Apart
<1>7. CreatesAreFirst'
  <2>1. ASSUME NEW p \in Operations \ {o}, op[p].kind = "create"
        PROVE  /\ op[p].at \in {"submitted", "orphan"} => multisig'[op[p].transfer] = "none"
               /\ op[p].at = "posting" => request[op[p].transfer] = "none" /\ multisig'[op[p].transfer] # "none"
    <3>1. op[o].kind = "create" => op[p].transfer # t
      BY <2>1 DEF VaultInv, CreatesAreFirst
    <3>2. /\ op[p].at \in {"submitted", "orphan"} => multisig[op[p].transfer] = "none"
          /\ op[p].at = "posting" => request[op[p].transfer] = "none" /\ multisig[op[p].transfer] # "none"
      BY <2>1 DEF VaultInv, CreatesAreFirst
    <3> QED  BY <1>t, <1>1, <3>1, <3>2
  <2>2. op[o].kind = "create" /\ op[o].at = "submitted" => request[t] = "none" /\ multisig'[t] # "none"
    BY <1>t, <1>1 DEF VaultInv, StatusIsTrue
  <2> QED  BY <1>u, <1>2, <1>3, <1>4, <2>1, <2>2 DEF VaultInv, CreatesAreFirst
<1>8. AnswersAreTrue'
  <2>1. \A p \in Operations : multisig[op[p].transfer] = "cancelled" => multisig'[op[p].transfer] = "cancelled"
    BY <1>t, <1>1
  <2>2. op[o].kind = "cancel" => multisig'[t] = "cancelled"
    BY <1>t, <1>1
  <2> QED  BY <1>u, <1>2, <1>3, <1>4, <2>1, <2>2 DEF VaultInv, AnswersAreTrue
<1>9. LiveFits'
  BY <1>u, <1>2, <1>3, <1>4 DEF VaultInv, LiveFits
<1>10. MultisigIsRequested'
  <2> SUFFICES ASSUME "interrupted" \notin faults, NEW u \in Transfers, multisig'[u] = "pending"
               PROVE  \/ request[u] \in {"PENDING", "REJECTED"}
                      \/ \E p \in Operations : op'[p].kind = "create" /\ op'[p].transfer = u /\ op'[p].at = "posting"
    BY <1>u DEF MultisigIsRequested
  <2>1. op[o].at = "submitted"
    BY <1>u DEF VaultInv, AnswersAreTrue
  <2>2. CASE u = t
    BY <1>t, <1>1, <1>4, <2>1, <2>2
  <2>3. CASE u # t
    <3>1. multisig[u] = "pending"
      BY <1>t, <1>1, <2>3
    <3> QED  BY <1>2, <1>u, <2>3, <3>1 DEF VaultInv, MultisigIsRequested
  <2> QED  BY <2>2, <2>3
<1> QED  BY <1>5, <1>6, <1>7, <1>8, <1>9, <1>10 DEF VaultInv

(* The backend applies what it is asked: what it was told before stays, as *)
(* does what is shown as settled.                                          *)
LEMMA ApplyFacts ==
  ASSUME TypeOK, VaultInv, NEW o \in Operations, op[o].at = "posting", Apply(o)
  PROVE  /\ op[o].kind \in {"create", "cancel", "resubmit"}
         /\ request'[op[o].transfer] # "none"
         /\ op[o].kind = "cancel" => request'[op[o].transfer] \in Cancelled /\ multisig[op[o].transfer] = "cancelled"
         /\ op[o].kind # "cancel" => request'[op[o].transfer] = "PENDING" /\ multisig[op[o].transfer] # "none"
         /\ op[o].kind = "create" => request[op[o].transfer] = "none"
         /\ op[o].kind # "create" => request[op[o].transfer] # "none"
         /\ op[o].kind = "resubmit" => request[op[o].transfer] = "REJECTED"
         /\ \A u \in Transfers :
              /\ request[u] # "none" => request'[u] # "none"
              /\ request[u] \in Cancelled => request'[u] \in Cancelled
              /\ request[u] = "ACCEPTED" => request'[u] = "ACCEPTED"
              /\ u # op[o].transfer => request'[u] = request[u]
<1> DEFINE t == op[o].transfer
<1>t. t \in Transfers /\ request \in [Transfers -> Statuses \union {"none"}] /\ op[o].kind \in {"none", "create", "cancel", "resubmit", "refresh"}
  BY DEF TypeOK, Operation
<1>1. op[o].kind \in {"create", "cancel", "resubmit"}
  BY <1>t DEF Apply, Allowed
<1>2. request' = [request EXCEPT ![t] = Updated(op[o].kind, request[t])] /\ Allowed(op[o].kind, request[t])
  BY DEF Apply
<1>3. /\ op[o].kind = "cancel" => request[t] \in {"PENDING", "REJECTED"} /\ request'[t] \in Cancelled
      /\ op[o].kind # "cancel" => request'[t] = "PENDING"
      /\ op[o].kind = "create" => request[t] = "none"
      /\ op[o].kind = "resubmit" => request[t] = "REJECTED"
  BY <1>t, <1>1, <1>2 DEF Updated, Allowed, Cancelled
<1>4. /\ op[o].kind = "cancel" => multisig[t] = "cancelled"
      /\ op[o].kind # "cancel" => multisig[t] # "none"
  BY <1>t, <1>1, <1>3 DEF VaultInv, AnswersAreTrue, CreatesAreFirst, StatusIsTrue
<1>5. \A u \in Transfers : u # t => request'[u] = request[u]
  BY <1>2, <1>t
<1> HIDE DEF t
<1>6. /\ request'[t] # "none" /\ (request[t] \in Cancelled => request'[t] \in Cancelled) /\ request[t] # "ACCEPTED"
  BY <1>1, <1>3 DEF Cancelled
<1> QED  BY <1>1, <1>3, <1>4, <1>5, <1>6 DEF t

(* The backend answers. *)
LEMMA PostStep ==
  ASSUME TypeOK, VaultInv, NEW o \in Operations, Post(o)
  PROVE  VaultInv'
<1> DEFINE t == op[o].transfer
<1>t. /\ op \in [Operations -> Operation] /\ \A p \in Operations : op[p].transfer \in Transfers
      /\ shown \in [Lists -> SUBSET Transfers] /\ \A p \in Operations : op[p].read \in [Lists -> SUBSET Transfers]
  BY DEF TypeOK, Operation
<1>u. UNCHANGED <<multisig, shown, outdated, faults>> /\ op[o].at = "posting" /\ Apply(o)
  BY DEF Post, lists
<1>a. /\ op[o].kind \in {"create", "cancel", "resubmit"}
      /\ request'[t] # "none"
      /\ op[o].kind = "cancel" => request'[t] \in Cancelled /\ multisig[t] = "cancelled"
      /\ op[o].kind # "cancel" => request'[t] = "PENDING" /\ multisig[t] # "none"
      /\ op[o].kind = "create" => request[t] = "none"
      /\ op[o].kind # "create" => request[t] # "none"
      /\ op[o].kind = "resubmit" => request[t] = "REJECTED"
  BY <1>u, ApplyFacts
<1>b. \A u \in Transfers :
        /\ request[u] # "none" => request'[u] # "none"
        /\ request[u] \in Cancelled => request'[u] \in Cancelled
        /\ request[u] = "ACCEPTED" => request'[u] = "ACCEPTED"
        /\ u # t => request'[u] = request[u]
  BY <1>u, ApplyFacts
<1>1. /\ op'[o].kind = op[o].kind /\ op'[o].at = "answered" /\ op'[o].live = op[o].live
      /\ op'[o].transfer = t /\ op'[o].from = op[o].from
  BY <1>t DEF Post, Operation
<1>2. \A p \in Operations \ {o} : op'[p] = op[p]
  BY <1>t DEF Post
<1>c. Truthful(shown)' /\ Apart(shown, outdated)' /\ ReadsAreTrue'
  <2>1. ASSUME NEW ls \in [Lists -> SUBSET Transfers], NEW ls2, ls2 = ls, Truthful(ls)
        PROVE  /\ \A l \in Lists : \A u \in ls[l] : request'[u] # "none"
               /\ \A u \in ls["cancelled"] : request'[u] \in Cancelled
               /\ \A u \in ls["accepted"] : request'[u] = "ACCEPTED"
    BY <1>b, <2>1 DEF Truthful, Lists
  <2>2. Truthful(shown)' /\ Apart(shown, outdated)'
    BY <1>t, <1>u, <2>1 DEF VaultInv, Truthful, Apart
  <2>3. ASSUME NEW p \in Operations, op'[p].at = "read"
        PROVE  Truthful(op[p].read)' /\ Apart(op[p].read, {})'
    <3>1. op'[p].read = op[p].read /\ Truthful(op[p].read) /\ Apart(op[p].read, {})
      BY <1>1, <1>2, <2>3 DEF VaultInv, ReadsAreTrue
    <3> QED  BY <1>t, <2>1, <3>1 DEF Truthful, Apart
  <2> QED  BY <2>2, <2>3 DEF ReadsAreTrue
<1>3. StatusIsTrue'
  BY <1>t, <1>u, <1>a, <1>b DEF VaultInv, StatusIsTrue, Cancelled
<1>4. CreatesAreFirst'
  <2>1. \A p \in Operations \ {o} : op[p].kind = "create" /\ op[p].at = "posting" => request'[op[p].transfer] = "none"
    BY <1>t, <1>u, <1>a, <1>b DEF VaultInv, CreatesAreFirst, AnswersAreTrue, StatusIsTrue
  <2> QED  BY <1>u, <1>1, <1>2, <2>1 DEF VaultInv, CreatesAreFirst
<1>5. AnswersAreTrue'
  BY <1>t, <1>u, <1>a, <1>b, <1>1, <1>2 DEF VaultInv, AnswersAreTrue
<1>7. LiveFits'
  <2>1. op[o].kind = "resubmit" => t \notin shown["cancelled"] \union shown["accepted"]
    BY <1>t, <1>a DEF VaultInv, Truthful, Cancelled
  <2> QED  BY <1>u, <1>1, <1>2, <2>1 DEF VaultInv, LiveFits
<1>8. MultisigIsRequested'
  <2> SUFFICES ASSUME "interrupted" \notin faults, NEW u \in Transfers, multisig[u] = "pending"
               PROVE  \/ request'[u] \in {"PENDING", "REJECTED"}
                      \/ \E p \in Operations : op'[p].kind = "create" /\ op'[p].transfer = u /\ op'[p].at = "posting"
    BY <1>u DEF MultisigIsRequested
  <2>1. CASE u = t
    BY <1>a, <2>1
  <2>2. CASE u # t
    BY <1>b, <1>u, <1>2, <2>2 DEF VaultInv, MultisigIsRequested
  <2> QED  BY <2>1, <2>2
<1> QED  BY <1>c, <1>3, <1>4, <1>5, <1>7, <1>8 DEF VaultInv

(* The request fails, and the client does not know when. *)
LEMMA PostFailsStep ==
  ASSUME TypeOK, VaultInv, NEW o \in Operations, PostFails(o)
  PROVE  VaultInv'
<1> DEFINE t == op[o].transfer
<1>t. /\ op \in [Operations -> Operation] /\ \A p \in Operations : op[p].transfer \in Transfers
      /\ shown \in [Lists -> SUBSET Transfers] /\ \A p \in Operations : op[p].read \in [Lists -> SUBSET Transfers]
  BY DEF TypeOK, Operation
<1>u. UNCHANGED <<multisig, shown, outdated>> /\ op[o].at = "posting" /\ "interrupted" \in faults'
  BY DEF PostFails, lists
<1>1. op'[o].kind = "none" /\ op'[o].at = "idle" /\ ~op'[o].live
  BY <1>t, IdleType DEF PostFails, Throw
<1>2. \A p \in Operations \ {o} : op'[p] = op[p]
  BY <1>t DEF PostFails, Throw
<1>b. \A u \in Transfers :
        /\ request[u] # "none" => request'[u] # "none"
        /\ request[u] \in Cancelled => request'[u] \in Cancelled
        /\ request[u] = "ACCEPTED" => request'[u] = "ACCEPTED"
        /\ request'[u] = request[u] \/ (u = t /\ Apply(o))
  <2>1. CASE Apply(o)
    BY <1>u, <2>1, ApplyFacts
  <2>2. CASE UNCHANGED request
    BY <2>2
  <2> QED  BY <2>1, <2>2 DEF PostFails
<1>3. Truthful(shown)' /\ Apart(shown, outdated)' /\ ReadsAreTrue'
  <2>1. ASSUME NEW ls \in [Lists -> SUBSET Transfers], NEW ls2, ls2 = ls, Truthful(ls)
        PROVE  /\ \A l \in Lists : \A u \in ls[l] : request'[u] # "none"
               /\ \A u \in ls["cancelled"] : request'[u] \in Cancelled
               /\ \A u \in ls["accepted"] : request'[u] = "ACCEPTED"
    BY <1>b, <2>1 DEF Truthful, Lists
  <2>2. Truthful(shown)' /\ Apart(shown, outdated)'
    BY <1>t, <1>u, <2>1 DEF VaultInv, Truthful, Apart
  <2>3. ASSUME NEW p \in Operations, op'[p].at = "read"
        PROVE  Truthful(op[p].read)' /\ Apart(op[p].read, {})'
    <3>1. op'[p].read = op[p].read /\ Truthful(op[p].read) /\ Apart(op[p].read, {})
      BY <1>1, <1>2, <2>3 DEF VaultInv, ReadsAreTrue
    <3> QED  BY <1>t, <2>1, <3>1 DEF Truthful, Apart
  <2> QED  BY <2>2, <2>3 DEF ReadsAreTrue
<1>4. StatusIsTrue'
  <2>1. ASSUME Apply(o) PROVE /\ request'[t] \in Cancelled => multisig[t] = "cancelled"
                              /\ request'[t] # "ACCEPTED" /\ multisig[t] # "none"
    BY <1>u, <1>t, <2>1, ApplyFacts DEF VaultInv, AnswersAreTrue, StatusIsTrue, Cancelled
  <2> QED  BY <1>t, <1>u, <1>b, <2>1 DEF VaultInv, StatusIsTrue
<1>5. CreatesAreFirst'
  <2>1. \A p \in Operations \ {o} : op[p].kind = "create" /\ op[p].at = "posting" => request'[op[p].transfer] = "none"
    BY <1>t, <1>u, <1>b, ApplyFacts DEF VaultInv, CreatesAreFirst
  <2> QED  BY <1>u, <1>1, <1>2, <2>1 DEF VaultInv, CreatesAreFirst
<1>6. AnswersAreTrue'
  BY <1>t, <1>u, <1>b, <1>1, <1>2 DEF VaultInv, AnswersAreTrue
<1>7. LiveFits'
  BY <1>u, <1>1, <1>2 DEF VaultInv, LiveFits
<1>8. MultisigIsRequested'
  BY <1>u DEF MultisigIsRequested
<1> QED  BY <1>3, <1>4, <1>5, <1>6, <1>7, <1>8 DEF VaultInv

(* An operation throws. *)
LEMMA ThrowStep ==
  ASSUME TypeOK, VaultInv, NEW o \in Operations, Refuse(o) \/ PostRefused(o)
  PROVE  VaultInv'
<1>t. op \in [Operations -> Operation]
  BY DEF TypeOK
<1>u. UNCHANGED <<multisig, request, shown, outdated, faults>> /\ Throw(o)
  BY DEF Refuse, PostRefused, lists
<1>1. op'[o].kind = "none" /\ op'[o].at = "idle" /\ ~op'[o].live
  BY <1>t, <1>u, IdleType DEF Throw
<1>2. \A p \in Operations \ {o} : op'[p] = op[p]
  BY <1>t, <1>u DEF Throw
<1>3. StatusIsTrue' /\ CreatesAreFirst' /\ AnswersAreTrue' /\ ReadsAreTrue'
  BY <1>u, <1>1, <1>2, WeakStep DEF Weakens
<1>4. LiveFits'
  BY <1>u, <1>1, <1>2, WeakFits DEF VaultInv
<1>5. Truthful(shown)' /\ Apart(shown, outdated)'
  BY <1>u DEF VaultInv, Truthful, Apart
<1>6. ~(op[o].kind = "create" /\ op[o].at = "posting")
  BY DEF Refuse, PostRefused, Allowed, VaultInv, CreatesAreFirst
<1>7. MultisigIsRequested'
  BY <1>u, <1>2, <1>6 DEF VaultInv, MultisigIsRequested
<1> QED  BY <1>3, <1>4, <1>5, <1>7 DEF VaultInv

(* An operation ends, in time or too late, with lists that are true and    *)
(* bring nothing back: the current lists are, and stay so.                 *)
LEMMA SucceedStep ==
  ASSUME TypeOK, VaultInv, NEW o \in Operations, op[o].at \in {"answered", "read"},
         NEW ls \in [Lists -> SUBSET Transfers], NEW late \in SUBSET Transfers,
         op[o].live => Truthful(ls) /\ Apart(ls, late),
         Succeed(o, ls, late), UNCHANGED <<multisig, request>>
  PROVE  VaultInv'
<1>1. \A p \in Operations : Weakens(p)
  BY SucceedType DEF Weakens
<1>2. StatusIsTrue' /\ CreatesAreFirst' /\ AnswersAreTrue' /\ ReadsAreTrue'
  BY <1>1, SucceedType, WeakStep
<1>3. LiveFits'
  <2>1. CASE \A p \in Operations : ~op'[p].live
    BY <2>1 DEF LiveFits
  <2>2. CASE shown' = shown /\ \A p \in Operations : op'[p] = op[p] \/ ~op'[p].live
    BY <2>2, WeakFits DEF VaultInv
  <2>3. \/ op[o].live /\ shown' = ls /\ \A p \in Operations : ~op'[p].live
        \/ shown' = shown /\ \A p \in Operations : op'[p] = op[p] \/ ~op'[p].live
    BY SucceedType
  <2> QED  BY <2>1, <2>2, <2>3
<1>4. Truthful(shown)' /\ Apart(shown, outdated)'
  <2>1. (shown' = shown /\ outdated' = outdated) \/ (shown' = ls /\ outdated' = late /\ op[o].live)
    BY SucceedType
  <2> QED  BY <2>1 DEF VaultInv, Truthful, Apart
<1>5. MultisigIsRequested'
  <2>1. faults \subseteq faults' /\ \A p \in Operations \ {o} : op'[p].kind = op[p].kind /\ op'[p].at = op[p].at /\ op'[p].transfer = op[p].transfer
    BY SucceedType
  <2> QED  BY <2>1 DEF VaultInv, MultisigIsRequested
<1> QED  BY <1>2, <1>3, <1>4, <1>5 DEF VaultInv

(* The answer arrives, or the refreshed lists. *)
LEMMA EndStep ==
  ASSUME TypeOK, VaultInv, NEW o \in Operations, Finish(o) \/ Refreshed(o)
  PROVE  VaultInv'
<1>1. CASE Finish(o)
  <2>1. Moved(o) \in [Lists -> SUBSET Transfers]
    BY <1>1, MovedType DEF Finish, VaultInv, AnswersAreTrue
  <2> DEFINE late == outdated \union {t \in {op[o].transfer} : WasOutdated(o)}
  <2>2. late \in SUBSET Transfers
    BY DEF TypeOK, Operation
  <2>3. Succeed(o, Moved(o), late) /\ op[o].at = "answered" /\ UNCHANGED <<multisig, request>>
    BY <1>1 DEF Finish
  <2>4. op[o].live => Truthful(Moved(o)) /\ Apart(Moved(o), late)
    BY <2>3, MovedTruthful
  <2> HIDE DEF late
  <2> QED  BY <2>1, <2>2, <2>3, <2>4, SucceedStep
<1>2. CASE Refreshed(o)
  <2>1. op[o].read \in [Lists -> SUBSET Transfers] /\ Truthful(op[o].read) /\ Apart(op[o].read, {}) /\ {} \in SUBSET Transfers
    BY <1>2 DEF Refreshed, VaultInv, ReadsAreTrue, TypeOK, Operation
  <2> QED  BY <1>2, <2>1, SucceedStep DEF Refreshed
<1> QED  BY <1>1, <1>2

(* The requests are read. *)
LEMMA ReadStep ==
  ASSUME TypeOK, VaultInv, NEW o \in Operations, Read(o)
  PROVE  VaultInv'
<1>t. op \in [Operations -> Operation] /\ shown \in [Lists -> SUBSET Transfers]
  BY DEF TypeOK
<1>u. UNCHANGED <<multisig, request, shown, outdated>> /\ op[o].at = "reading" /\ faults \subseteq faults'
  BY DEF Read, lists
<1>1. PICK silent \in SUBSET Transfers : op' = [op EXCEPT ![o] = [op[o] EXCEPT !.at = "read", !.read = Fetched(silent)]]
  BY DEF Read
<1>2. /\ op'[o].kind = op[o].kind /\ op'[o].at = "read" /\ op'[o].live = op[o].live
      /\ op'[o].transfer = op[o].transfer /\ op'[o].from = op[o].from /\ op'[o].read = Fetched(silent)
  BY <1>t, <1>1 DEF Operation
<1>3. \A p \in Operations \ {o} : op'[p] = op[p]
  BY <1>t, <1>1
<1>4. StatusIsTrue' /\ Truthful(shown)' /\ Apart(shown, outdated)'
  BY <1>u DEF VaultInv, StatusIsTrue, Truthful, Apart
<1>5. CreatesAreFirst' /\ AnswersAreTrue'
  BY <1>u, <1>2, <1>3 DEF VaultInv, CreatesAreFirst, AnswersAreTrue
<1>6. Truthful(Fetched(silent)) /\ Apart(Fetched(silent), {})
  BY FetchedTruthful
<1>7. ReadsAreTrue'
  <2>1. ASSUME NEW ls, NEW ls2, ls2 = ls, Truthful(ls)
        PROVE  /\ \A l \in Lists : \A u \in ls[l] : request'[u] # "none"
               /\ \A u \in ls["cancelled"] : request'[u] \in Cancelled
               /\ \A u \in ls["accepted"] : request'[u] = "ACCEPTED"
    BY <1>u, <2>1 DEF Truthful
  <2>2. ASSUME NEW p \in Operations, op'[p].at = "read"
        PROVE  Truthful(op'[p].read) /\ Apart(op'[p].read, {})
    BY <1>2, <1>3, <1>6, <2>2 DEF VaultInv, ReadsAreTrue
  <2>3. ASSUME NEW p \in Operations, op'[p].at = "read"
        PROVE  Truthful(op[p].read)' /\ Apart(op[p].read, {})'
    BY <2>1, <2>2, <2>3 DEF Truthful, Apart
  <2> QED  BY <2>3 DEF ReadsAreTrue
<1>8. LiveFits'
  <2>1. (shown["cancelled"] \union shown["accepted"]) \intersect (Fetched(silent)["pending"] \union Fetched(silent)["rejected"]) = {}
    <3>1. /\ \A u \in Fetched(silent)["pending"] : request[u] = "PENDING"
          /\ \A u \in Fetched(silent)["rejected"] : request[u] = "REJECTED"
      BY DEF Fetched, StatusesOf, Lists
    <3>2. /\ \A u \in shown["cancelled"] : request[u] \in Cancelled
          /\ \A u \in shown["accepted"] : request[u] = "ACCEPTED"
      BY DEF VaultInv, Truthful
    <3> QED  BY <3>1, <3>2 DEF Cancelled
  <2> QED  BY <1>u, <1>2, <1>3, <2>1 DEF VaultInv, LiveFits
<1>9. MultisigIsRequested'
  BY <1>u, <1>2, <1>3 DEF VaultInv, MultisigIsRequested
<1> QED  BY <1>4, <1>5, <1>7, <1>8, <1>9 DEF VaultInv

(* The client stops. *)
LEMMA CrashStep ==
  ASSUME TypeOK, VaultInv, Crash
  PROVE  VaultInv'
<1>t. op \in [Operations -> Operation]
  BY DEF TypeOK
<1>u. UNCHANGED <<multisig, request>> /\ faults \subseteq faults' /\ "interrupted" \in faults'
  BY DEF Crash
<1>1. \A o \in Operations : Weakens(o) /\ ~op'[o].live
  BY <1>t, <1>u, IdleType DEF Crash, Weakens, Operation
<1>2. StatusIsTrue' /\ CreatesAreFirst' /\ AnswersAreTrue' /\ ReadsAreTrue'
  BY <1>u, <1>1, WeakStep
<1>3. LiveFits' /\ MultisigIsRequested'
  BY <1>u, <1>1 DEF LiveFits, MultisigIsRequested
<1>4. Truthful(shown)' /\ Apart(shown, outdated)'
  <2>1. PICK silent \in SUBSET Transfers : shown' = Fetched(silent) /\ outdated' = {}
    BY DEF Crash, Shows
  <2>2. Truthful(Fetched(silent)) /\ Apart(Fetched(silent), {})
    BY FetchedTruthful
  <2> QED  BY <1>u, <2>1, <2>2 DEF Truthful, Apart
<1> QED  BY <1>2, <1>3, <1>4 DEF VaultInv

(* The officer decides. *)
LEMMA OfficerStep ==
  ASSUME TypeOK, VaultInv, NEW t \in Transfers, Approve(t) \/ Accept(t) \/ Reject(t)
  PROVE  VaultInv'
<1>t. /\ op \in [Operations -> Operation] /\ \A p \in Operations : op[p].transfer \in Transfers
      /\ shown \in [Lists -> SUBSET Transfers] /\ \A p \in Operations : op[p].read \in [Lists -> SUBSET Transfers]
      /\ multisig \in [Transfers -> {"none", "pending", "executed", "cancelled"}] /\ request \in [Transfers -> Statuses \union {"none"}]
  BY DEF TypeOK, Operation
<1>u. UNCHANGED <<shown, outdated, op, faults>> /\ request[t] = "PENDING"
  BY DEF Approve, Accept, Reject, UnchangedUser, lists
<1>1. /\ \A u \in Transfers \ {t} : request'[u] = request[u] /\ multisig'[u] = multisig[u]
      /\ \/ request'[t] = "PENDING" /\ multisig[t] = "pending" /\ multisig'[t] = "executed"
         \/ request'[t] = "ACCEPTED" /\ multisig[t] = "executed" /\ multisig'[t] = "executed"
         \/ request'[t] = "REJECTED" /\ multisig'[t] = multisig[t] /\ multisig[t] # "executed"
  BY <1>t, <1>u DEF Approve, Accept, Reject
<1>b. \A u \in Transfers :
        /\ request[u] # "none" <=> request'[u] # "none"
        /\ request[u] \in Cancelled => request'[u] \in Cancelled
        /\ request[u] = "ACCEPTED" => request'[u] = "ACCEPTED"
        /\ multisig[u] = "none" <=> multisig'[u] = "none"
        /\ multisig[u] = "cancelled" => multisig'[u] = "cancelled"
  BY <1>u, <1>1 DEF Cancelled
<1>2. StatusIsTrue'
  BY <1>u, <1>1 DEF VaultInv, StatusIsTrue, Cancelled
<1>3. CreatesAreFirst'
  BY <1>t, <1>u, <1>b DEF VaultInv, CreatesAreFirst
<1>4. AnswersAreTrue'
  BY <1>t, <1>u, <1>b DEF VaultInv, AnswersAreTrue
<1>5. Truthful(shown)' /\ Apart(shown, outdated)' /\ ReadsAreTrue'
  <2>1. ASSUME NEW ls \in [Lists -> SUBSET Transfers], NEW ls2, ls2 = ls, Truthful(ls)
        PROVE  /\ \A l \in Lists : \A u \in ls[l] : request'[u] # "none"
               /\ \A u \in ls["cancelled"] : request'[u] \in Cancelled
               /\ \A u \in ls["accepted"] : request'[u] = "ACCEPTED"
    BY <1>b, <2>1 DEF Truthful, Lists
  <2>2. Truthful(shown)' /\ Apart(shown, outdated)'
    BY <1>t, <1>u, <2>1 DEF VaultInv, Truthful, Apart
  <2>3. ASSUME NEW p \in Operations, op'[p].at = "read"
        PROVE  Truthful(op[p].read)' /\ Apart(op[p].read, {})'
    <3>1. op'[p].read = op[p].read /\ Truthful(op[p].read) /\ Apart(op[p].read, {})
      BY <1>u, <2>3 DEF VaultInv, ReadsAreTrue
    <3> QED  BY <1>t, <2>1, <3>1 DEF Truthful, Apart
  <2> QED  BY <2>2, <2>3 DEF ReadsAreTrue
<1>6. LiveFits'
  BY <1>u DEF VaultInv, LiveFits
<1>7. MultisigIsRequested'
  BY <1>u, <1>1 DEF VaultInv, MultisigIsRequested
<1> QED  BY <1>2, <1>3, <1>4, <1>5, <1>6, <1>7 DEF VaultInv

(* Every step keeps the invariant. *)
LEMMA VaultStep == TypeOK /\ VaultInv /\ [Next]_vars => VaultInv'
<1> SUFFICES ASSUME TypeOK, VaultInv, [Next]_vars PROVE VaultInv'
  OBVIOUS
<1>1. CASE UNCHANGED vars
  <2>1. StatusIsTrue' /\ CreatesAreFirst' /\ AnswersAreTrue' /\ ReadsAreTrue'
    BY <1>1, WeakStep DEF vars, Weakens
  <2>2. LiveFits' /\ Truthful(shown)' /\ Apart(shown, outdated)' /\ MultisigIsRequested'
    BY <1>1, WeakFits DEF vars, lists, VaultInv, Truthful, Apart, MultisigIsRequested
  <2> QED  BY <2>1, <2>2 DEF VaultInv
<1>2. CASE Next
  BY <1>2, BeginStep, DecideStep, PostStep, PostFailsStep, ThrowStep, EndStep, ReadStep, CrashStep, OfficerStep DEF Next
<1> QED  BY <1>1, <1>2

(* The inductive invariant of the vault. *)
THEOREM VaultIsConsistent == Spec => [](TypeOK /\ VaultInv)
<1>1. VaultInv => AnswersAreTrue
  BY DEF VaultInv
<1> QED  BY <1>1, VaultInit, TypeStep, VaultStep, PTL DEF Spec

(* No multisig is pending without the request that leads to it, unless the *)
(* client was interrupted.                                                 *)
THEOREM MultisigsAreRequested == Spec => []MultisigIsRequested
<1>1. VaultInv => MultisigIsRequested
  BY DEF VaultInv
<1> QED  BY <1>1, VaultIsConsistent, PTL

(* What is shown as settled is settled on chain, and no request is in two  *)
(* lists, whatever fails or overlaps, but those that were acted upon with  *)
(* objects of older lists.                                                 *)
THEOREM TheListsAreTrue == Spec => []ListsAreTrue
<1>1. TypeOK /\ VaultInv => ListsAreTrue
  <2> SUFFICES ASSUME TypeOK, VaultInv PROVE ListsAreTrue
    OBVIOUS
  <2>1. shown.cancelled = shown["cancelled"] /\ shown.accepted = shown["accepted"]
    OBVIOUS
  <2>2. shown["cancelled"] \subseteq Transfers /\ shown["accepted"] \subseteq Transfers
    BY DEF TypeOK, Lists
  <2> QED  BY <2>1, <2>2 DEF ListsAreTrue, VaultInv, Truthful, Apart, StatusIsTrue
<1> QED  BY <1>1, VaultIsConsistent, PTL

(* No step shows as pending or rejected what was shown as settled, and was *)
(* not shown so already.                                                   *)
LEMMA SettledStep ==
  ASSUME TypeOK, VaultInv, [Next]_vars
  PROVE  (shown["cancelled"] \union shown["accepted"]) \intersect (shown'["pending"] \union shown'["rejected"])
           \subseteq shown["pending"] \union shown["rejected"]
<1> DEFINE Goal == (shown["cancelled"] \union shown["accepted"]) \intersect (shown'["pending"] \union shown'["rejected"])
                     \subseteq shown["pending"] \union shown["rejected"]
<1>0. ASSUME shown' = shown PROVE Goal
  BY <1>0
<1>1. CASE \E o \in Operations : Create(o) \/ Cancel(o) \/ Resubmit(o) \/ Refresh(o) \/ Decide(o) \/ Refuse(o)
             \/ Post(o) \/ PostRefused(o) \/ PostFails(o) \/ Read(o)
  BY <1>0, <1>1 DEF Create, Cancel, Resubmit, Refresh, Decide, Refuse, Post, PostRefused, PostFails, Read, lists
<1>2. CASE UNCHANGED vars \/ \E t \in Transfers : Approve(t) \/ Accept(t) \/ Reject(t)
  BY <1>0, <1>2 DEF vars, Approve, Accept, Reject, UnchangedUser, lists
<1>s. ASSUME NEW o \in Operations, NEW ls, NEW late, Succeed(o, ls, late)
      PROVE  shown' = shown \/ (shown' = ls /\ op[o].live)
  <2>1. CASE op[o].live
    BY <1>s, <2>1 DEF Succeed, Shows
  <2>2. CASE ~op[o].live
    BY <1>s, <2>2 DEF Succeed, lists
  <2> QED  BY <2>1, <2>2
<1>3. ASSUME NEW o \in Operations, Finish(o)
      PROVE  Goal
  <2>1. shown' = shown \/ (shown' = Moved(o) /\ op[o].live)
    BY <1>3, <1>s DEF Finish
  <2> QED  BY <1>0, <1>3, <2>1, MovedTruthful DEF Finish
<1>4. ASSUME NEW o \in Operations, Refreshed(o)
      PROVE  Goal
  <2>1. shown' = shown \/ (shown' = op[o].read /\ op[o].live)
    BY <1>4, <1>s DEF Refreshed
  <2> QED  BY <1>0, <1>4, <2>1 DEF Refreshed, VaultInv, LiveFits
<1>5. CASE Crash
  <2>1. PICK silent \in SUBSET Transfers : shown' = Fetched(silent)
    BY <1>5 DEF Crash, Shows
  <2>2. /\ \A u \in Fetched(silent)["pending"] : request[u] = "PENDING"
        /\ \A u \in Fetched(silent)["rejected"] : request[u] = "REJECTED"
    BY DEF Fetched, StatusesOf, Lists
  <2>3. /\ \A u \in shown["cancelled"] : request[u] \in Cancelled
        /\ \A u \in shown["accepted"] : request[u] = "ACCEPTED"
    BY DEF VaultInv, Truthful
  <2> QED  BY <2>1, <2>2, <2>3 DEF Cancelled
<1> QED  BY <1>1, <1>2, <1>3, <1>4, <1>5 DEF Next

(* So no operation that overlaps another one brings back what was settled. *)
THEOREM SettledRequestsStaySettled == Spec => SettledStaysSettled
<1>1. TypeOK /\ VaultInv /\ [Next]_vars
      => [(shown.cancelled \union shown.accepted) \intersect (shown.pending \union shown.rejected)'
            \subseteq shown.pending \union shown.rejected]_vars
  BY SettledStep
<1> QED  BY <1>1, VaultIsConsistent, PTL DEF Spec, SettledStaysSettled
-----------------------------------------------------------------------------
(* The lists of VaultState miss nothing, as long as nothing went wrong: a  *)
(* request they do not show yet is that of an operation that was answered  *)
(* and has to finish, which no other one can then do in its place.         *)

ListsShow(ls, t) ==
  request[t] # "none" =>
    IF request[t] \in Cancelled THEN t \in ls["cancelled"]
    ELSE t \in ls["pending"] \union ls["rejected"] \union ls["accepted"]

ToBeShown(t) ==
  \E o \in Operations :
    op[o].at = "answered" /\ op[o].transfer = t /\ op[o].kind \in {"create", "cancel"}

(* A request cancelled while its creation still has to end is shown by the *)
(* cancellation, that has to end too.                                      *)
CreatesAreShown ==
  \A o \in Operations :
    op[o].live /\ op[o].kind = "create" /\ op[o].at = "answered" /\ request[op[o].transfer] \in Cancelled =>
      \E p \in Operations : op[p].at = "answered" /\ op[p].kind = "cancel" /\ op[p].transfer = op[o].transfer

MissesNothing(ls) == \A t \in Transfers : ListsShow(ls, t) \/ ToBeShown(t)

CompleteInv ==
  faults = {} =>
    /\ MissesNothing(shown)
    /\ \A o \in Operations : op[o].live /\ op[o].at = "read" => MissesNothing(op[o].read)
    /\ CreatesAreShown

(* Nothing is requested, nothing is in flight. *)
LEMMA CompleteInit == Init => CompleteInv
<1> SUFFICES ASSUME Init PROVE CompleteInv
  OBVIOUS
<1>1. \A o \in Operations : op[o].kind = "none" /\ op[o].at = "idle"
  BY IdleType DEF Init
<1>2. \A t \in Transfers : request[t] = "none"
  BY DEF Init
<1> QED  BY <1>1, <1>2 DEF CompleteInv, CreatesAreShown, MissesNothing, ListsShow

(* What an operation may become in a step that leaves the lists alone and  *)
(* settles nothing it has to show.                                         *)
StillHasToShow(o) ==
  \/ op'[o].kind = "none" /\ op'[o].at = "idle" /\ ~op'[o].live /\ op[o].at # "answered"
  \/ /\ op'[o].kind = op[o].kind /\ op'[o].transfer = op[o].transfer
     /\ (op'[o].live => op[o].live) /\ op'[o].read = op[o].read
     /\ op'[o].at = op[o].at \/ (op[o].at # "answered" /\ op'[o].at = "posting")

(* Then nothing is missed, as long as each request stays cancelled or not. *)
LEMMA QuietStep ==
  ASSUME TypeOK, CompleteInv, UNCHANGED <<shown, faults>>,
         \A t \in Transfers : /\ request[t] = "none" <=> request'[t] = "none"
                              /\ request[t] \in Cancelled <=> request'[t] \in Cancelled,
         \A o \in Operations : StillHasToShow(o)
  PROVE  CompleteInv'
<1>t. \A o \in Operations : op[o].transfer \in Transfers
  BY DEF TypeOK, Operation
<1>1. ASSUME faults = {} PROVE CreatesAreShown'
  <2>1. CreatesAreShown
    BY <1>1 DEF CompleteInv
  <2> SUFFICES ASSUME NEW o \in Operations, op'[o].live, op'[o].kind = "create", op'[o].at = "answered",
                      request'[op'[o].transfer] \in Cancelled
               PROVE  \E p \in Operations : op'[p].at = "answered" /\ op'[p].kind = "cancel" /\ op'[p].transfer = op'[o].transfer
    BY DEF CreatesAreShown
  <2>2. op[o].live /\ op[o].kind = "create" /\ op[o].at = "answered" /\ op'[o].transfer = op[o].transfer
    BY DEF StillHasToShow
  <2>3. PICK p \in Operations : op[p].at = "answered" /\ op[p].kind = "cancel" /\ op[p].transfer = op[o].transfer
    BY <1>t, <2>1, <2>2 DEF CreatesAreShown
  <2>4. op'[p].at = "answered" /\ op'[p].kind = "cancel" /\ op'[p].transfer = op[p].transfer
    BY <2>3 DEF StillHasToShow
  <2> QED  BY <2>2, <2>3, <2>4
<1>2. ASSUME NEW t \in Transfers, ToBeShown(t)
      PROVE  ToBeShown(t)'
  <2>1. PICK o \in Operations : op[o].at = "answered" /\ op[o].transfer = t /\ op[o].kind \in {"create", "cancel"}
    BY <1>2 DEF ToBeShown
  <2>2. op'[o].at = "answered" /\ op'[o].transfer = t /\ op'[o].kind \in {"create", "cancel"}
    BY <2>1 DEF StillHasToShow
  <2> QED  BY <2>2 DEF ToBeShown
<1>3. ASSUME NEW ls, NEW t \in Transfers, ListsShow(ls, t)
      PROVE  /\ request'[t] # "none" =>
                  IF request'[t] \in Cancelled THEN t \in ls["cancelled"]
                  ELSE t \in ls["pending"] \union ls["rejected"] \union ls["accepted"]
  BY <1>3 DEF ListsShow
<1>4. ASSUME faults = {} PROVE MissesNothing(shown)'
  BY <1>2, <1>3, <1>4 DEF CompleteInv, MissesNothing, ListsShow
<1>5. ASSUME faults = {}, NEW o \in Operations, op'[o].live, op'[o].at = "read"
      PROVE  MissesNothing(op[o].read)'
  <2>1. op[o].live /\ op[o].at = "read" /\ op'[o].read = op[o].read
    BY <1>5 DEF StillHasToShow
  <2>2. MissesNothing(op[o].read)
    BY <1>5, <2>1 DEF CompleteInv
  <2> QED  BY <1>2, <1>3, <2>1, <2>2 DEF MissesNothing, ListsShow
<1> QED  BY <1>1, <1>4, <1>5 DEF CompleteInv

(* An operation begins, and has nothing to show yet.                       *)
LEMMA BeginComplete ==
  ASSUME TypeOK, VaultInv, CompleteInv, NEW o \in Operations, Create(o) \/ Cancel(o) \/ Resubmit(o) \/ Refresh(o)
  PROVE  CompleteInv'
<1>u. UNCHANGED <<multisig, request, shown, outdated, faults>>
  BY DEF Create, Cancel, Resubmit, Refresh, lists
<1>i. "pending" \in Open /\ Idle.transfer \in Transfers
  BY IdleType DEF Open
<1>1. PICK kind \in {"create", "cancel", "resubmit", "refresh"}, at \in {"submitted", "posting", "reading"},
           t \in Transfers, from \in Open :
        Begin(o, kind, at, t, from)
  <2>1. CASE Create(o)
    BY <1>i, <2>1 DEF Create
  <2>2. CASE Cancel(o)
    BY <1>i, <2>2 DEF Cancel, Requested
  <2>3. CASE Resubmit(o)
    BY <1>i, <2>3 DEF Resubmit, Requested
  <2>4. CASE Refresh(o)
    BY <1>i, <2>4 DEF Refresh
  <2> QED  BY <2>1, <2>2, <2>3, <2>4
<1>2. /\ op[o].at = "idle"
      /\ op'[o].kind = kind /\ op'[o].at = at /\ op'[o].live /\ op'[o].transfer = t
      /\ \A p \in Operations \ {o} : op'[p] = op[p]
  BY <1>1, BeginType
<1>6. CreatesAreShown => CreatesAreShown'
  <2> SUFFICES ASSUME CreatesAreShown,
                      NEW p \in Operations, op'[p].live, op'[p].kind = "create", op'[p].at = "answered",
                      request'[op'[p].transfer] \in Cancelled
               PROVE  \E q \in Operations : op'[q].at = "answered" /\ op'[q].kind = "cancel" /\ op'[q].transfer = op'[p].transfer
    BY DEF CreatesAreShown
  <2>1. p # o /\ op'[p] = op[p]
    BY <1>2
  <2>2. PICK q \in Operations : op[q].at = "answered" /\ op[q].kind = "cancel" /\ op[q].transfer = op[p].transfer
    BY <1>u, <2>1 DEF CreatesAreShown
  <2>3. q # o /\ op'[q] = op[q]
    BY <1>2, <2>2
  <2> QED  BY <2>1, <2>2, <2>3
<1>7. \A u \in Transfers : ToBeShown(u) => ToBeShown(u)'
  BY <1>2 DEF ToBeShown
<1>8. CompleteInv'
  <2>1. ASSUME faults = {} PROVE MissesNothing(shown)'
    BY <1>u, <1>7, <2>1 DEF CompleteInv, MissesNothing, ListsShow
  <2>2. ASSUME faults = {}, NEW p \in Operations, op'[p].live, op'[p].at = "read"
        PROVE  MissesNothing(op[p].read)'
    <3>1. op'[p] = op[p] /\ MissesNothing(op[p].read)
      BY <1>2, <2>2 DEF CompleteInv
    <3> QED  BY <1>u, <1>7, <3>1 DEF MissesNothing, ListsShow
  <2> QED  BY <1>u, <1>6, <2>1, <2>2 DEF CompleteInv
<1> QED  BY <1>8

(* The backend answers: the operation has to show what it changed.         *)
LEMMA PostComplete ==
  ASSUME TypeOK, VaultInv, CompleteInv, NEW o \in Operations, Post(o)
  PROVE  CompleteInv'
<1>t. op \in [Operations -> Operation] /\ \A p \in Operations : op[p].transfer \in Transfers
  BY DEF TypeOK, Operation
<1>0. PICK t \in Transfers : t = op[o].transfer
  BY <1>t
<1>u. UNCHANGED <<multisig, shown, outdated, faults>> /\ op[o].at = "posting" /\ Apply(o)
  BY DEF Post, lists
<1>a. /\ op[o].kind \in {"create", "cancel", "resubmit"}
      /\ op[o].kind # "cancel" => request'[t] = "PENDING"
      /\ op[o].kind # "create" => request[t] # "none"
      /\ op[o].kind = "resubmit" => request[t] = "REJECTED"
  BY <1>0, <1>u, ApplyFacts
<1>b. \A u \in Transfers : /\ request[u] # "none" => request'[u] # "none"
                           /\ u # t => request'[u] = request[u]
  BY <1>0, <1>u, ApplyFacts
<1>1. /\ op'[o].kind = op[o].kind /\ op'[o].at = "answered" /\ op'[o].live = op[o].live
      /\ op'[o].transfer = t
  BY <1>0, <1>t DEF Post, Operation
<1>2. \A p \in Operations \ {o} : op'[p] = op[p]
  BY <1>t DEF Post
<1>3. CreatesAreShown => CreatesAreShown'
  <2> SUFFICES ASSUME CreatesAreShown,
                      NEW p \in Operations, op'[p].live, op'[p].kind = "create", op'[p].at = "answered",
                      request'[op'[p].transfer] \in Cancelled
               PROVE  \E q \in Operations : op'[q].at = "answered" /\ op'[q].kind = "cancel" /\ op'[q].transfer = op'[p].transfer
    BY DEF CreatesAreShown
  <2>1. p # o /\ op'[p] = op[p]
    BY <1>1, <1>2, <1>a DEF Cancelled
  <2>2. CASE op[p].transfer = t
    <3>1. op[o].kind = "cancel"
      BY <1>a, <2>1, <2>2 DEF Cancelled
    <3> QED  BY <1>1, <2>1, <2>2, <3>1
  <2>3. CASE op[p].transfer # t
    <3>1. request[op[p].transfer] \in Cancelled
      BY <1>b, <1>t, <2>1, <2>3
    <3>2. PICK q \in Operations : op[q].at = "answered" /\ op[q].kind = "cancel" /\ op[q].transfer = op[p].transfer
      BY <2>1, <3>1 DEF CreatesAreShown
    <3>3. op'[q] = op[q]
      BY <1>u, <1>2, <3>2
    <3> QED  BY <2>1, <3>2, <3>3
  <2> QED  BY <2>2, <2>3
<1>4. \A u \in Transfers : ToBeShown(u) => ToBeShown(u)'
  BY <1>u, <1>2 DEF ToBeShown
<1>5. ToBeShown(t)' \/ (request[t] # "none" /\ request[t] \notin Cancelled /\ request'[t] \notin Cancelled)
  <2>1. CASE op[o].kind = "resubmit"
    BY <1>a, <2>1 DEF Cancelled
  <2>2. CASE op[o].kind \in {"create", "cancel"}
    BY <1>1, <2>2 DEF ToBeShown
  <2> QED  BY <1>a, <2>1, <2>2
<1>6. ASSUME NEW ls, MissesNothing(ls), NEW u \in Transfers, ~ToBeShown(u)', request'[u] # "none"
      PROVE  IF request'[u] \in Cancelled THEN u \in ls["cancelled"]
             ELSE u \in ls["pending"] \union ls["rejected"] \union ls["accepted"]
  <2>1. ListsShow(ls, u)
    BY <1>4, <1>6 DEF MissesNothing
  <2>2. CASE u = t
    <3>1. request[t] # "none" /\ request[t] \notin Cancelled /\ request'[t] \notin Cancelled
      BY <1>5, <1>6, <2>2
    <3> QED  BY <2>1, <2>2, <3>1 DEF ListsShow
  <2>3. CASE u # t
    BY <1>b, <1>6, <2>1, <2>3 DEF ListsShow
  <2> QED  BY <2>2, <2>3
<1>7. ASSUME faults = {} PROVE MissesNothing(shown)'
  <2>1. MissesNothing(shown)
    BY <1>7 DEF CompleteInv
  <2> QED  BY <1>u, <1>6, <2>1 DEF MissesNothing, ListsShow
<1>8. ASSUME faults = {}, NEW p \in Operations, op'[p].live, op'[p].at = "read"
      PROVE  MissesNothing(op[p].read)'
  <2>1. op'[p] = op[p] /\ MissesNothing(op[p].read)
    BY <1>1, <1>2, <1>8 DEF CompleteInv
  <2> QED  BY <1>6, <2>1 DEF MissesNothing, ListsShow
<1> QED  BY <1>u, <1>3, <1>7, <1>8 DEF CompleteInv

(* Something goes wrong. *)
LEMMA FaultComplete ==
  ASSUME TypeOK, VaultInv, CompleteInv, Crash \/ \E o \in Operations : PostFails(o)
  PROVE  CompleteInv'
<1>1. faults' # {}
  BY DEF Crash, PostFails
<1> QED  BY <1>1 DEF CompleteInv

(* A live operation that was answered shows what it has to.                *)
LEMMA MovedComplete ==
  ASSUME TypeOK, VaultInv, CompleteInv, faults = {}, NEW o \in Operations, op[o].live, op[o].at = "answered",
         NEW u \in Transfers
  PROVE  \/ ListsShow(Moved(o), u)
         \/ \E p \in Operations \ {o} :
              op[p].at = "answered" /\ op[p].transfer = u /\ op[p].kind \in {"create", "cancel"}
<1> DEFINE t == op[o].transfer
           moved == Moved(o)
<1>k. op[o].kind \in {"create", "cancel", "resubmit"}
  BY DEF VaultInv, AnswersAreTrue
<1>h. ListsShow(shown, u) \/ ToBeShown(u)
  BY DEF CompleteInv, MissesNothing
<1>1. CASE op[o].kind = "create"
  <2>1. /\ moved["pending"] = shown["pending"] \union {t} /\ moved["rejected"] = shown["rejected"]
        /\ moved["cancelled"] = shown["cancelled"] /\ moved["accepted"] = shown["accepted"]
    BY <1>1, MovedLists
  <2>2. request[t] \in Cancelled =>
          \E p \in Operations \ {o} : op[p].at = "answered" /\ op[p].kind = "cancel" /\ op[p].transfer = t
    BY <1>1 DEF CompleteInv, CreatesAreShown
  <2> HIDE DEF t, moved
  <2>3. CASE u = t
    BY <2>1, <2>2, <2>3 DEF ListsShow, moved
  <2>4. CASE u # t
    BY <1>h, <2>1, <2>4 DEF ListsShow, ToBeShown, moved, t
  <2> QED  BY <2>3, <2>4
<1>2. CASE op[o].kind = "cancel"
  <2>1. /\ moved["pending"] = IF op[o].from = "pending" THEN shown["pending"] \ {t} ELSE shown["pending"]
        /\ moved["rejected"] = IF op[o].from = "rejected" THEN shown["rejected"] \ {t} ELSE shown["rejected"]
        /\ moved["cancelled"] = shown["cancelled"] \union {t} /\ moved["accepted"] = shown["accepted"]
    BY <1>2, MovedLists
  <2>2. request[t] \in Cancelled
    BY <1>2 DEF VaultInv, AnswersAreTrue
  <2> HIDE DEF t, moved
  <2>3. CASE u = t
    BY <2>1, <2>2, <2>3 DEF ListsShow, moved
  <2>4. CASE u # t
    BY <1>h, <2>1, <2>4 DEF ListsShow, ToBeShown, moved, t
  <2> QED  BY <2>3, <2>4
<1>3. CASE op[o].kind = "resubmit"
  <2>1. /\ moved["pending"] = shown["pending"] \union {t}
        /\ moved["rejected"] = IF op[o].from = "rejected" THEN shown["rejected"] \ {t} ELSE shown["rejected"]
        /\ moved["cancelled"] = shown["cancelled"] /\ moved["accepted"] = shown["accepted"]
    BY <1>3, MovedLists
  <2>2. ToBeShown(u) => \E p \in Operations \ {o} :
              op[p].at = "answered" /\ op[p].transfer = u /\ op[p].kind \in {"create", "cancel"}
    BY <1>3 DEF ToBeShown
  <2> HIDE DEF t, moved
  <2>3. ListsShow(shown, u) => ListsShow(moved, u)
    BY <2>1 DEF ListsShow
  <2> QED  BY <1>h, <2>2, <2>3 DEF moved
<1> QED  BY <1>k, <1>1, <1>2, <1>3

(* An operation ends: in time, with what it has to show or with all there  *)
(* was to read; or too late, and something went wrong.                     *)
LEMMA EndComplete ==
  ASSUME TypeOK, VaultInv, CompleteInv, NEW o \in Operations, Finish(o) \/ Refreshed(o)
  PROVE  CompleteInv'
<1> DEFINE ls == IF op[o].at = "answered" THEN Moved(o) ELSE op[o].read
           late == IF op[o].at = "answered" THEN outdated \union {t \in {op[o].transfer} : WasOutdated(o)} ELSE {}
<1>t. \A p \in Operations : op[p].transfer \in Transfers
  BY DEF TypeOK, Operation
<1>u. UNCHANGED <<multisig, request>> /\ op[o].at \in {"answered", "read"} /\ Succeed(o, ls, late)
  BY DEF Finish, Refreshed
<1>l. ls \in [Lists -> SUBSET Transfers] /\ late \in SUBSET Transfers
  <2>1. op[o].at = "answered" => Moved(o) \in [Lists -> SUBSET Transfers]
    BY MovedType DEF VaultInv, AnswersAreTrue
  <2>2. op[o].read \in [Lists -> SUBSET Transfers] /\ late \in SUBSET Transfers
    BY DEF TypeOK, Operation
  <2> QED  BY <2>1, <2>2
<1>a. ASSUME faults = {}, op[o].live, NEW u \in Transfers
      PROVE  \/ ListsShow(ls, u)
             \/ \E p \in Operations \ {o} :
                  op[p].at = "answered" /\ op[p].transfer = u /\ op[p].kind \in {"create", "cancel"}
  <2>1. CASE op[o].at = "answered"
    BY <1>a, <2>1, MovedComplete
  <2>2. CASE op[o].at = "read"
    BY <1>a, <2>2 DEF CompleteInv, MissesNothing, ToBeShown
  <2> QED  BY <1>u, <2>1, <2>2
<1> HIDE DEF ls, late
<1>1. /\ op'[o].kind = "none" /\ op'[o].at = "idle"
      /\ \A p \in Operations \ {o} :
           /\ op'[p].kind = op[p].kind /\ op'[p].at = op[p].at
           /\ op'[p].transfer = op[p].transfer /\ op'[p].read = op[p].read
      /\ \/ op[o].live /\ shown' = ls /\ \A p \in Operations : ~op'[p].live
         \/ shown' = shown /\ \A p \in Operations : op'[p] = op[p] \/ ~op'[p].live
  BY <1>u, <1>l, SucceedType
<1>3. CASE ~op[o].live
  <2>1. faults' # {}
    BY <1>u, <1>3 DEF Succeed
  <2> QED  BY <2>1 DEF CompleteInv
<1>4. CASE op[o].live
  <2>1. faults' = faults /\ shown' = ls /\ \A p \in Operations : ~op'[p].live
    <3>1. faults' = faults /\ shown' = ls /\ op' = Superseded([op EXCEPT ![o] = Idle])
      BY <1>u, <1>4 DEF Succeed, Shows
    <3>2. \A p \in Operations : [op EXCEPT ![o] = Idle][p] \in Operation
      BY IdleType DEF TypeOK
    <3>3. \A r \in Operation : ~[r EXCEPT !.live = FALSE].live
      BY DEF Operation
    <3> QED  BY <3>1, <3>2, <3>3 DEF Superseded
  <2>2. ASSUME faults = {} PROVE MissesNothing(shown)'
    <3>1. ASSUME NEW u \in Transfers PROVE ListsShow(shown, u)' \/ ToBeShown(u)'
      <4>1. CASE ListsShow(ls, u)
        BY <1>u, <2>1, <4>1 DEF ListsShow
      <4>2. ASSUME NEW p \in Operations \ {o}, op[p].at = "answered", op[p].transfer = u,
                   op[p].kind \in {"create", "cancel"}
            PROVE  ToBeShown(u)'
        BY <1>1, <4>2 DEF ToBeShown
      <4> QED  BY <1>4, <1>a, <2>2, <4>1, <4>2
    <3> QED  BY <3>1 DEF MissesNothing
  <2> QED  BY <2>1, <2>2 DEF CompleteInv, CreatesAreShown
<1> QED  BY <1>3, <1>4

(* The requests are read: all of them, unless a node is silent.            *)
LEMMA ReadComplete ==
  ASSUME TypeOK, VaultInv, CompleteInv, NEW o \in Operations, Read(o)
  PROVE  CompleteInv'
<1>t. /\ op \in [Operations -> Operation] /\ \A p \in Operations : op[p].transfer \in Transfers
      /\ request \in [Transfers -> Statuses \union {"none"}]
  BY DEF TypeOK, Operation
<1>u. UNCHANGED <<multisig, request, shown>> /\ op[o].at = "reading"
  BY DEF Read, lists
<1>1. PICK silent \in SUBSET Transfers :
        /\ op' = [op EXCEPT ![o].at = "read", ![o].read = Fetched(silent)]
        /\ faults' = IF silent = {} THEN faults ELSE faults \union {"unseen"}
  BY DEF Read
<1>2. /\ op'[o].kind = op[o].kind /\ op'[o].at = "read" /\ op'[o].live = op[o].live
      /\ op'[o].transfer = op[o].transfer /\ op'[o].read = Fetched(silent)
  BY <1>t, <1>1 DEF Operation
<1>3. \A p \in Operations \ {o} : op'[p] = op[p]
  BY <1>t, <1>1
<1>4. CreatesAreShown => CreatesAreShown'
  <2> SUFFICES ASSUME CreatesAreShown,
                      NEW p \in Operations, op'[p].live, op'[p].kind = "create", op'[p].at = "answered",
                      request'[op'[p].transfer] \in Cancelled
               PROVE  \E q \in Operations : op'[q].at = "answered" /\ op'[q].kind = "cancel" /\ op'[q].transfer = op'[p].transfer
    BY DEF CreatesAreShown
  <2>1. op'[p] = op[p]
    BY <1>2, <1>3
  <2>2. PICK q \in Operations : op[q].at = "answered" /\ op[q].kind = "cancel" /\ op[q].transfer = op[p].transfer
    BY <1>u, <2>1 DEF CreatesAreShown
  <2>3. op'[q] = op[q]
    BY <1>u, <1>3, <2>2
  <2> QED  BY <2>1, <2>2, <2>3
<1>5. \A u \in Transfers : ToBeShown(u) => ToBeShown(u)'
  BY <1>u, <1>3 DEF ToBeShown
<1>6. ASSUME silent = {}, NEW u \in Transfers PROVE ListsShow(Fetched(silent), u)
  <2>1. \A l \in Lists : Fetched(silent)[l] = {t \in Transfers : request[t] \in StatusesOf(l)}
    BY <1>6 DEF Fetched
  <2>2. /\ StatusesOf("pending") = {"PENDING"} /\ StatusesOf("rejected") = {"REJECTED"}
        /\ StatusesOf("cancelled") = Cancelled /\ StatusesOf("accepted") = {"ACCEPTED"}
        /\ Lists = {"pending", "rejected", "cancelled", "accepted"}
    BY DEF StatusesOf, Cancelled, Lists
  <2>3. request[u] \in Cancelled \union {"PENDING", "REJECTED", "ACCEPTED", "none"}
    BY <1>t DEF Statuses, Cancelled
  <2> QED  BY <2>1, <2>2, <2>3 DEF ListsShow
<1>7. ASSUME faults' = {} PROVE MissesNothing(shown)'
  <2>1. MissesNothing(shown)
    BY <1>1, <1>7 DEF CompleteInv
  <2> QED  BY <1>u, <1>5, <2>1 DEF MissesNothing, ListsShow
<1>8. ASSUME faults' = {}, NEW p \in Operations, op'[p].live, op'[p].at = "read"
      PROVE  MissesNothing(op[p].read)'
  <2>1. faults = {} /\ silent = {}
    BY <1>1, <1>8
  <2>2. CASE p = o
    BY <1>u, <1>2, <1>6, <2>1, <2>2 DEF MissesNothing, ListsShow
  <2>3. CASE p # o
    <3>1. op'[p] = op[p] /\ MissesNothing(op[p].read)
      BY <1>3, <1>8, <2>1, <2>3 DEF CompleteInv
    <3> QED  BY <1>u, <1>5, <3>1 DEF MissesNothing, ListsShow
  <2> QED  BY <2>2, <2>3
<1> QED  BY <1>1, <1>4, <1>7, <1>8 DEF CompleteInv

(* Every step keeps what the lists miss accounted for. *)
LEMMA CompleteStep == TypeOK /\ VaultInv /\ CompleteInv /\ [Next]_vars => CompleteInv'
<1> SUFFICES ASSUME TypeOK, VaultInv, CompleteInv, [Next]_vars PROVE CompleteInv'
  OBVIOUS
<1>t. op \in [Operations -> Operation] /\ request \in [Transfers -> Statuses \union {"none"}]
  BY DEF TypeOK
<1>1. CASE UNCHANGED vars
  BY <1>1, QuietStep DEF vars, lists, StillHasToShow
<1>2. ASSUME NEW o \in Operations, Decide(o) \/ Refuse(o) \/ PostRefused(o)
      PROVE  CompleteInv'
  <2>1. UNCHANGED <<request, shown, faults>> /\ op[o].at # "answered"
    BY <1>2 DEF Decide, Refuse, PostRefused, lists
  <2>2. \/ op' = [op EXCEPT ![o] = Idle]
        \/ op' = [op EXCEPT ![o] = [op[o] EXCEPT !.at = "posting"]]
    BY <1>2 DEF Decide, Refuse, PostRefused, Throw
  <2>3. \A p \in Operations : StillHasToShow(p)
    <3>1. CASE op' = [op EXCEPT ![o] = Idle]
      BY <1>t, <2>1, <3>1, IdleType DEF StillHasToShow
    <3>2. CASE op' = [op EXCEPT ![o] = [op[o] EXCEPT !.at = "posting"]]
      <4> DEFINE r == [op[o] EXCEPT !.at = "posting"]
      <4>1. r.kind = op[o].kind /\ r.transfer = op[o].transfer /\ r.live = op[o].live /\ r.read = op[o].read
            /\ r.at = "posting"
        BY <1>t DEF Operation
      <4> HIDE DEF r
      <4>2. op'[o] = r /\ \A p \in Operations \ {o} : op'[p] = op[p]
        BY <1>t, <3>2 DEF r
      <4> QED  BY <2>1, <4>1, <4>2 DEF StillHasToShow
    <3> QED  BY <2>2, <3>1, <3>2
  <2> QED  BY <2>1, <2>3, QuietStep
<1>3. ASSUME NEW t \in Transfers, Approve(t) \/ Accept(t) \/ Reject(t)
      PROVE  CompleteInv'
  <2>1. UNCHANGED <<shown, op, faults>> /\ request[t] = "PENDING"
        /\ \/ request' = request
           \/ request' = [request EXCEPT ![t] = "ACCEPTED"]
           \/ request' = [request EXCEPT ![t] = "REJECTED"]
    BY <1>3 DEF Approve, Accept, Reject, UnchangedUser, lists
  <2>2. \A u \in Transfers : /\ request[u] = "none" <=> request'[u] = "none"
                             /\ request[u] \in Cancelled <=> request'[u] \in Cancelled
    BY <1>t, <2>1 DEF Cancelled
  <2> QED  BY <2>1, <2>2, QuietStep DEF StillHasToShow
<1>4. CASE Next
  BY <1>2, <1>3, <1>4, BeginComplete, PostComplete, FaultComplete, EndComplete, ReadComplete DEF Next
<1> QED  BY <1>1, <1>4

(* The lists that operations compute are those a refresh would find.       *)
THEOREM TheListsAreComplete == Spec => []ListsAreComplete
<1>1. TypeOK /\ CompleteInv => ListsAreComplete
  <2> SUFFICES ASSUME TypeOK, CompleteInv, faults = {}, \A o \in Operations : op[o].at \notin {"answered"},
                      NEW t \in Transfers, request[t] # "none"
               PROVE  IF request[t] \in StatusesOf("cancelled")
                      THEN t \in shown.cancelled
                      ELSE t \in shown.pending \union shown.rejected \union shown.accepted
    BY DEF ListsAreComplete
  <2>1. ListsShow(shown, t)
    BY DEF CompleteInv, MissesNothing, ToBeShown
  <2>2. StatusesOf("cancelled") = Cancelled
    BY DEF StatusesOf, Cancelled
  <2> QED  BY <2>1, <2>2 DEF ListsShow
<1> QED  BY <1>1, VaultIsConsistent, CompleteInit, CompleteStep, PTL DEF Spec
=============================================================================
