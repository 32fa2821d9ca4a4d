---------------------------- MODULE LocOperations -----------------------------
(***************************************************************************)
(* packages/client/src/LocClient.ts: the operations of                     *)
(* AuthenticatedLocClient that change a LOC both in the backend of its     *)
(* legal officer and on chain.  Each one first tells the backend what it   *)
(* is about to do (a claim), submits the extrinsic with Signer.signAndSend *)
(* and, if the promise rejects, undoes its claims one request after the    *)
(* other.  There is no other transaction than that: the client may go away *)
(* between two steps, and the user may start again.                        *)
(*                                                                         *)
(* The extrinsic of the current attempt is one of SubmissionContract, that *)
(* Submission implements when the connection holds and the extrinsic does  *)
(* not succeed in one block and fail in another one.  It is not otherwise: *)
(* signAndSend then rejects although the extrinsic took effect, or still   *)
(* may, and the operation undoes claims it should keep (RejectedEarly).    *)
(*                                                                         *)
(* The behaviour is that of one LOC and of one operation on it, repeated:  *)
(* an attempt is known by its number.  All the methods are the same        *)
(* program but for a few parameters, and a method is defined here by their *)
(* values.                                                                 *)
(***************************************************************************)
EXTENDS Naturals, FiniteSets

CONSTANTS
  Kinds,              \* the programs considered
  BatchSize,          \* items in a call, files of a LOC that is opened directly
  MaxAttempts,        \* bound: how many times the operation is called
  Crashes,            \* may the client go away in the middle of one?
  LossyBackend,       \* may a request to the backend fail once it is applied?
  EarlyRejections,    \* may signAndSend reject what may still take effect?
  RefusesDuplicates   \* does the backend refuse an item or record it has?

Programs ==
  [guarded  : BOOLEAN,   \* does the LOC object refuse it once shown as done?
   fresh    : BOOLEAN,   \* is it about a new LOC at each call?
   requests : Nat,       \* requests to the backend before the extrinsic
   late     : BOOLEAN,   \* may it throw after some of them, outside of a try?
   undoes   : Nat,       \* how many of them the catch block undoes,
   cancels  : BOOLEAN,   \* ... with DELETE, or with the same request again
   awaited  : BOOLEAN,   \* ... awaiting the answers?
   submits  : BOOLEAN,   \* is there an extrinsic?
   follows  : BOOLEAN,   \* does a request follow the extrinsic?
   shows    : {"claims", "chain", "follow"}]  \* what tells that it is done

ASSUME ConstantsAssumption ==
  /\ Kinds \subseteq Programs
  /\ \A k \in Kinds : /\ k.undoes <= k.requests
                      /\ k.guarded /\ k.follows => k.shows = "follow"
                      /\ k.shows = "follow" => k.follows
                      /\ ~k.submits => k.requests = 0 /\ k.follows
  /\ {BatchSize, MaxAttempts} \subseteq Nat
  /\ {Crashes, LossyBackend, EarlyRejections, RefusesDuplicates} \subseteq BOOLEAN

VARIABLES
  kind,       \* the operation
  claims,     \* what the backend was told of
  recorded,   \* on chain: the attempt that took effect, 0 if none did
  effect, outcome,  \* the extrinsic of the current attempt: SubmissionContract
  undecided,  \* attempts whose extrinsic may take effect, though nobody waits for it
  phase,      \* where the current attempt is
  next,       \* position in the loop over the requests
  deleting,   \* is a request to undo the claim in flight, not awaited?
  done,       \* does the LOC object of the caller show the operation as done?
  followed,   \* the last attempt whose request after the extrinsic succeeded, or 0
  attempts,
  misled,     \* history: attempts rejected though they took effect, or still might
  faults      \* history: did a crash or a lost answer happen?

caller == <<phase, next, done, attempts>>
remote == <<claims, recorded, undecided, deleting, followed>>
history == <<misled, faults>>
vars == <<kind, caller, remote, effect, outcome, history>>

chain == recorded # 0

Extrinsic == INSTANCE SubmissionContract

-----------------------------------------------------------------------------
(* The methods.  The status of an item or of a request, that publishing,   *)
(* acknowledging and opening look at, comes from the backend; closed and   *)
(* voidInfo come from the chain.                                           *)

Announced ==
  [guarded |-> TRUE, fresh |-> FALSE, requests |-> 1, late |-> FALSE, undoes |-> 1,
   cancels |-> TRUE, awaited |-> TRUE, submits |-> TRUE, follows |-> FALSE, shows |-> "claims"]

PublishFile == Announced

AcknowledgeFile == Announced

PublishMetadata == Announced

AcknowledgeMetadata == Announced

PublishLink == Announced

(* cancelPreAcknowledgeLink sends the request of preAcknowledgeLink again. *)
AcknowledgeLink == [Announced EXCEPT !.cancels = FALSE]

(* The promise of cancelOpenLoc is not awaited. *)
OpenTransactionLoc == [Announced EXCEPT !.awaited = FALSE]

OpenIdentityLoc == Announced

OpenCollectionLoc == Announced

CloseLoc == [Announced EXCEPT !.shows = "chain"]

VoidLoc == [Announced EXCEPT !.shows = "chain"]

(* Methods made of an extrinsic only, that the chain accepts once. *)
Unannounced ==
  [Announced EXCEPT !.guarded = FALSE, !.requests = 0, !.undoes = 0, !.shows = "chain"]

OpenLogionTransactionLoc == Unannounced

OpenLogionIdentityLoc == Unannounced

(* LocsState.legalOfficer.createLoc: the request of a new LOC, then one of *)
(* the two.  A collection is refused once requested; nothing is undone.    *)
CreateLoc ==
  [Unannounced EXCEPT !.requests = 1, !.fresh = TRUE, !.late = TRUE, !.shows = "claims"]

NominateIssuer == Unannounced

DismissIssuer == Unannounced

(* The legal officer's acceptLoc follows the extrinsic, and nothing is     *)
(* caught.  There is an extrinsic only for a requester that is a LOC, or,  *)
(* of an identity LOC, one without a Polkadot account.                     *)
AcceptTransactionLoc(submits) ==
  [Unannounced EXCEPT !.guarded = TRUE, !.submits = submits, !.follows = TRUE, !.shows = "follow"]

AcceptIdentityLoc(submits) == AcceptTransactionLoc(submits)

(* A collection is always accepted in the backend only. *)
AcceptCollectionLoc == AcceptTransactionLoc(FALSE)

(* The files are uploaded once the record is on chain. *)
AddTokensRecord == [Announced EXCEPT !.guarded = FALSE, !.follows = TRUE]

(* A token or a license is validated after its item, and the items before, *)
(* were announced.                                                         *)
AddCollectionItems ==
  [AddTokensRecord EXCEPT !.requests = BatchSize, !.undoes = BatchSize, !.late = TRUE]

(* LocsState.openLoc: createOpenLoc, addFile for each file, then one of    *)
(* the three open* without openLoc, that checks the funds first and undoes *)
(* the first request only.                                                 *)
OpenDirectly(open) ==
  [open EXCEPT !.guarded = FALSE, !.fresh = TRUE, !.requests = 1 + BatchSize, !.late = TRUE]

Methods ==
  {PublishFile, AcknowledgeFile, PublishMetadata, AcknowledgeMetadata, PublishLink,
   AcknowledgeLink, CloseLoc, VoidLoc, OpenLogionTransactionLoc, OpenLogionIdentityLoc,
   CreateLoc, NominateIssuer, DismissIssuer, AcceptCollectionLoc, AddTokensRecord, AddCollectionItems}
    \union UNION {{AcceptTransactionLoc(submits), AcceptIdentityLoc(submits)} : submits \in BOOLEAN}
    \union UNION {{open, OpenDirectly(open)} :
                    open \in {OpenTransactionLoc, OpenIdentityLoc, OpenCollectionLoc}}

-----------------------------------------------------------------------------
Batch == 1..kind.requests

TypeOK ==
  /\ kind \in Kinds
  /\ claims \subseteq Batch
  /\ recorded \in 0..attempts /\ followed \in 0..attempts
  /\ undecided \subseteq 1..attempts /\ misled \subseteq 1..attempts
  /\ deleting \in BOOLEAN /\ done \in BOOLEAN /\ faults \in BOOLEAN
  /\ effect \in {"open", "applied", "void"}
  /\ outcome \in {"pending", "resolved", "rejected"}
  /\ attempts \in 0..MaxAttempts
  /\ phase \in {"idle", "claiming", "submitted", "compensating", "following"}
  /\ next \in 1..(kind.requests + 1)

Init ==
  /\ kind \in Kinds
  /\ claims = {} /\ undecided = {} /\ attempts = 0 /\ next = 1
  /\ recorded = 0 /\ deleting = FALSE /\ done = FALSE /\ followed = 0
  /\ faults = FALSE /\ misled = {}
  /\ effect = "void" /\ outcome = "rejected"
  /\ phase = "idle"

-----------------------------------------------------------------------------
(* What the LOC's data says of the operation once fetched again. *)
Fetched ==
  CASE kind.shows = "claims" -> claims # {}
    [] kind.shows = "chain"  -> chain
    [] kind.shows = "follow" -> followed # 0

Refresh ==
  /\ phase = "idle"
  /\ done' = Fetched
  /\ UNCHANGED <<kind, phase, next, attempts, remote, effect, outcome, history>>

(* The operation is called.  findFile, findMetadata and findLink look at   *)
(* the status of the item; AcceptedRequest.open and OpenLoc's close are    *)
(* methods of the state before; nothing of the kind for items and records. *)
Start ==
  /\ phase = "idle" /\ attempts < MaxAttempts
  /\ kind.guarded => ~done
  /\ kind.fresh => attempts = 0
  /\ phase' = "claiming"
  /\ next' = 1
  /\ attempts' = attempts + 1
  /\ UNCHANGED <<kind, done, remote, effect, outcome, history>>

(* The request that announces the operation: PUT pre-publish-ack or        *)
(* pre-ack, POST open, close, void, items or record, addFile.  A PUT can   *)
(* be repeated.                                                            *)
Announce ==
  /\ phase = "claiming" /\ next \in Batch
  /\ ~kind.guarded /\ RefusesDuplicates => next \notin claims
  /\ claims' = claims \union {next}
  /\ UNCHANGED <<kind, recorded, undecided, deleting, followed, effect, outcome, misled>>

Claim ==
  /\ Announce
  /\ next' = next + 1
  /\ UNCHANGED <<phase, done, attempts, faults>>

(* The caller gets an exception. *)
Throw ==
  /\ phase' = "idle"
  /\ UNCHANGED <<next, done, attempts>>

(* The backend refuses, or ensureEnoughFunds did before it was asked. *)
ClaimRefused ==
  /\ phase = "claiming" /\ next \in Batch
  /\ Throw
  /\ UNCHANGED <<kind, remote, effect, outcome, history>>

(* The backend accepted and its answer is lost. *)
ClaimLost ==
  /\ LossyBackend
  /\ Announce
  /\ Throw
  /\ faults' = TRUE

(* addCollectionItemSubmittable validates the token, and termsAndConditions*)
(* the license of the next item, after items were announced; the funds are *)
(* checked after a LOC to open directly was.                               *)
ValidationFails ==
  /\ kind.late /\ phase = "claiming"
  /\ Throw
  /\ UNCHANGED <<kind, remote, effect, outcome, history>>

(* Mutant of Submit: the extrinsic is not preceded by the claims. *)
SubmitEarly ==
  /\ phase = "claiming"
  /\ phase' = "submitted"
  /\ effect' = "open" /\ outcome' = "pending"
  /\ UNCHANGED <<kind, next, done, attempts, remote, history>>

Submit ==
  /\ kind.submits
  /\ phase = "claiming" /\ next = kind.requests + 1
  /\ phase' = "submitted"
  /\ effect' = "open" /\ outcome' = "pending"
  /\ UNCHANGED <<kind, next, done, attempts, remote, history>>

(* No submittable: acceptLoc is all there is to do. *)
AcceptOnly ==
  /\ ~kind.submits
  /\ phase = "claiming"
  /\ phase' = "following"
  /\ UNCHANGED <<kind, next, done, attempts, remote, effect, outcome, history>>

(* The chain decides about the extrinsic; it has effect once.  An item, a  *)
(* record or a LOC is not created twice, a LOC not closed twice.           *)
Decide ==
  /\ phase = "submitted"
  /\ Extrinsic!Decide
  /\ effect' = "applied" => ~chain
  /\ recorded' = IF effect' = "applied" THEN attempts ELSE recorded
  /\ UNCHANGED <<kind, caller, claims, undecided, deleting, followed, history>>

DecideOrphan ==
  /\ \E a \in undecided :
       /\ undecided' = undecided \ {a}
       /\ \/ ~chain /\ recorded' = a
          \/ UNCHANGED recorded
  /\ UNCHANGED <<kind, caller, claims, deleting, followed, effect, outcome, history>>

(* signAndSend resolved: the caller goes on with what follows, or returns  *)
(* the refreshed LOC.                                                      *)
Resolved ==
  /\ phase = "submitted"
  /\ Extrinsic!Resolve
  /\ IF kind.follows
     THEN phase' = "following" /\ UNCHANGED done
     ELSE phase' = "idle" /\ done' = Fetched
  /\ UNCHANGED <<kind, next, attempts, remote, history>>

-----------------------------------------------------------------------------
(* signAndSend rejected: the catch block of the operation. *)

(* Mutant of CatchBlock: no operation awaits its compensation. *)
CatchUnawaited ==
  /\ phase' = "idle" /\ deleting' = TRUE
  /\ UNCHANGED next

(* Mutant of CatchBlock: the exception is swallowed. *)
CatchSwallowed ==
  /\ phase' = "following"
  /\ UNCHANGED <<next, deleting>>

CatchBlock ==
  \/ /\ kind.undoes = 0
     /\ phase' = "idle"
     /\ UNCHANGED <<next, deleting>>
  \/ /\ kind.undoes > 0 /\ ~kind.awaited
     /\ phase' = "idle" /\ deleting' = TRUE
     /\ UNCHANGED next
  \/ /\ kind.undoes > 0 /\ kind.awaited
     /\ phase' = "compensating" /\ next' = 1
     /\ UNCHANGED deleting

Rejected ==
  /\ phase = "submitted"
  /\ Extrinsic!Reject \/ Extrinsic!Refuse
  /\ CatchBlock
  /\ UNCHANGED <<kind, done, attempts, claims, recorded, undecided, followed, history>>

(* signAndSend rejected too early: the connection broke once the node had  *)
(* the extrinsic, or it failed in a block that is not final, and may       *)
(* succeed in another one.                                                 *)
RejectedEarly ==
  /\ EarlyRejections
  /\ phase = "submitted" /\ outcome = "pending" /\ effect \in {"open", "applied"}
  /\ outcome' = "rejected" /\ misled' = misled \union {attempts}
  /\ undecided' = IF effect = "open" THEN undecided \union {attempts} ELSE undecided
  /\ CatchBlock
  /\ UNCHANGED <<kind, done, attempts, claims, recorded, followed, effect, faults>>

(* Mutant of Undone: cancelPreClose and the others repeat the claim too. *)
UndoneNothing == claims \union {next}

(* The request that undoes a claim. *)
Undone == IF kind.cancels THEN claims \ {next} ELSE claims \union {next}

Compensate ==
  /\ phase = "compensating"
  /\ claims' = Undone
  /\ next' = next + 1
  /\ phase' = IF next < kind.undoes THEN phase ELSE "idle"
  /\ UNCHANGED <<kind, done, attempts, recorded, undecided, deleting, followed, effect, outcome, history>>

(* The loop stops at the first request that fails, applied or not. *)
CompensationFails ==
  /\ LossyBackend
  /\ phase = "compensating"
  /\ claims' \in {claims, Undone}
  /\ Throw
  /\ faults' = TRUE
  /\ UNCHANGED <<kind, recorded, undecided, deleting, followed, effect, outcome, misled>>

(* The request nobody awaits reaches the backend, at last. *)
LateDelete ==
  /\ deleting
  /\ claims' = claims \ (1..kind.undoes)
  /\ deleting' = FALSE
  /\ UNCHANGED <<kind, caller, recorded, undecided, followed, effect, outcome, history>>

(* acceptLoc, uploadItemFile or uploadTokensRecordFile. *)
Follow ==
  /\ phase = "following"
  /\ followed' = attempts
  /\ phase' = "idle"
  /\ done' = (kind.shows = "follow")
  /\ UNCHANGED <<kind, next, attempts, claims, recorded, undecided, deleting, effect, outcome, history>>

FollowFails ==
  /\ LossyBackend
  /\ phase = "following"
  /\ Throw
  /\ faults' = TRUE
  /\ UNCHANGED <<kind, remote, effect, outcome, misled>>

(* The client goes away and is started again: it knows what it fetches.    *)
(* An extrinsic the node has may still take effect.                        *)
Crash ==
  /\ Crashes
  /\ phase # "idle"
  /\ phase' = "idle" /\ done' = Fetched
  /\ undecided' = IF phase = "submitted" /\ effect = "open" THEN undecided \union {attempts} ELSE undecided
  /\ faults' = TRUE
  /\ UNCHANGED <<kind, next, attempts, claims, recorded, deleting, followed, effect, outcome, misled>>

Next ==
  \/ Refresh \/ Start
  \/ Claim \/ ClaimRefused \/ ClaimLost \/ ValidationFails
  \/ Submit \/ AcceptOnly \/ Decide \/ DecideOrphan \/ Resolved \/ Rejected \/ RejectedEarly
  \/ Compensate \/ CompensationFails \/ LateDelete
  \/ Follow \/ FollowFails
  \/ Crash

Spec == Init /\ [][Next]_vars

-----------------------------------------------------------------------------
(* Did an attempt take effect that was not told the opposite?              *)
TookEffect == chain /\ recorded \notin misled

(* What took effect on chain is known to the backend, in full: mergeItems, *)
(* mergeFile and toState find the off-chain half of what they find on      *)
(* chain, and a LOC opened directly comes with its files.  A client that   *)
(* goes away, lost answers and retries do not change that; an attempt that *)
(* signAndSend rejected too early does, as it undoes its own claims.  Not  *)
(* so of openTransactionLoc, whose compensation may come late, nor of      *)
(* close and voidLoc, that can be started again while they are pending.    *)
EffectIsClaimed ==
  (kind.awaited \/ kind.fresh) /\ kind.shows = "claims" /\ TookEffect => claims = Batch

(* The methods that announce themselves in one request and undo it. *)
Clean ==
  /\ kind.requests = 1 /\ kind.undoes = 1
  /\ kind.cancels /\ kind.awaited /\ ~kind.late

(* Unless the client crashed or an answer was lost, what attempts left in  *)
(* the backend is exactly what took effect by an attempt that was told so; *)
(* what signAndSend rejected too early is on chain without its other half. *)
(* Not so of acknowledgeLink, that repeats its announcement to cancel it,  *)
(* of addCollectionItems, that cancels nothing when an item is not valid,  *)
(* of openTransactionLoc, nor of what is opened directly.                  *)
ClaimsFollowOutcome ==
  Clean /\ ~faults /\ phase = "idle" => claims = IF TookEffect THEN Batch ELSE {}

(* The backend accepts a LOC, or gets the files of an item or record, for  *)
(* the attempt that put it on chain, and for no other one: the retry of a  *)
(* failed upload or acceptance never gets there (acceptTransactionLoc,     *)
(* addCollectionItems).  Conversely, unless something was lost, interrupted*)
(* or rejected too early, nothing is left on chain without them.           *)
FollowedIsOnChain ==
  /\ followed # 0 /\ kind.submits => followed = recorded
  /\ kind.follows /\ ~faults /\ phase = "idle" /\ TookEffect => followed = recorded
=============================================================================
