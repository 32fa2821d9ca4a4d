------------------------------ MODULE Submission ------------------------------
(***************************************************************************)
(* packages/client/src/Signer.ts: BaseSigner.signAndSend, that turns the   *)
(* stream of results the node sends for an extrinsic into one promise.     *)
(* The signer sees the extrinsic included in a block, perhaps retracted    *)
(* with the block and included in another one, then finalized; results     *)
(* that come before it can unsubscribe are dropped.                        *)
(*                                                                         *)
(* Only the results that signerCallback tells apart are in the stream      *)
(* (InBlock and Finalized).  A block is named by the number of inclusions. *)
(***************************************************************************)
EXTENDS Naturals, Sequences

CONSTANTS
  MaxForks,           \* bound: inclusions of the extrinsic in a block
  ForkSensitive,      \* may it succeed in one block and fail in another one?
  PoolMayDrop,        \* may the node drop, replace or invalidate it?
  ConnectionMayBreak, \* may signAndSend fail once the node has the extrinsic?
  LateSubscription,   \* may a result come before signAndSend returned unsub?
  CallbackMayThrow    \* may the callback given by the caller throw?

ASSUME ConstantsAssumption ==
  /\ MaxForks \in Nat \ {0}
  /\ {ForkSensitive, PoolMayDrop, ConnectionMayBreak, LateSubscription, CallbackMayThrow}
       \subseteq BOOLEAN

VARIABLES
  tx,        \* the extrinsic: where it is, inclusions so far, did the last succeed
  results,   \* results on their way to the signer
  watch,     \* "none", "subscribing" (unsub undefined), "on", "off"
  block,     \* submissionState.block, 0 when undefined
  outcome,   \* the promise of signAndSend
  reported   \* SuccessfulSubmission.block

vars == <<tx, results, watch, block, outcome, reported>>

Blocks == 0..MaxForks

Result == [status : {"inBlock", "finalized"}, block : Blocks, failed : BOOLEAN]

TypeOK ==
  /\ tx \in [stage : {"unsent", "pool", "block", "final", "gone"},
             fork : Blocks, ok : BOOLEAN]
  /\ results \in Seq(Result)
  /\ watch \in {"none", "subscribing", "on", "off"}
  /\ block \in Blocks
  /\ outcome \in {"pending", "resolved", "rejected"}
  /\ reported \in Blocks
  /\ outcome = "resolved" <=> reported # 0

Init ==
  /\ tx = [stage |-> "unsent", fork |-> 0, ok |-> FALSE]
  /\ results = <<>>
  /\ watch = "none"
  /\ block = 0
  /\ outcome = "pending"
  /\ reported = 0

-----------------------------------------------------------------------------
(* The node and the chain. *)

Emit(status, fork, ok) ==
  results' = Append(results, [status |-> status, block |-> fork, failed |-> ~ok])

UnchangedSigner == UNCHANGED <<watch, block, outcome, reported>>

Include(ok) ==
  /\ tx.stage = "pool" /\ tx.fork < MaxForks
  /\ tx.fork > 0 /\ ~ForkSensitive => ok = tx.ok
  /\ tx' = [stage |-> "block", fork |-> tx.fork + 1, ok |-> ok]
  /\ Emit("inBlock", tx.fork + 1, ok)
  /\ UnchangedSigner

Retract ==
  /\ tx.stage = "block" /\ tx.fork < MaxForks
  /\ tx' = [tx EXCEPT !.stage = "pool"]
  /\ UNCHANGED results
  /\ UnchangedSigner

Finalize ==
  /\ tx.stage = "block"
  /\ tx' = [tx EXCEPT !.stage = "final"]
  /\ Emit("finalized", tx.fork, tx.ok)
  /\ UnchangedSigner

(* Dropped, Usurped or Invalid: results signerCallback does nothing with. *)
Drop ==
  /\ PoolMayDrop
  /\ tx.stage = "pool"
  /\ tx' = [tx EXCEPT !.stage = "gone"]
  /\ UNCHANGED results
  /\ UnchangedSigner

-----------------------------------------------------------------------------
(* The signer. *)

(* buildSignAndSendFunction succeeds, the node accepts the extrinsic. *)
Send ==
  /\ watch = "none" /\ outcome = "pending"
  /\ tx' = [tx EXCEPT !.stage = "pool"]
  /\ watch' = "subscribing"
  /\ UNCHANGED <<results, block, outcome, reported>>

(* The user declines to sign, or the node refuses the extrinsic. *)
SendFails ==
  /\ watch = "none" /\ outcome = "pending"
  /\ outcome' = "rejected"
  /\ UNCHANGED <<tx, results, watch, block, reported>>

(* .then(unsubParam => unsub = unsubParam) *)
Subscribed ==
  /\ watch = "subscribing"
  /\ watch' = "on"
  /\ UNCHANGED <<tx, results, block, outcome, reported>>

(* .catch(error => reject(error)), when the node has the extrinsic. *)
SubscriptionFails ==
  /\ ConnectionMayBreak
  /\ watch = "subscribing"
  /\ watch' = "off"
  /\ outcome' = "rejected"
  /\ UNCHANGED <<tx, results, block, reported>>

(* if(unsub) *)
ResultIgnored ==
  /\ LateSubscription
  /\ watch = "subscribing" /\ results # <<>>
  /\ results' = Tail(results)
  /\ UNCHANGED <<tx, watch, block, outcome, reported>>

(* params.next throws before anything else is done with the result. *)
CallbackThrows ==
  /\ CallbackMayThrow
  /\ watch = "on" /\ results # <<>>
  /\ results' = Tail(results)
  /\ UNCHANGED <<tx, watch, block, outcome, reported>>

(* Mutant of LastBlock: the first block stays recorded. *)
FirstBlock(result) ==
  IF result.status = "inBlock" /\ block = 0 THEN result.block ELSE block

(* The block of a result: recorded for a result in a block. *)
LastBlock(result) == IF result.status = "inBlock" THEN result.block ELSE block

(* Mutant of CanUnsub: inclusion in a block is enough. *)
CanUnsubInBlock(result) == TRUE

(* DefaultSignAndSendStrategy. *)
CanUnsub(result) == result.status = "finalized"

Unsub == watch' = "off"

(* Mutant of Settle: a failed extrinsic is forgotten. *)
SettleSuccess(result) ==
  /\ Unsub
  /\ outcome' = IF result.failed THEN outcome ELSE "resolved"
  /\ reported' = IF result.failed THEN reported ELSE LastBlock(result)

(* dispatchError or canUnsub: the promise settles, unless no block was     *)
(* recorded: requireDefined throws out of the callback.                    *)
Settle(result) ==
  /\ Unsub
  /\ IF result.failed
     THEN /\ outcome' = "rejected"
          /\ UNCHANGED reported
     ELSE IF LastBlock(result) # 0
          THEN outcome' = "resolved" /\ reported' = LastBlock(result)
          ELSE UNCHANGED <<outcome, reported>>

(* Mutant of SignerCallback: dispatchError is not looked at. *)
SignerCallbackBlind(result) ==
  /\ block' = LastBlock(result)
  /\ IF CanUnsub(result)
     THEN Settle([result EXCEPT !.failed = FALSE])
     ELSE UNCHANGED <<watch, outcome, reported>>

SignerCallback(result) ==
  /\ block' = LastBlock(result)
  /\ IF result.failed \/ CanUnsub(result)
     THEN Settle(result)
     ELSE UNCHANGED <<watch, outcome, reported>>

(* The next result reaches the signer. *)
Deliver ==
  /\ watch = "on" /\ results # <<>>
  /\ SignerCallback(Head(results))
  /\ results' = Tail(results)
  /\ UNCHANGED tx

Next ==
  \/ \E ok \in BOOLEAN : Include(ok)
  \/ Retract \/ Finalize \/ Drop
  \/ Send \/ SendFails \/ Subscribed \/ SubscriptionFails
  \/ ResultIgnored \/ CallbackThrows \/ Deliver

Safety == Init /\ [][Next]_vars

(* The chain includes and finalizes what its pool holds; the results are   *)
(* delivered.  Nothing obliges a caller to send.                           *)
Fairness ==
  /\ WF_vars(\E ok \in BOOLEAN : Include(ok))
  /\ WF_vars(Finalize)
  /\ WF_vars(Subscribed)
  /\ WF_vars(Deliver)

Spec == Safety /\ Fairness

-----------------------------------------------------------------------------
(* A submission that resolved succeeded in a finalized block, through any  *)
(* number of retracted blocks and lost results.                            *)
ResolvedIsFinal ==
  outcome = "resolved" => tx.stage = "final" /\ tx.ok

(* Block in SuccessfulSubmission is the finalized one, not a retracted     *)
(* one the extrinsic was in before.                                        *)
ReportedBlockIsFinal ==
  outcome = "resolved" => reported = tx.fork

(* Unless the node drops the extrinsic or a result is lost, the promise of *)
(* an extrinsic that was sent settles.                                     *)
Settles == watch = "subscribing" ~> outcome # "pending"

(* What the callers of signAndSend rely on. *)
Effect ==
  IF tx.stage = "final" /\ tx.ok THEN "applied"
  ELSE IF (tx.fork > 0 /\ ~tx.ok) \/ tx.stage = "gone" \/ outcome = "rejected" THEN "void"
  ELSE "open"

Contract == INSTANCE SubmissionContract WITH effect <- Effect

ImplementsContract == Contract!Spec
=============================================================================
