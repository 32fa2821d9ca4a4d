----------------------------- MODULE Collections ------------------------------
(***************************************************************************)
(* packages/client/src/LocClient.ts and Loc.ts: the items and the tokens   *)
(* records of a collection, while they are added (LocOperations) and read. *)
(* The chain has their hashes, the backend their contents: a reader, who   *)
(* may be anyone, asks the chain first and the backend next, and shows     *)
(* what the hashes confirm.  The user may call addCollectionItems again    *)
(* with other contents, so a content is told by the attempt it comes from. *)
(*                                                                         *)
(* A batch of items is one extrinsic (batchAll): the chain has all of them *)
(* or none.  Records are added one at a time, and read as items are.       *)
(***************************************************************************)
EXTENDS LocOperations

VARIABLES
  content,    \* in the backend: the attempt each item comes from, 0 if it has none
  left,       \* history: did a call stop half-way, outside of its try block?
  reading     \* what a reader asked for and was told so far

collection == <<content, left>>
collectionsVars == <<vars, collection, reading>>

OfItems == kind \in {AddCollectionItems, AddTokensRecord}

NoReading ==
  [what |-> "none", at |-> "none", item |-> 0, chain |-> 0, quiet |-> TRUE,
   answer |-> [i \in Batch |-> 0]]

CollectionsTypeOK ==
  /\ TypeOK
  /\ content \in [Batch -> 0..MaxAttempts] /\ left \in BOOLEAN
  /\ reading \in [what : {"none", "one", "all"}, at : {"none", "asked", "failed", "shown"},
                  item : 0..kind.requests, chain : 0..MaxAttempts, quiet : BOOLEAN,
                  answer : [Batch -> 0..MaxAttempts]]

CollectionsInit ==
  /\ Init
  /\ content = [i \in Batch |-> 0] /\ left = FALSE
  /\ reading = NoReading

-----------------------------------------------------------------------------
(* Additions. *)

(* ClosedCollectionLoc refuses files the collection does not take, and     *)
(* records without files or of someone else, before anything is done.      *)
AddItems == kind = AddCollectionItems /\ Start /\ UNCHANGED collection

AddRecord == kind = AddTokensRecord /\ Start /\ UNCHANGED collection

(* POST items, or record: the backend keeps the contents. *)
Post ==
  /\ Claim \/ ClaimLost
  /\ content' = [content EXCEPT ![next] = attempts]
  /\ UNCHANGED left

(* An item is refused, or not valid: those before it stay.                 *)
Stop ==
  /\ ClaimRefused \/ ValidationFails
  /\ left' = (left \/ next > 1)
  /\ UNCHANGED content

(* DELETE *)
Cancel ==
  /\ Compensate \/ CompensationFails
  /\ content' = [i \in Batch |-> IF i \in claims' THEN content[i] ELSE 0]
  /\ UNCHANGED left

GoOn ==
  /\ \/ Refresh \/ Submit \/ Decide \/ DecideOrphan \/ Resolved \/ Rejected \/ RejectedEarly
     \/ Follow \/ FollowFails \/ Crash
  /\ UNCHANGED collection

Adds ==
  /\ AddItems \/ AddRecord \/ Post \/ Stop \/ Cancel \/ GoOn
  /\ reading' = [reading EXCEPT !.quiet = @ /\ phase' = "idle"]

-----------------------------------------------------------------------------
(* Readers. *)

Ask(what, i) ==
  /\ reading = NoReading
  /\ reading' = [NoReading EXCEPT !.what = what, !.at = "asked", !.item = i,
                                  !.chain = recorded, !.quiet = phase = "idle"]
  /\ UNCHANGED <<vars, collection>>

(* Mutant of GetCollectionItem: the chain's answer is not looked at. *)
GetAnyItem(i) == kind = AddCollectionItems /\ Ask("one", i)

(* undefined, unless the item is on chain. *)
GetCollectionItem(i) == kind = AddCollectionItems /\ recorded # 0 /\ Ask("one", i)

GetTokensRecord(i) == kind = AddTokensRecord /\ recorded # 0 /\ Ask("one", i)

GetCollectionItems == kind = AddCollectionItems /\ Ask("all", 0)

GetTokensRecords == kind = AddTokensRecord /\ Ask("all", 0)

(* getOffchainItem: not found. *)
NotFound == reading.what = "one" /\ content[reading.item] = 0

(* getOffchainItems: mergeItems is called for each item the backend lists, *)
(* and throws if the chain did not return it.                              *)
NotMerged == reading.what = "all" /\ reading.chain = 0 /\ \E i \in Batch : content[i] # 0

(* The answer of the backend; one that is not found, or that cannot be     *)
(* merged, fails the call as a whole.                                      *)
Merge ==
  /\ reading.at = "asked"
  /\ reading' = [reading EXCEPT !.at = IF NotFound \/ NotMerged THEN "failed" ELSE "shown",
                                !.answer = content]
  /\ UNCHANGED <<vars, collection>>

Forget ==
  /\ reading.at \in {"failed", "shown"}
  /\ reading' = NoReading
  /\ UNCHANGED <<vars, collection>>

Reads ==
  \/ \E i \in Batch : GetCollectionItem(i) \/ GetTokensRecord(i)
  \/ GetCollectionItems \/ GetTokensRecords
  \/ Merge \/ Forget

CollectionsNext ==
  \/ OfItems /\ Adds
  \/ OfItems /\ Reads
  \/ ~OfItems /\ Next /\ UNCHANGED <<collection, reading>>

CollectionsSpec == CollectionsInit /\ [][CollectionsNext]_collectionsVars

-----------------------------------------------------------------------------
Wanted == IF reading.what = "one" THEN {reading.item} ELSE Batch

(* What the chain has can be read: whatever was interrupted, lost or tried *)
(* again, with other contents or the same, what the backend serves for the *)
(* items the chain returned is there and is what their hashes confirm      *)
(* (HashString.isValidValue), also when it changed between the two reads.  *)
(* Only what signAndSend rejected too early may be missing or different.   *)
ReadIsConfirmed ==
  /\ reading.at = "failed" =>
       \/ reading.what = "all" /\ reading.chain = 0
       \/ reading.chain \in misled
  /\ reading.at = "shown" /\ reading.chain \notin misled \union {0} =>
       \A i \in Wanted : reading.answer[i] = reading.chain

(* One item that is announced and not on chain fails the listing of all of *)
(* them.  That happens only while items are added, or after a client went  *)
(* away, an answer was lost or an item was refused in the middle of a      *)
(* batch: extrinsics that failed, or were held for failed too early, leave *)
(* nothing that a later listing meets.                                     *)
ListingWorks ==
  reading.at = "failed" /\ reading.what = "all" => ~reading.quiet \/ faults \/ left
=============================================================================
