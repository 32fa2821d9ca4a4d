--------------------------- MODULE SubmissionProofs ---------------------------
(***************************************************************************)
(* Proofs about Submission, for any number of forks.  What a submission    *)
(* resolves to is argued from the results on their way to the signer: a    *)
(* Finalized result tells the truth about the chain, whatever was lost or  *)
(* retracted before it.  That a rejection tells the truth holds only when  *)
(* the extrinsic's outcome is the same in every block, and when it cannot  *)
(* reach the chain behind a broken connection.                             *)
(***************************************************************************)
EXTENDS Submission, SequenceTheorems, TLAPS

(* A Finalized result in the stream: the extrinsic is finalized, and the   *)
(* result tells its outcome.                                               *)
FinalityIsTrue ==
  \A i \in DOMAIN results :
    results[i].status = "finalized" => tx.stage = "final" /\ results[i].failed = ~tx.ok

(* Nothing is sent before the signer subscribes; while it watches, the     *)
(* promise is pending.                                                     *)
WatchInv ==
  /\ watch = "none" => tx.stage = "unsent" /\ tx.fork = 0
  /\ watch \in {"subscribing", "on"} => outcome = "pending"

IInv == TypeOK /\ FinalityIsTrue /\ WatchInv /\ ResolvedIsFinal

(* The head of the stream is one of its results, and the tail holds only   *)
(* results of the stream.                                                  *)
LEMMA StreamFacts ==
  ASSUME NEW s \in Seq(Result), s # <<>>
  PROVE  /\ Head(s) \in Result
         /\ Head(s) = s[1] /\ 1 \in DOMAIN s
         /\ Tail(s) \in Seq(Result)
         /\ \A i \in DOMAIN Tail(s) : i + 1 \in DOMAIN s /\ Tail(s)[i] = s[i + 1]
<1>1. Len(s) \in Nat /\ Len(s) # 0 /\ DOMAIN s = 1..Len(s)
  BY EmptySeq, LenProperties
<1>2. DOMAIN Tail(s) = 1..(Len(s) - 1)
  BY <1>1, HeadTailProperties
<1> QED
  BY <1>1, <1>2, HeadTailProperties

(* What is appended to the stream is its last result. *)
LEMMA AppendFacts ==
  ASSUME NEW s \in Seq(Result), NEW r \in Result
  PROVE  /\ Append(s, r) \in Seq(Result)
         /\ \A i \in DOMAIN Append(s, r) :
              \/ Append(s, r)[i] = r
              \/ i \in DOMAIN s /\ Append(s, r)[i] = s[i]
<1>1. Len(s) \in Nat /\ DOMAIN s = 1..Len(s)
  BY LenProperties
<1>2. DOMAIN Append(s, r) = 1..(Len(s) + 1)
  BY <1>1, AppendProperties
<1> QED
  BY <1>1, <1>2, AppendProperties

(* Every variable keeps its type, and Finalized results stay true. *)
LEMMA InductiveStep ==
  ASSUME IInv, [Next]_vars
  PROVE  IInv'
<1> USE ConstantsAssumption DEF Blocks, IInv, WatchInv
<1>1. CASE \E ok \in BOOLEAN : Include(ok)
  <2>1. PICK ok \in BOOLEAN : Include(ok)
    BY <1>1
  <2> DEFINE r == [status |-> "inBlock", block |-> tx.fork + 1, failed |-> ~ok]
  <2>2. r \in Result /\ results' = Append(results, r) /\ results \in Seq(Result)
    BY <2>1 DEF TypeOK, Include, Emit, Result
  <2>3. TypeOK'
    BY <2>1, <2>2, AppendFacts DEF TypeOK, Include, UnchangedSigner
  <2>4. FinalityIsTrue'
    <3>1. \A i \in DOMAIN results : results[i].status # "finalized"
      BY <2>1 DEF FinalityIsTrue, Include
    <3> QED
      BY <2>2, <3>1, AppendFacts DEF FinalityIsTrue
  <2>5. WatchInv' /\ ResolvedIsFinal'
    BY <2>1 DEF ResolvedIsFinal, Include, UnchangedSigner
  <2> QED
    BY <2>3, <2>4, <2>5 DEF IInv
<1>2. CASE Retract
  BY <1>2 DEF TypeOK, FinalityIsTrue, ResolvedIsFinal, Retract, UnchangedSigner
<1>3. CASE Finalize
  <2> DEFINE r == [status |-> "finalized", block |-> tx.fork, failed |-> ~tx.ok]
  <2>1. r \in Result /\ results' = Append(results, r) /\ results \in Seq(Result)
    BY <1>3 DEF TypeOK, Finalize, Emit, Result
  <2>2. TypeOK'
    BY <1>3, <2>1, AppendFacts DEF TypeOK, Finalize, UnchangedSigner
  <2>3. FinalityIsTrue'
    <3>1. \A i \in DOMAIN results : results[i].status # "finalized"
      BY <1>3 DEF FinalityIsTrue, Finalize
    <3>2. tx'.stage = "final" /\ r.failed = ~tx'.ok
      BY <1>3 DEF TypeOK, Finalize
    <3> QED
      BY <2>1, <3>1, <3>2, AppendFacts DEF FinalityIsTrue
  <2>4. WatchInv' /\ ResolvedIsFinal'
    BY <1>3 DEF TypeOK, ResolvedIsFinal, Finalize, UnchangedSigner
  <2> QED
    BY <2>2, <2>3, <2>4 DEF IInv
<1>4. CASE Drop
  BY <1>4 DEF TypeOK, FinalityIsTrue, ResolvedIsFinal, Drop, UnchangedSigner
<1>5. CASE Send \/ SendFails \/ Subscribed \/ SubscriptionFails
  <2>1. TypeOK'
    BY <1>5 DEF TypeOK, WatchInv, Send, SendFails, Subscribed, SubscriptionFails
  <2> QED
    BY <1>5, <2>1 DEF TypeOK, FinalityIsTrue, ResolvedIsFinal,
                      Send, SendFails, Subscribed, SubscriptionFails
<1>6. CASE ResultIgnored \/ CallbackThrows
  <2>1. /\ results \in Seq(Result) /\ results # <<>> /\ results' = Tail(results)
        /\ UNCHANGED <<tx, watch, block, outcome, reported>>
    BY <1>6 DEF TypeOK, ResultIgnored, CallbackThrows
  <2>2. FinalityIsTrue'
    BY <2>1, StreamFacts DEF FinalityIsTrue
  <2> QED
    BY <2>1, <2>2, StreamFacts DEF TypeOK, ResolvedIsFinal
<1>7. CASE Deliver
  <2> DEFINE r == Head(results)
  <2>1. /\ results \in Seq(Result) /\ results # <<>> /\ results' = Tail(results)
        /\ UNCHANGED tx /\ SignerCallback(r) /\ outcome = "pending" /\ reported = 0
    BY <1>7 DEF TypeOK, Deliver
  <2>2. r \in Result /\ (r.status = "finalized" => tx.stage = "final" /\ r.failed = ~tx.ok)
    BY <2>1, StreamFacts DEF FinalityIsTrue
  <2>3. LastBlock(r) \in Blocks
    BY <2>2 DEF TypeOK, LastBlock, Result
  <2>4. TypeOK'
    BY <2>1, <2>3, StreamFacts DEF TypeOK, SignerCallback, Settle, Unsub
  <2>5. FinalityIsTrue'
    BY <2>1, StreamFacts DEF FinalityIsTrue
  <2>6. WatchInv'
    BY <2>1 DEF SignerCallback, Settle, Unsub
  <2>7. ResolvedIsFinal'
    BY <2>1, <2>2 DEF TypeOK, ResolvedIsFinal, SignerCallback, Settle, CanUnsub
  <2> QED
    BY <2>4, <2>5, <2>6, <2>7 DEF IInv
<1>8. CASE UNCHANGED vars
  BY <1>8 DEF TypeOK, FinalityIsTrue, ResolvedIsFinal, vars
<1> QED
  BY <1>1, <1>2, <1>3, <1>4, <1>5, <1>6, <1>7, <1>8 DEF Next

(* The inductive invariant holds initially. *)
LEMMA InitialState == Init => IInv
  BY ConstantsAssumption, EmptySeq
  DEF Init, IInv, TypeOK, FinalityIsTrue, ResolvedIsFinal, WatchInv, Blocks

(* The inductive invariant holds in every state. *)
THEOREM Invariance == Safety => []IInv
<1>1. IInv /\ [Next]_vars => IInv'
  BY InductiveStep
<1> QED
  BY <1>1, InitialState, PTL DEF Safety

(* A promise that resolved is about a finalized success, whatever the      *)
(* chain retracts, the pool drops, and results are lost.                   *)
THEOREM Resolved == Safety => []ResolvedIsFinal
  BY Invariance, PTL DEF IInv

(* The variables keep their types; a block is reported on resolution only. *)
THEOREM TypeCorrect == Safety => []TypeOK
  BY Invariance, PTL DEF IInv

-----------------------------------------------------------------------------
(* A rejection tells the truth: a failure in one block is one in any other *)
(* block, and only what never was sent is rejected without one.            *)
VerdictIsTrue ==
  \A i \in DOMAIN results : results[i].failed => tx.fork > 0 /\ ~tx.ok

RejectedIsVoid ==
  outcome = "rejected" => tx.stage = "unsent" \/ (tx.fork > 0 /\ ~tx.ok)

IncludedInBlock == tx.stage \in {"block", "final"} => tx.fork > 0

VerdictInv == IInv /\ VerdictIsTrue /\ RejectedIsVoid /\ IncludedInBlock

(* The invariant the refinement needs holds initially. *)
LEMMA VerdictInitial == Init => VerdictInv
  BY InitialState DEF Init, VerdictInv, VerdictIsTrue, RejectedIsVoid, IncludedInBlock

(* Every step keeps it, where forks and connections behave. *)
LEMMA VerdictStep ==
  ASSUME ForkSensitive = FALSE, ConnectionMayBreak = FALSE, VerdictInv, [Next]_vars
  PROVE  VerdictInv'
<1> USE ConstantsAssumption DEF Blocks, VerdictInv, RejectedIsVoid, IncludedInBlock
<1>0. IInv' /\ TypeOK
  BY InductiveStep DEF IInv
<1>1. CASE \E ok \in BOOLEAN : Include(ok)
  <2>1. PICK ok \in BOOLEAN : Include(ok)
    BY <1>1
  <2> DEFINE r == [status |-> "inBlock", block |-> tx.fork + 1, failed |-> ~ok]
  <2>2. r \in Result /\ results' = Append(results, r) /\ results \in Seq(Result)
    BY <1>0, <2>1 DEF TypeOK, Include, Emit, Result
  <2>3. tx'.fork > 0 /\ tx'.stage = "block" /\ tx'.ok = ok /\ (tx.fork > 0 => ok = tx.ok)
    BY <1>0, <2>1 DEF TypeOK, Include
  <2>4. VerdictIsTrue'
    BY <2>2, <2>3, AppendFacts DEF VerdictIsTrue
  <2> QED
    BY <1>0, <2>1, <2>3, <2>4 DEF Include, UnchangedSigner
<1>2. CASE Retract \/ Drop
  BY <1>0, <1>2 DEF TypeOK, VerdictIsTrue, Retract, Drop, UnchangedSigner
<1>3. CASE Finalize
  <2> DEFINE r == [status |-> "finalized", block |-> tx.fork, failed |-> ~tx.ok]
  <2>1. r \in Result /\ results' = Append(results, r) /\ results \in Seq(Result)
    BY <1>0, <1>3 DEF TypeOK, Finalize, Emit, Result
  <2>2. tx'.fork = tx.fork /\ tx'.ok = tx.ok /\ tx.fork > 0
    BY <1>0, <1>3 DEF TypeOK, Finalize
  <2>3. VerdictIsTrue'
    BY <2>1, <2>2, AppendFacts DEF VerdictIsTrue
  <2> QED
    BY <1>0, <1>3, <2>2, <2>3 DEF TypeOK, Finalize, UnchangedSigner
<1>4. CASE Send \/ SendFails \/ Subscribed \/ SubscriptionFails
  BY <1>0, <1>4 DEF IInv, WatchInv, TypeOK, VerdictIsTrue,
                    Send, SendFails, Subscribed, SubscriptionFails
<1>5. CASE ResultIgnored \/ CallbackThrows
  <2>1. /\ results \in Seq(Result) /\ results # <<>> /\ results' = Tail(results)
        /\ UNCHANGED <<tx, outcome>>
    BY <1>0, <1>5 DEF TypeOK, ResultIgnored, CallbackThrows
  <2>2. VerdictIsTrue'
    BY <2>1, StreamFacts DEF VerdictIsTrue
  <2> QED
    BY <1>0, <2>1, <2>2
<1>6. CASE Deliver
  <2> DEFINE r == Head(results)
  <2>1. /\ results \in Seq(Result) /\ results # <<>> /\ results' = Tail(results)
        /\ UNCHANGED tx /\ SignerCallback(r) /\ outcome = "pending"
    BY <1>0, <1>6 DEF IInv, WatchInv, TypeOK, Deliver
  <2>2. VerdictIsTrue' /\ (r.failed => tx.fork > 0 /\ ~tx.ok)
    BY <2>1, StreamFacts DEF VerdictIsTrue
  <2>3. RejectedIsVoid'
    BY <2>1, <2>2 DEF SignerCallback, Settle
  <2> QED
    BY <1>0, <2>1, <2>2, <2>3
<1>7. CASE UNCHANGED vars
  BY <1>0, <1>7 DEF VerdictIsTrue, vars
<1> QED
  BY <1>1, <1>2, <1>3, <1>4, <1>5, <1>6, <1>7 DEF Next

(* Every step of the signer, the node and the chain is a step of the       *)
(* contract, or leaves effect and outcome alone.                           *)
LEMMA ContractStep ==
  ASSUME ForkSensitive = FALSE, ConnectionMayBreak = FALSE,
         VerdictInv, VerdictInv', [Next]_vars
  PROVE  [Contract!Next]_(Contract!vars)
<1> USE DEF VerdictInv, RejectedIsVoid, IncludedInBlock, Effect, Contract!Next, Contract!vars,
            Contract!Decide, Contract!Refuse, Contract!Resolve, Contract!Reject
<1>0. TypeOK /\ TypeOK'
  BY DEF IInv
<1>1. CASE (\E ok \in BOOLEAN : Include(ok)) \/ Retract \/ Finalize \/ Drop
  BY <1>0, <1>1 DEF TypeOK, Include, Retract, Finalize, Drop, UnchangedSigner
<1>2. CASE Send \/ SendFails \/ Subscribed \/ SubscriptionFails
  BY <1>0, <1>2 DEF IInv, WatchInv, TypeOK, Send, SendFails, Subscribed, SubscriptionFails
<1>3. CASE ResultIgnored \/ CallbackThrows
  BY <1>3 DEF ResultIgnored, CallbackThrows
<1>4. CASE Deliver
  <2> DEFINE r == Head(results)
  <2>1. /\ results \in Seq(Result) /\ results # <<>>
        /\ UNCHANGED tx /\ SignerCallback(r) /\ outcome = "pending"
    BY <1>0, <1>4 DEF IInv, WatchInv, TypeOK, Deliver
  <2>2. /\ r.failed => tx.fork > 0 /\ ~tx.ok
        /\ r.status = "finalized" => tx.stage = "final" /\ r.failed = ~tx.ok
    BY <2>1, StreamFacts DEF IInv, FinalityIsTrue, VerdictIsTrue
  <2>3. CASE outcome' = outcome
    BY <2>1, <2>3
  <2>4. CASE outcome' = "rejected" /\ r.failed
    BY <2>1, <2>2, <2>4
  <2>5. CASE outcome' = "resolved" /\ ~r.failed /\ r.status = "finalized"
    BY <1>0, <2>1, <2>2, <2>5 DEF TypeOK
  <2> QED
    BY <2>1, <2>3, <2>4, <2>5 DEF SignerCallback, Settle, CanUnsub
<1>5. CASE UNCHANGED vars
  BY <1>5 DEF vars
<1> QED
  BY <1>1, <1>2, <1>3, <1>4, <1>5 DEF Next

(* signAndSend keeps its contract when an extrinsic's outcome does not     *)
(* depend on the block and the connection holds: whoever compensates on a  *)
(* rejection, as LocClient does, undoes nothing that took effect.          *)
THEOREM Refinement ==
  ASSUME ForkSensitive = FALSE, ConnectionMayBreak = FALSE
  PROVE  Safety => ImplementsContract
<1>1. Init => Contract!Init
  BY DEF Init, Contract!Init, Effect
<1>2. VerdictInv /\ [Next]_vars => VerdictInv'
  BY VerdictStep
<1>3. VerdictInv /\ VerdictInv' /\ [Next]_vars => [Contract!Next]_(Contract!vars)
  BY ContractStep
<1> QED
  BY <1>1, <1>2, <1>3, VerdictInitial, PTL DEF Safety, ImplementsContract, Contract!Spec

-----------------------------------------------------------------------------
(* Where no result is lost, the last block the signer knows of, or will    *)
(* once it has the results on their way, is the last the extrinsic was in; *)
(* and a Finalized result comes after all the others.                      *)
InBlockAt(stream, i) == stream[i].status = "inBlock"

BlockIsKnown ==
  /\ (\A i \in DOMAIN results : ~InBlockAt(results, i)) => block = tx.fork
  /\ \A i \in DOMAIN results :
       InBlockAt(results, i) /\ (\A j \in DOMAIN results : j > i => ~InBlockAt(results, j)) =>
         results[i].block = tx.fork
  /\ \A i, j \in DOMAIN results : results[i].status = "finalized" => j <= i

KnownInv == IInv /\ BlockIsKnown /\ ReportedBlockIsFinal

(* Initially, there is no block and no result. *)
LEMMA KnownInitially == Init => KnownInv
<1> SUFFICES ASSUME Init PROVE BlockIsKnown /\ ReportedBlockIsFinal
  BY InitialState DEF KnownInv
<1>1. results = <<>> /\ DOMAIN results = {} /\ block = 0 /\ tx.fork = 0
  BY EmptySeq DEF Init
<1> QED
  BY <1>1 DEF Init, BlockIsKnown, ReportedBlockIsFinal

(* A result in a new block is the last one. *)
LEMMA KnownOnInclude ==
  ASSUME KnownInv, NEW ok \in BOOLEAN, Include(ok)
  PROVE  BlockIsKnown'
<1> DEFINE r == [status |-> "inBlock", block |-> tx.fork + 1, failed |-> ~ok]
<1>1. /\ r \in Result /\ results' = Append(results, r) /\ results \in Seq(Result)
      /\ tx'.fork = tx.fork + 1
  BY ConstantsAssumption DEF KnownInv, IInv, TypeOK, Include, Emit, Result, Blocks
<1>2. /\ Len(results) \in Nat /\ DOMAIN results = 1..Len(results)
      /\ DOMAIN results' = 1..(Len(results) + 1)
      /\ results'[Len(results) + 1] = r
      /\ \A i \in 1..Len(results) : results'[i] = results[i]
  BY <1>1, AppendProperties, LenProperties
<1>3. \A i \in DOMAIN results : results[i].status # "finalized"
  BY DEF KnownInv, IInv, FinalityIsTrue, Include
<1> HIDE DEF r
<1>4. r.status = "inBlock" /\ r.block = tx'.fork
  BY <1>1 DEF r
<1>5. InBlockAt(results', Len(results) + 1) /\ Len(results) + 1 \in DOMAIN results'
  BY <1>2, <1>4 DEF InBlockAt
<1>6. ASSUME NEW i \in DOMAIN results', \A j \in DOMAIN results' : j > i => ~InBlockAt(results', j)
      PROVE  results'[i].block = tx'.fork
  <2>1. i = Len(results) + 1
    BY <1>2, <1>5, <1>6
  <2> QED
    BY <1>2, <1>4, <2>1
<1>7. \A i \in DOMAIN results' : results'[i].status # "finalized"
  BY <1>2, <1>3, <1>4
<1> QED
  BY <1>5, <1>6, <1>7 DEF BlockIsKnown, InBlockAt

(* A Finalized result comes last, about the block that is known. *)
LEMMA KnownOnFinalize ==
  ASSUME KnownInv, Finalize
  PROVE  BlockIsKnown'
<1> DEFINE r == [status |-> "finalized", block |-> tx.fork, failed |-> ~tx.ok]
<1>1. /\ r \in Result /\ results' = Append(results, r) /\ results \in Seq(Result)
      /\ tx'.fork = tx.fork /\ block' = block
  BY DEF KnownInv, IInv, TypeOK, Finalize, Emit, Result, UnchangedSigner
<1>2. /\ Len(results) \in Nat /\ DOMAIN results = 1..Len(results)
      /\ DOMAIN results' = 1..(Len(results) + 1)
      /\ results'[Len(results) + 1] = r
      /\ \A i \in 1..Len(results) : results'[i] = results[i]
  BY <1>1, AppendProperties, LenProperties
<1>3. \A i \in DOMAIN results : results[i].status # "finalized"
  BY DEF KnownInv, IInv, FinalityIsTrue, Finalize
<1>4. r.status = "finalized"
  OBVIOUS
<1> HIDE DEF r
<1>5. /\ ~InBlockAt(results', Len(results) + 1)
      /\ \A i \in DOMAIN results : InBlockAt(results', i) <=> InBlockAt(results, i)
  BY <1>2, <1>4 DEF InBlockAt
<1>6. (\A i \in DOMAIN results' : ~InBlockAt(results', i)) => block' = tx'.fork
  BY <1>1, <1>2, <1>5 DEF KnownInv, BlockIsKnown
<1>7. ASSUME NEW i \in DOMAIN results', InBlockAt(results', i),
             \A j \in DOMAIN results' : j > i => ~InBlockAt(results', j)
      PROVE  results'[i].block = tx'.fork
  <2>1. i \in DOMAIN results /\ InBlockAt(results, i)
    BY <1>2, <1>5, <1>7
  <2>2. \A j \in DOMAIN results : j > i => ~InBlockAt(results, j)
    BY <1>2, <1>5, <1>7
  <2> QED
    BY <1>1, <1>2, <2>1, <2>2 DEF KnownInv, BlockIsKnown
<1>8. \A i, j \in DOMAIN results' : results'[i].status = "finalized" => j <= i
  BY <1>2, <1>3
<1> QED
  BY <1>6, <1>7, <1>8 DEF BlockIsKnown, InBlockAt

(* The signer learns of the block of the result it is given; a Finalized   *)
(* result leaves nothing to learn.                                         *)
LEMMA KnownOnDeliver ==
  ASSUME KnownInv, Deliver
  PROVE  BlockIsKnown' /\ ReportedBlockIsFinal'
<1> DEFINE r == Head(results)
<1>1. /\ results \in Seq(Result) /\ results # <<>> /\ results' = Tail(results)
      /\ tx' = tx /\ SignerCallback(r) /\ block' = LastBlock(r) /\ outcome = "pending"
  BY DEF KnownInv, IInv, WatchInv, TypeOK, Deliver, SignerCallback
<1>2. /\ Len(results) \in Nat \ {0} /\ DOMAIN results = 1..Len(results)
      /\ DOMAIN results' = 1..(Len(results) - 1) /\ r = results[1] /\ r \in Result
      /\ \A i \in 1..(Len(results) - 1) : results'[i] = results[i + 1]
  BY <1>1, EmptySeq, LenProperties, HeadTailProperties
<1>3. \A i \in DOMAIN results' : i + 1 \in DOMAIN results /\ (InBlockAt(results', i) <=> InBlockAt(results, i + 1))
  BY <1>2 DEF InBlockAt
<1>4. \A i \in DOMAIN results : i = 1 \/ (i - 1 \in DOMAIN results' /\ (i - 1) + 1 = i)
  BY <1>2
<1> HIDE DEF r
<1>5. ASSUME \A i \in DOMAIN results' : ~InBlockAt(results', i)
      PROVE  block' = tx'.fork
  <2>1. \A i \in DOMAIN results : i = 1 \/ ~InBlockAt(results, i)
    BY <1>3, <1>4, <1>5
  <2>2. CASE InBlockAt(results, 1)
    <3>1. r.block = tx.fork
      BY <1>2, <2>1, <2>2 DEF KnownInv, BlockIsKnown
    <3> QED
      BY <1>1, <1>2, <2>2, <3>1 DEF InBlockAt, LastBlock
  <2>3. CASE ~InBlockAt(results, 1)
    <3>1. block = tx.fork
      BY <2>1, <2>3 DEF KnownInv, BlockIsKnown
    <3> QED
      BY <1>1, <1>2, <2>3, <3>1 DEF InBlockAt, LastBlock
  <2> QED
    BY <2>2, <2>3
<1>6. (\A i \in DOMAIN results' : ~InBlockAt(results', i)) => block' = tx'.fork
  BY <1>5
<1>7. ASSUME NEW i \in DOMAIN results', InBlockAt(results', i),
             \A j \in DOMAIN results' : j > i => ~InBlockAt(results', j)
      PROVE  results'[i].block = tx'.fork
  <2>1. i + 1 \in DOMAIN results /\ InBlockAt(results, i + 1) /\ results'[i] = results[i + 1]
    BY <1>2, <1>3, <1>7
  <2>2. ASSUME NEW j \in DOMAIN results, j > i + 1 PROVE ~InBlockAt(results, j)
    <3>1. j - 1 \in DOMAIN results' /\ j - 1 > i /\ (j - 1) + 1 = j
      BY <1>2, <2>2
    <3> QED
      BY <1>3, <1>7, <3>1
  <2> QED
    BY <1>1, <2>1, <2>2 DEF KnownInv, BlockIsKnown
<1>8. ASSUME NEW i \in DOMAIN results', NEW j \in DOMAIN results', results'[i].status = "finalized"
      PROVE  j <= i
  <2>1. i + 1 \in DOMAIN results /\ j + 1 \in DOMAIN results
        /\ results[i + 1].status = "finalized"
    BY <1>2, <1>8
  <2>2. j + 1 <= i + 1
    BY <2>1 DEF KnownInv, BlockIsKnown
  <2> QED
    BY <1>2, <2>2
<1>9. ReportedBlockIsFinal'
  <2>1. CASE outcome' = "resolved"
    <3>1. r.status = "finalized" /\ reported' = block'
      BY <1>1, <2>1 DEF SignerCallback, Settle, CanUnsub
    <3>2. DOMAIN results' = {}
      BY <1>2, <3>1 DEF KnownInv, BlockIsKnown
    <3>3. reported' = tx'.fork
      BY <1>6, <3>1, <3>2
    <3> QED
      BY <3>3 DEF ReportedBlockIsFinal
  <2> QED
    BY <2>1 DEF ReportedBlockIsFinal
<1> QED
  BY <1>6, <1>7, <1>8, <1>9 DEF BlockIsKnown, InBlockAt

(* Every step keeps it, where no result is lost. *)
LEMMA KnownStep ==
  ASSUME LateSubscription = FALSE, CallbackMayThrow = FALSE, KnownInv, [Next]_vars
  PROVE  KnownInv'
<1>1. IInv'
  BY InductiveStep DEF KnownInv
<1>2. BlockIsKnown' /\ ReportedBlockIsFinal'
  <2>1. CASE \E ok \in BOOLEAN : Include(ok)
    <3>1. outcome' # "resolved"
      BY <2>1 DEF KnownInv, IInv, ResolvedIsFinal, Include, UnchangedSigner
    <3> QED
      BY <2>1, <3>1, KnownOnInclude DEF ReportedBlockIsFinal
  <2>2. CASE Finalize
    <3>1. outcome' # "resolved"
      BY <2>2 DEF KnownInv, IInv, ResolvedIsFinal, Finalize, UnchangedSigner
    <3> QED
      BY <2>2, <3>1, KnownOnFinalize DEF ReportedBlockIsFinal
  <2>3. CASE \/ Retract \/ Drop \/ Send \/ SendFails \/ Subscribed \/ SubscriptionFails
             \/ UNCHANGED vars
    <3>1. /\ tx'.fork = tx.fork /\ UNCHANGED <<results, block>>
          /\ outcome' = "resolved" => outcome = "resolved" /\ reported' = reported
      BY <2>3 DEF KnownInv, IInv, TypeOK, Retract, Drop, Send, SendFails, Subscribed,
                  SubscriptionFails, UnchangedSigner, vars
    <3>2. BlockIsKnown'
      BY <3>1 DEF KnownInv, BlockIsKnown, InBlockAt
    <3>3. ReportedBlockIsFinal'
      BY <3>1 DEF KnownInv, ReportedBlockIsFinal
    <3> QED
      BY <3>2, <3>3
  <2>4. CASE Deliver
    BY <2>4, KnownOnDeliver
  <2>5. CASE ResultIgnored \/ CallbackThrows
    BY <2>5 DEF ResultIgnored, CallbackThrows
  <2> QED
    BY <2>1, <2>2, <2>3, <2>4, <2>5 DEF Next
<1> QED
  BY <1>1, <1>2 DEF KnownInv

(* The block a caller gets is the finalized one, for any number of         *)
(* retracted blocks, forks that change the outcome and a connection that   *)
(* may break, where no result is lost.                                     *)
THEOREM ReportedFinal ==
  ASSUME LateSubscription = FALSE, CallbackMayThrow = FALSE
  PROVE  Safety => []ReportedBlockIsFinal
<1>1. KnownInv /\ [Next]_vars => KnownInv'
  BY KnownStep
<1>2. KnownInv => ReportedBlockIsFinal
  BY DEF KnownInv
<1> QED
  BY <1>1, <1>2, KnownInitially, PTL DEF Safety
=============================================================================
