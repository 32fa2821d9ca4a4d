-------------------------- MODULE CollectionsProofs ---------------------------
(***************************************************************************)
(* Proofs about LocOperations, for any set of kinds, any size of batch and *)
(* any number of attempts, then about Collections.                         *)
(*                                                                         *)
(* EffectIsClaimed is not inductive: what protects the claims of an        *)
(* extrinsic that took effect, or still may, is that nobody undoes them.   *)
(* The current attempt undoes claims only when its own extrinsic is void,  *)
(* or is held for void, so it must be shown that no other one of the       *)
(* operation is pending or applied: the LOC's data showed it (guarded      *)
(* operations), or the backend refused the first claim (items and          *)
(* records).  The backend owes no claim to the attempts that were misled.  *)
(*                                                                         *)
(* Every step of Collections is one of LocOperations or leaves its         *)
(* variables alone, so that what is established of LocOperations holds     *)
(* there: above all, that the claims of an extrinsic that took effect, or  *)
(* may still do, are protected (Protected).  Their contents then are too.  *)
(***************************************************************************)
EXTENDS Collections, TLAPS

(* The current attempt: how far it is tells what the chain knows of it.    *)
AttemptInv ==
  /\ phase # "idle" => attempts > 0
  /\ phase \in {"claiming", "submitted", "following"} => attempts \notin undecided \union misled
  /\ phase = "claiming" => recorded # attempts
  /\ phase = "submitted" => kind.submits /\ (recorded = attempts <=> effect = "applied")
  /\ phase = "compensating" => next <= kind.undoes
  /\ phase = "following" => kind.follows /\ (kind.submits => recorded = attempts)
  /\ ~kind.submits => undecided = {} /\ ~chain
  /\ followed # 0 /\ kind.submits => followed = recorded

IInv == TypeOK /\ AttemptInv

(* The parameters of a program; it undoes no more than it announced. *)
LEMMA KindIsProgram ==
  ASSUME kind \in Kinds
  PROVE  /\ kind.requests \in Nat /\ kind.undoes \in Nat /\ kind.undoes <= kind.requests
         /\ kind.guarded \in BOOLEAN /\ kind.fresh \in BOOLEAN /\ kind.late \in BOOLEAN
         /\ kind.cancels \in BOOLEAN /\ kind.awaited \in BOOLEAN /\ kind.follows \in BOOLEAN
         /\ kind.submits \in BOOLEAN
         /\ kind.shows \in {"claims", "chain", "follow"}
         /\ (kind.guarded /\ kind.follows) => kind.shows = "follow"
         /\ (kind.shows = "follow") => kind.follows
         /\ ~kind.submits => kind.follows
<1>1. /\ kind \in Programs /\ kind.undoes <= kind.requests
      /\ (kind.guarded /\ kind.follows) => kind.shows = "follow"
      /\ (kind.shows = "follow") => kind.follows
      /\ ~kind.submits => kind.follows
  BY ConstantsAssumption
<1> QED
  BY <1>1 DEF Programs

(* The kind of operation never changes, nor what depends on it. *)
LEMMA KindIsConstant == [Next]_vars => kind' = kind /\ Batch' = Batch
  BY DEF Next, vars, caller, remote, Refresh, Start, Announce, Claim, ClaimRefused, ClaimLost,
         ValidationFails, Submit, AcceptOnly, Decide, DecideOrphan, Resolved, Rejected,
         RejectedEarly, Compensate, CompensationFails, LateDelete, Follow, FollowFails, Crash, Batch

(* The bound of the attempts is a natural number. *)
LEMMA AttemptsAreNat == MaxAttempts \in Nat
  BY ConstantsAssumption

(* What a client fetches of the operation: did it happen? *)
LEMMA FetchedIsBoolean ==
  ASSUME TypeOK
  PROVE  Fetched \in BOOLEAN
<1>1. (claims # {}) \in BOOLEAN /\ chain \in BOOLEAN /\ (followed # 0) \in BOOLEAN
  BY DEF chain
<1> QED
  BY <1>1, KindIsProgram DEF Fetched, TypeOK

(* The inductive invariant holds initially. *)
LEMMA InitialState == Init => IInv
<1> SUFFICES ASSUME Init PROVE IInv
  OBVIOUS
<1>1. /\ kind.requests \in Nat /\ 0 \in 0..MaxAttempts
      /\ 1 \in 1..(kind.requests + 1) /\ 0 \in 0..0
  BY KindIsProgram, AttemptsAreNat DEF Init
<1>2. TypeOK
  BY <1>1 DEF Init, TypeOK
<1>3. AttemptInv
  BY DEF Init, AttemptInv, chain
<1> QED
  BY <1>2, <1>3 DEF IInv

(* Every step keeps the inductive invariant. *)
LEMMA InductiveStep ==
  ASSUME IInv, [Next]_vars
  PROVE  IInv'
<1> USE AttemptsAreNat
    DEF IInv, TypeOK, AttemptInv, caller, remote, history
<1>a. /\ kind.requests \in Nat /\ kind.undoes \in Nat /\ kind.undoes <= kind.requests
      /\ ~kind.submits => kind.follows
  BY KindIsProgram
<1>1. kind' = kind /\ Batch' = Batch
  BY KindIsConstant
<1>0. Fetched \in BOOLEAN
  BY FetchedIsBoolean
<1> USE <1>a, <1>0, <1>1
<1>2. CASE Refresh
  BY <1>2 DEF Refresh, chain
<1>s. CASE Start
  <2>1. /\ attempts' = attempts + 1 /\ attempts' \in 0..MaxAttempts /\ attempts' > 0
        /\ phase' = "claiming" /\ next' = 1
        /\ UNCHANGED <<kind, done, recorded, undecided, misled, followed, claims, deleting,
                       effect, outcome, faults>>
    BY <1>s DEF Start
  <2>2. /\ attempts' \notin undecided \union misled /\ recorded # attempts'
        /\ 0..attempts \subseteq 0..attempts' /\ 1..attempts \subseteq 1..attempts'
    BY <2>1
  <2>3. 1 \in 1..(kind.requests + 1)
    OBVIOUS
  <2> QED
    BY <2>1, <2>2, <2>3 DEF chain
<1>3. CASE Claim \/ ClaimRefused \/ ClaimLost \/ ValidationFails
  <2>1. claims' \subseteq Batch'
    BY <1>3 DEF Claim, ClaimRefused, ClaimLost, ValidationFails, Announce
  <2>2. next' \in 1..(kind'.requests + 1)
    BY <1>3 DEF Claim, ClaimRefused, ClaimLost, ValidationFails, Announce, Throw, Batch
  <2>3. faults' \in BOOLEAN
    BY <1>3 DEF Claim, ClaimRefused, ClaimLost, ValidationFails
  <2>4. phase' \in {phase, "idle"} /\ UNCHANGED <<done, attempts>>
    BY <1>3 DEF Claim, ClaimRefused, ClaimLost, ValidationFails, Throw
  <2>5. UNCHANGED <<kind, recorded, undecided, deleting, followed, effect, outcome, misled>>
    BY <1>3 DEF Claim, ClaimRefused, ClaimLost, ValidationFails, Announce
  <2>6. phase = "claiming"
    BY <1>3 DEF Claim, ClaimRefused, ClaimLost, ValidationFails, Announce
  <2> QED
    BY <2>1, <2>2, <2>3, <2>4, <2>5, <2>6 DEF chain
<1>4. CASE Submit \/ AcceptOnly
  BY <1>4 DEF Submit, AcceptOnly, chain
<1>5. CASE Decide
  <2>1. /\ recorded' \in {recorded, attempts}
        /\ effect' \in {"applied", "void"} /\ effect = "open" /\ recorded # attempts
        /\ effect' = "applied" => recorded = 0 /\ recorded' = attempts
        /\ effect' = "void" => recorded' = recorded
        /\ phase = "submitted" /\ kind.submits
    BY <1>5 DEF Decide, Extrinsic!Decide, chain
  <2> QED
    BY <1>5, <2>1 DEF Decide, Extrinsic!Decide, chain
<1>6. CASE Resolved
  BY <1>6 DEF Resolved, Extrinsic!Resolve, chain
<1>7. CASE Rejected \/ RejectedEarly
  <2>1. /\ phase' = "idle" \/ (phase' = "compensating" /\ kind.undoes > 0)
        /\ next' \in {next, 1} /\ (phase' = "compensating" => next' = 1)
        /\ deleting' \in {deleting, TRUE}
    BY <1>7 DEF Rejected, RejectedEarly, CatchBlock
  <2>2. 1 \in 1..(kind.requests + 1) /\ (phase' = "compensating" => 1 <= kind.undoes)
    BY <2>1
  <2>3. /\ effect' \in {effect, "void"} /\ outcome' = "rejected"
        /\ undecided' \in {undecided, undecided \union {attempts}}
        /\ misled' \in {misled, misled \union {attempts}}
        /\ attempts \in 1..attempts /\ phase = "submitted" /\ kind.submits
        /\ UNCHANGED <<kind, done, attempts, claims, recorded, followed, faults>>
    BY <1>7 DEF Rejected, RejectedEarly, Extrinsic!Reject, Extrinsic!Refuse
  <2> QED
    BY <2>1, <2>2, <2>3 DEF chain
<1>8. CASE Compensate \/ CompensationFails
  <2>1. next \in Batch
    BY <1>8 DEF Compensate, CompensationFails, Batch
  <2>2. claims' \subseteq Batch'
    BY <1>8, <2>1 DEF Compensate, CompensationFails, Undone
  <2>3. CASE Compensate
    <3>1. next' \in 1..(kind.requests + 1) /\ (next < kind.undoes => next' <= kind.undoes)
      BY <2>1, <2>3 DEF Compensate
    <3> QED
      BY <2>2, <2>3, <3>1 DEF Compensate, chain
  <2>4. CASE CompensationFails
    BY <2>2, <2>4 DEF CompensationFails, Throw, chain
  <2> QED
    BY <1>8, <2>3, <2>4
<1>9. CASE LateDelete \/ Follow \/ FollowFails
  <2>1. CASE LateDelete
    BY <2>1 DEF LateDelete, chain
  <2>2. CASE Follow
    <3>1. /\ attempts \in 1..attempts /\ followed' = attempts /\ phase' = "idle" /\ done' \in BOOLEAN
          /\ kind.submits => recorded = attempts
          /\ UNCHANGED <<kind, next, attempts, claims, recorded, undecided, deleting, effect,
                         outcome, misled, faults>>
      BY <2>2 DEF Follow
    <3> QED
      BY <3>1 DEF chain
  <2>3. CASE FollowFails
    BY <2>3 DEF FollowFails, Throw, chain
  <2> QED
    BY <1>9, <2>1, <2>2, <2>3
<1>10. CASE Crash
  <2>1. /\ undecided' \in {undecided, undecided \union {attempts}}
        /\ ~kind.submits => undecided' = undecided
        /\ attempts \in 1..attempts /\ phase' = "idle" /\ done' \in BOOLEAN /\ faults' = TRUE
        /\ UNCHANGED <<kind, next, attempts, claims, recorded, deleting, followed, effect, outcome, misled>>
    BY <1>10 DEF Crash
  <2> QED
    BY <2>1 DEF chain
<1>11. CASE UNCHANGED vars
  BY <1>11 DEF vars, chain
<1>12. CASE DecideOrphan
  <2>1. PICK a \in undecided : /\ undecided' = undecided \ {a}
                               /\ (recorded = 0 /\ recorded' = a) \/ recorded' = recorded
    BY <1>12 DEF DecideOrphan, chain
  <2>2. /\ a \in 1..attempts /\ kind.submits
        /\ UNCHANGED <<kind, phase, next, done, attempts, claims, deleting, followed, effect,
                       outcome, misled, faults>>
    BY <1>12, <2>1 DEF DecideOrphan
  <2>3. phase \in {"claiming", "submitted", "following"} => a # attempts
    BY <2>1
  <2> QED
    BY <2>1, <2>2, <2>3
<1> QED
  BY <1>2, <1>s, <1>3, <1>4, <1>5, <1>6, <1>7, <1>8, <1>9, <1>10, <1>11, <1>12 DEF Next

(* The inductive invariant holds in every state. *)
THEOREM Invariance == Spec => []IInv
<1>1. IInv /\ [Next]_vars => IInv'
  BY InductiveStep
<1> QED
  BY <1>1, InitialState, PTL DEF Spec

(* Every variable keeps its type; no loop leaves the batch. *)
THEOREM TypeCorrect == Spec => []TypeOK
  BY Invariance, PTL DEF IInv

-----------------------------------------------------------------------------
(* A fault is never forgotten. *)
LEMMA FaultsRemain ==
  ASSUME [Next]_vars, faults
  PROVE  faults'
<1> USE DEF history, Refresh, Start, Announce, Claim, ClaimRefused, ClaimLost,
        ValidationFails, Submit, AcceptOnly, Decide, DecideOrphan, Resolved, Rejected,
        RejectedEarly, Compensate, CompensationFails, LateDelete, Follow, FollowFails, Crash
<1>1. CASE ClaimLost \/ CompensationFails \/ FollowFails \/ Crash
  BY <1>1
<1>2. CASE faults' = faults
  BY <1>2
<1> QED
  BY <1>1, <1>2 DEF Next, vars

(* As long as nothing crashed or got lost, what took effect is followed,   *)
(* or about to be.                                                         *)
Followed ==
  /\ undecided \subseteq misled
  /\ kind.follows /\ TookEffect =>
       followed = recorded \/ (recorded = attempts /\ phase \in {"submitted", "following"})

LEMMA FollowedStep ==
  ASSUME ~faults', IInv, ~faults => Followed, [Next]_vars
  PROVE  Followed'
<1>1. kind' = kind
  BY KindIsConstant
<1>2. ~faults /\ Followed
  BY FaultsRemain
<1> USE <1>1, <1>2 DEF Followed, TookEffect, chain, caller, remote, history
<1>3. CASE Refresh \/ Start
  BY <1>3 DEF Refresh, Start
<1>4. CASE Claim \/ ClaimRefused \/ ValidationFails \/ Submit \/ AcceptOnly
  BY <1>4 DEF Claim, Announce, ClaimRefused, ValidationFails, Throw, Submit, AcceptOnly
<1>5. CASE Decide
  BY <1>5 DEF Decide, Extrinsic!Decide
<1>6. CASE DecideOrphan
  BY <1>6 DEF DecideOrphan, IInv, TypeOK
<1>7. CASE Resolved
  <2>1. phase' = "following" \/ ~kind.follows
    BY <1>7 DEF Resolved
  <2> QED
    BY <1>7, <2>1 DEF Resolved, Extrinsic!Resolve
<1>8. CASE Rejected
  BY <1>8 DEF Rejected, Extrinsic!Reject, Extrinsic!Refuse, IInv, AttemptInv
<1>9. CASE RejectedEarly
  BY <1>9 DEF RejectedEarly
<1>10. CASE Compensate \/ LateDelete
  BY <1>10 DEF Compensate, LateDelete
<1>11. CASE Follow
  BY <1>11 DEF Follow, IInv, AttemptInv
<1>12. CASE ClaimLost \/ CompensationFails \/ FollowFails \/ Crash
  BY <1>12 DEF ClaimLost, CompensationFails, FollowFails, Crash
<1>13. CASE UNCHANGED vars
  BY <1>13 DEF vars
<1> QED
  BY <1>3, <1>4, <1>5, <1>6, <1>7, <1>8, <1>9, <1>10, <1>11, <1>12, <1>13 DEF Next

(* The backend accepts a LOC, or gets files, for the attempt that put it   *)
(* on chain; unless something crashed or got lost, or signAndSend rejected *)
(* too early, it does so for whatever is on chain.                         *)
THEOREM FollowedAfterChain == Spec => []FollowedIsOnChain
<1> DEFINE J == ~faults => Followed
<1>1. Init => J
  BY DEF Init, Followed, TookEffect, chain
<1>2. IInv /\ J /\ [Next]_vars => J'
  BY FollowedStep
<1>3. IInv /\ J => FollowedIsOnChain
  BY DEF IInv, AttemptInv, Followed, FollowedIsOnChain
<1> QED
  BY <1>1, <1>2, <1>3, Invariance, PTL DEF Spec

-----------------------------------------------------------------------------
(* The attempts the backend owes their claims: the one that took effect    *)
(* and those that still may, unless signAndSend rejected them too early.   *)
Owed == (undecided \union {recorded}) \ (misled \union {0})

(* The programs whose claims are protected. *)
Safe == (kind.awaited \/ kind.fresh) /\ kind.shows = "claims" /\ kind.requests > 0

(* What is claimed stays claimed as long as it matters. *)
Protected ==
  /\ Owed # {} => claims = Batch
  /\ phase = "claiming" => 1..(next - 1) \subseteq claims
  /\ phase = "claiming" /\ Owed # {} => next = 1 /\ ~kind.guarded
  /\ phase = "submitted" => claims = Batch /\ Owed \subseteq {attempts}
  /\ phase = "submitted" => undecided \subseteq misled
  /\ phase = "compensating" => Owed = {}
  /\ phase = "idle" /\ Owed # {} /\ kind.guarded => done
  /\ deleting => kind.fresh /\ phase = "idle" /\ attempts > 0 /\ Owed = {}

(* Every step keeps what protects the claims of pending extrinsics. *)
LEMMA ProtectedStep ==
  ASSUME RefusesDuplicates, Safe, IInv, IInv', Protected, [Next]_vars
  PROVE  Protected'
<1>1. kind' = kind /\ Batch' = Batch
  BY KindIsConstant
<1>2. /\ kind.awaited \/ kind.fresh
      /\ kind.shows = "claims"
      /\ kind.requests \in Nat /\ kind.requests > 0 /\ Batch = 1..kind.requests /\ 1 \in Batch
      /\ kind.undoes \in Nat
      /\ next \in 1..(kind.requests + 1) /\ attempts \in Nat
      /\ undecided \subseteq 1..attempts /\ recorded \in Nat
      /\ claims \subseteq Batch
  BY KindIsProgram, AttemptsAreNat DEF Safe, IInv, TypeOK, Batch
<1>3. claims = Batch => Fetched
  BY <1>2 DEF Fetched
<1>o. UNCHANGED <<undecided, recorded, misled>> => Owed' = Owed
  BY DEF Owed
<1> USE <1>1, <1>2, <1>3, <1>o DEF Protected, caller, remote, history
<1>4. CASE Refresh \/ Start
  BY <1>4 DEF Refresh, Start
<1>5. CASE Claim \/ ClaimLost
  <2>1. Announce /\ Owed = {}
    BY <1>5 DEF Claim, ClaimLost, Announce
  <2> QED
    BY <1>5, <2>1 DEF Claim, ClaimLost, Announce, Throw
<1>6. CASE ClaimRefused \/ ValidationFails
  BY <1>6 DEF ClaimRefused, ValidationFails, Throw
<1>7. CASE Submit
  <2>1. next - 1 = kind.requests /\ next # 1
    BY <1>7 DEF Submit
  <2>2. claims = Batch /\ Owed = {}
    BY <1>7, <2>1 DEF Submit
  <2>3. undecided \subseteq misled
    BY <2>2 DEF Owed
  <2> QED
    BY <1>7, <2>2, <2>3 DEF Submit
<1>a. CASE AcceptOnly
  <2>1. phase = "claiming" /\ phase' = "following" /\ ~kind.submits
    BY <1>a DEF AcceptOnly
  <2>2. Owed = {}
    BY <2>1 DEF Owed, IInv, AttemptInv, chain
  <2> QED
    BY <1>a, <2>2 DEF AcceptOnly
<1>8. CASE Decide
  <2>1. Owed' \subseteq {attempts}
    BY <1>8 DEF Decide, Owed
  <2> QED
    BY <1>8, <2>1 DEF Decide
<1>9. CASE DecideOrphan
  <2>1. Owed' \subseteq Owed
    BY <1>9 DEF DecideOrphan, Owed, chain
  <2> QED
    BY <1>9, <2>1 DEF DecideOrphan
<1>10. CASE Resolved
  BY <1>10 DEF Resolved, Extrinsic!Resolve
<1>11. CASE Rejected
  <2>1. Owed = {}
    BY <1>11 DEF Rejected, Extrinsic!Reject, Extrinsic!Refuse, Owed, IInv, AttemptInv
  <2>2. attempts > 0
    BY <1>11 DEF Rejected, IInv, AttemptInv
  <2> QED
    BY <1>11, <2>1, <2>2 DEF Rejected, CatchBlock
<1>b. CASE RejectedEarly
  <2>1. Owed' = {}
    BY <1>b DEF RejectedEarly, Owed
  <2>2. attempts > 0
    BY <1>b DEF RejectedEarly, IInv, AttemptInv
  <2> QED
    BY <1>b, <2>1, <2>2 DEF RejectedEarly, CatchBlock
<1>12. CASE Compensate \/ CompensationFails
  BY <1>12 DEF Compensate, CompensationFails, Throw
<1>13. CASE LateDelete
  BY <1>13 DEF LateDelete
<1>14. CASE Follow \/ FollowFails
  <2>1. ~kind.guarded
    BY <1>14, KindIsProgram DEF Follow, FollowFails, IInv, TypeOK, AttemptInv
  <2> QED
    BY <1>14, <2>1 DEF Follow, FollowFails, Throw
<1>15. CASE Crash
  <2>1. CASE phase = "submitted"
    <3>1. claims' = Batch /\ done' = Fetched
      BY <1>15, <2>1 DEF Crash
    <3> QED
      BY <1>15, <2>1, <3>1 DEF Crash
  <2>2. CASE phase # "submitted"
    BY <1>15, <2>2 DEF Crash
  <2> QED
    BY <2>1, <2>2
<1>16. CASE UNCHANGED vars
  BY <1>16 DEF vars
<1> QED
  BY <1>4, <1>5, <1>6, <1>7, <1>a, <1>8, <1>9, <1>10, <1>11, <1>b, <1>12, <1>13, <1>14, <1>15,
     <1>16 DEF Next

(* The claims of an extrinsic that took effect, or that may still do, are   *)
(* protected, however often the client goes away and starts again.         *)
THEOREM ClaimsAreProtected ==
  ASSUME RefusesDuplicates
  PROVE  Spec => [](Safe => Protected)
<1> DEFINE J == Safe => Protected
<1>1. Init => J
  BY DEF Init, Protected, Owed
<1>2. IInv /\ IInv' /\ J /\ [Next]_vars => J'
  BY ProtectedStep, KindIsConstant DEF Safe
<1> QED
  BY <1>1, <1>2, Invariance, PTL DEF Spec

(* What took effect on chain is known to the backend in full, however      *)
(* often the client goes away, answers are lost and the user starts again, *)
(* unless signAndSend told the attempt that it failed.                     *)
THEOREM Claimed ==
  ASSUME RefusesDuplicates
  PROVE  Spec => []EffectIsClaimed
<1> DEFINE J == Safe => Protected
<1>1. IInv /\ J => EffectIsClaimed
  <2> SUFFICES ASSUME IInv, J, kind.awaited \/ kind.fresh, kind.shows = "claims", TookEffect
               PROVE  claims = Batch
    BY DEF EffectIsClaimed
  <2>0. kind.requests \in Nat
    BY KindIsProgram DEF IInv, TypeOK
  <2>1. CASE kind.requests = 0
    BY <2>1 DEF IInv, TypeOK, Batch
  <2>2. CASE kind.requests > 0
    <3>1. Owed # {}
      BY DEF Owed, TookEffect, chain
    <3> QED
      BY <2>2, <3>1 DEF Protected, Safe
  <2> QED
    BY <2>0, <2>1, <2>2
<1> QED
  BY <1>1, Invariance, ClaimsAreProtected, PTL

-----------------------------------------------------------------------------
(* As long as nothing crashed or got lost, where the attempt is tells what *)
(* the backend and the chain know.                                         *)
Tidy ==
  /\ undecided \subseteq misled /\ ~deleting
  /\ phase = "idle" => claims = IF TookEffect THEN Batch ELSE {}
  /\ phase = "idle" /\ TookEffect /\ kind.guarded => done
  /\ phase = "claiming" =>
       \/ TookEffect /\ claims = Batch /\ next = 1 /\ ~kind.guarded
       \/ ~TookEffect /\ claims = 1..(next - 1)
  /\ phase = "submitted" => claims = Batch /\ recorded \in misled \union {0, attempts}
  /\ phase = "compensating" => ~TookEffect /\ next = 1
  /\ phase = "following" => TookEffect /\ claims = Batch

(* Every step without a fault keeps claims and outcome together. *)
LEMMA TidyStep ==
  ASSUME RefusesDuplicates, Clean, ~faults', IInv, ~faults => Tidy /\ Followed, [Next]_vars
  PROVE  Tidy'
<1>1. kind' = kind /\ Batch' = Batch
  BY KindIsConstant
<1>2. /\ kind.requests = 1 /\ kind.undoes = 1 /\ kind.cancels /\ kind.awaited /\ ~kind.late
      /\ Batch = {1} /\ claims \subseteq Batch /\ next \in {1, 2}
  BY DEF Clean, Batch, IInv, TypeOK
<1>3. ~faults /\ Tidy /\ Followed
  BY FaultsRemain
<1>4. /\ (kind.guarded /\ kind.follows) => kind.shows = "follow"
      /\ (kind.shows = "follow") => kind.follows
      /\ kind.shows \in {"claims", "chain", "follow"}
      /\ kind.submits
  BY <1>2, KindIsProgram, ConstantsAssumption DEF IInv, TypeOK
<1>5. UNCHANGED <<recorded, misled>> => TookEffect' = TookEffect
  BY DEF TookEffect, chain
<1> USE <1>1, <1>2, <1>3, <1>4, <1>5 DEF Tidy, caller, remote, history
<1>6. CASE Refresh
  <2>1. TookEffect /\ kind.guarded => Fetched
    <3> SUFFICES ASSUME TookEffect, kind.guarded PROVE Fetched
      OBVIOUS
    <3>1. claims = Batch /\ chain
      BY <1>6 DEF Refresh, TookEffect
    <3>2. kind.shows = "follow" => followed # 0
      BY <1>4, <1>6 DEF Refresh, Followed, TookEffect, chain
    <3> QED
      BY <3>1, <3>2 DEF Fetched
  <2> QED
    BY <1>6, <2>1 DEF Refresh
<1>s. CASE Start
  BY <1>s DEF Start
<1>7. CASE Claim
  <2>1. /\ next = 1 /\ phase = "claiming" /\ phase' = phase
        /\ claims' = claims \union {next} /\ next' = next + 1
    BY <1>7 DEF Claim, Announce
  <2>2. ~TookEffect /\ claims = 1..(next - 1)
    BY <1>7, <2>1 DEF Claim, Announce
  <2>3. 1..(1 - 1) = {} /\ 1..(2 - 1) = {1} /\ {} \union {1} = {1}
    OBVIOUS
  <2>4. claims' = 1..(next' - 1)
    BY <2>1, <2>2, <2>3
  <2> QED
    BY <1>7, <2>1, <2>2, <2>4 DEF Claim, Announce
<1>8. CASE ClaimRefused \/ ValidationFails
  BY <1>8 DEF ClaimRefused, ValidationFails, Throw
<1>9. CASE Submit \/ AcceptOnly
  BY <1>9 DEF Submit, AcceptOnly, TookEffect, chain
<1>10. CASE Decide
  BY <1>10 DEF Decide, Extrinsic!Decide
<1>11. CASE Resolved
  <2>1. TookEffect /\ claims = Batch
    BY <1>11 DEF Resolved, Extrinsic!Resolve, IInv, AttemptInv, TypeOK, TookEffect, chain
  <2>2. kind.guarded /\ ~kind.follows => Fetched
    BY <2>1 DEF Fetched, TookEffect
  <2> QED
    BY <1>11, <2>1, <2>2 DEF Resolved
<1>12. CASE Rejected
  <2>1. ~TookEffect
    BY <1>12 DEF Rejected, Extrinsic!Reject, Extrinsic!Refuse, IInv, AttemptInv, TookEffect, chain
  <2> QED
    BY <1>12, <2>1 DEF Rejected, CatchBlock
<1>e. CASE RejectedEarly
  <2>1. ~TookEffect'
    BY <1>e DEF RejectedEarly, TookEffect, chain
  <2> QED
    BY <1>e, <2>1 DEF RejectedEarly, CatchBlock
<1>13. CASE Compensate
  <2>1. next = 1 /\ ~(next < kind.undoes) /\ claims \ {next} = {} /\ ~TookEffect
    BY <1>13 DEF Compensate
  <2>2. claims' = {} /\ phase' = "idle"
    BY <1>13, <2>1 DEF Compensate, Undone
  <2>3. UNCHANGED <<undecided, deleting>> /\ ~TookEffect'
    BY <1>13, <2>1 DEF Compensate
  <2> QED
    BY <1>13, <2>2, <2>3 DEF Compensate
<1>14. CASE Follow
  <2>1. kind.guarded => kind.shows = "follow"
    BY <1>14 DEF Follow, IInv, AttemptInv
  <2> QED
    BY <1>14, <2>1 DEF Follow
<1>15. CASE DecideOrphan
  <2>1. undecided' \subseteq misled' /\ TookEffect' = TookEffect
    BY <1>15 DEF DecideOrphan, TookEffect, chain, IInv, TypeOK
  <2> QED
    BY <1>15, <2>1 DEF DecideOrphan
<1>l. CASE LateDelete
  BY <1>l DEF LateDelete
<1>16. CASE ClaimLost \/ CompensationFails \/ FollowFails \/ Crash
  BY <1>16 DEF ClaimLost, CompensationFails, FollowFails, Crash
<1>17. CASE UNCHANGED vars
  BY <1>17 DEF vars
<1> QED
  BY <1>6, <1>s, <1>7, <1>8, <1>9, <1>10, <1>11, <1>12, <1>e, <1>13, <1>14, <1>15, <1>l, <1>16,
     <1>17 DEF Next

(* Unless something crashed or got lost, an attempt that is told to have   *)
(* failed leaves nothing in the backend and a successful one everything.   *)
THEOREM Compensated ==
  ASSUME RefusesDuplicates
  PROVE  Spec => []ClaimsFollowOutcome
<1> DEFINE J == /\ ~faults => Followed
                /\ Clean /\ ~faults => Tidy
<1>1. Init => J
  BY DEF Init, Tidy, Followed, TookEffect, chain
<1>2. IInv /\ J /\ [Next]_vars => J'
  BY TidyStep, FollowedStep, FaultsRemain, KindIsConstant DEF Clean
<1>3. J => ClaimsFollowOutcome
  BY DEF Tidy, Clean, ClaimsFollowOutcome
<1> QED
  BY <1>1, <1>2, <1>3, Invariance, PTL DEF Spec

-----------------------------------------------------------------------------
(* Collections: what was claimed, and with which contents.                 *)

(* A call has items. *)
Hypotheses == RefusesDuplicates /\ BatchSize # 0

(* The two methods announce each item, and undo each one. *)
LEMMA ItemKinds ==
  ASSUME OfItems, BatchSize # 0
  PROVE  /\ Safe /\ ~kind.guarded /\ ~kind.fresh /\ kind.awaited /\ kind.cancels /\ kind.follows
         /\ kind.submits /\ kind.requests \in Nat /\ kind.requests > 0 /\ kind.undoes = kind.requests
<1>1. BatchSize \in Nat
  BY ConstantsAssumption
<1>2. CASE kind = AddTokensRecord
  BY <1>2 DEF Safe, AddTokensRecord, Announced
<1>3. CASE kind = AddCollectionItems
  BY <1>1, <1>3 DEF Safe, AddCollectionItems, AddTokensRecord, Announced
<1> QED
  BY <1>2, <1>3 DEF OfItems

(* A step of Collections is a step of LocOperations, or none. *)
LEMMA StepOfOperations == [CollectionsNext]_collectionsVars => [Next]_vars
<1> SUFFICES ASSUME [CollectionsNext]_collectionsVars PROVE [Next]_vars
  OBVIOUS
<1>1. CASE Adds
  BY <1>1 DEF Adds, AddItems, AddRecord, Post, Stop, Cancel, GoOn, Next
<1>2. CASE Reads
  BY <1>2 DEF Reads, GetCollectionItem, GetTokensRecord, GetCollectionItems, GetTokensRecords,
              Ask, Merge, Forget
<1>3. CASE Next \/ UNCHANGED collectionsVars
  BY <1>3 DEF collectionsVars
<1> QED
  BY <1>1, <1>2, <1>3 DEF CollectionsNext

(* Hence a behaviour of Collections is one of LocOperations. *)
THEOREM OperationsOfCollections == CollectionsSpec => Spec
  BY StepOfOperations, PTL DEF CollectionsSpec, CollectionsInit, Spec

-----------------------------------------------------------------------------
(* What the backend, the chain and the attempts know of the contents.      *)
Contents ==
  /\ content \in [Batch -> 0..MaxAttempts] /\ left \in BOOLEAN
  /\ \A i \in Batch : content[i] # 0 <=> i \in claims
  /\ \A a \in Owed : Owed = {a} /\ \A i \in Batch : content[i] = a
  /\ phase = "claiming" => \A i \in 1..(next - 1) : content[i] = attempts
  /\ phase = "submitted" => \A i \in Batch : content[i] = attempts

(* An attempt under way has a number. *)
LEMMA AttemptsAreNumbered ==
  ASSUME IInv
  PROVE  /\ attempts \in 0..MaxAttempts /\ MaxAttempts \in Nat /\ recorded \in 0..MaxAttempts
         /\ phase # "idle" => attempts \in 1..MaxAttempts
  BY AttemptsAreNat DEF IInv, TypeOK, AttemptInv

(* Every addition keeps the contents of what is on chain, or may be.       *)
LEMMA ContentsStep ==
  ASSUME Hypotheses, OfItems, IInv, IInv', Protected, Contents, Adds
  PROVE  Contents'
<1>1. kind.requests \in Nat /\ kind.requests > 0 /\ kind.undoes = kind.requests
  BY ItemKinds DEF Hypotheses
<1>2. kind' = kind /\ Batch' = Batch
  BY StepOfOperations, KindIsConstant DEF Adds, CollectionsNext
<1>3. /\ attempts \in 0..MaxAttempts /\ MaxAttempts \in Nat
      /\ phase # "idle" => attempts \in 1..MaxAttempts
  BY AttemptsAreNumbered
<1>4. /\ Batch = 1..kind.requests /\ next \in 1..(kind.requests + 1)
      /\ claims \subseteq Batch
  BY DEF IInv, TypeOK, Batch
<1>o. UNCHANGED <<recorded, undecided, misled>> => Owed' = Owed
  BY DEF Owed
<1> USE <1>1, <1>2, <1>3, <1>4, <1>o DEF Contents, collection, remote, history
<1>5. CASE AddItems \/ AddRecord
  <2>1. Start /\ UNCHANGED collection
    BY <1>5 DEF AddItems, AddRecord
  <2>2. 1..(1 - 1) = {}
    OBVIOUS
  <2> QED
    BY <2>1, <2>2 DEF Start
<1>6. CASE Post
  <2>1. /\ phase = "claiming" /\ next \in Batch /\ next \notin claims
        /\ claims' = claims \union {next} /\ UNCHANGED <<recorded, undecided, misled, attempts>>
    BY <1>6, ItemKinds DEF Post, Claim, ClaimLost, Announce, Throw, Hypotheses
  <2>2. /\ content' = [content EXCEPT ![next] = attempts]
        /\ UNCHANGED left
    BY <1>6 DEF Post
  <2>3. Owed = {} /\ Owed' = {}
    BY <2>1 DEF Protected
  <2>4. phase' = "idle" \/ (phase' = "claiming" /\ next' = next + 1)
    BY <1>6, <2>1 DEF Post, Claim, ClaimLost, Throw
  <2>5. phase' = "claiming" => \A i \in 1..(next' - 1) : content'[i] = attempts'
    BY <2>1, <2>2, <2>4
  <2> QED
    BY <2>1, <2>2, <2>3, <2>4, <2>5
<1>7. CASE Stop
  BY <1>7 DEF Stop, ClaimRefused, ValidationFails, Throw
<1>8. CASE Cancel
  <2>1. /\ phase = "compensating" /\ phase' \in {"compensating", "idle"}
        /\ claims' \subseteq claims /\ UNCHANGED <<recorded, undecided, misled>>
    BY <1>8, ItemKinds DEF Cancel, Compensate, CompensationFails, Undone, Throw, Hypotheses
  <2>2. Owed = {} /\ Owed' = {}
    BY <2>1 DEF Protected
  <2>3. /\ content' = [i \in Batch |-> IF i \in claims' THEN content[i] ELSE 0]
        /\ UNCHANGED left
    BY <1>8 DEF Cancel
  <2> QED
    BY <2>1, <2>2, <2>3
<1>9. CASE GoOn
  <2>0. UNCHANGED <<content, left>>
    BY <1>9 DEF GoOn
  <2>1. CASE Submit
    <3>1. phase = "claiming" /\ next - 1 = kind.requests
      BY <2>1 DEF Submit
    <3> QED
      BY <2>0, <2>1, <3>1 DEF Submit
  <2>2. CASE Refresh \/ Resolved \/ Rejected \/ Follow \/ FollowFails
    <3>1. UNCHANGED <<claims, recorded, undecided, misled>>
      BY <2>2 DEF Refresh, Resolved, Rejected, Follow, FollowFails
    <3>2. phase' \in {"idle", "following", "compensating"}
      BY <2>2 DEF Refresh, Resolved, Rejected, CatchBlock, Follow, FollowFails, Throw
    <3> QED
      BY <2>0, <3>1, <3>2
  <2>3. CASE RejectedEarly
    <3>1. Owed' = {} /\ UNCHANGED claims /\ phase' \in {"idle", "compensating"}
      BY <2>3 DEF RejectedEarly, CatchBlock, Protected, Owed
    <3> QED
      BY <2>0, <3>1
  <2>4. CASE Decide
    <3>1. /\ phase = "submitted" /\ Owed' \subseteq {attempts}
          /\ UNCHANGED <<phase, next, attempts, claims>>
      BY <2>4 DEF Decide, Owed, Protected, caller
    <3> QED
      BY <2>0, <3>1
  <2>5. CASE DecideOrphan
    <3>1. Owed' \subseteq Owed /\ UNCHANGED <<phase, next, attempts, claims>>
      BY <2>5 DEF DecideOrphan, Owed, chain, caller
    <3>2. \A a \in Owed' : a \in Owed /\ Owed = {a} /\ Owed' = {a}
      BY <3>1
    <3> QED
      BY <2>0, <3>1, <3>2
  <2>6. CASE Crash
    <3>1. /\ phase' = "idle" /\ UNCHANGED <<claims, recorded, misled>>
          /\ undecided' = undecided \/ (phase = "submitted" /\ undecided' = undecided \union {attempts})
      BY <2>6 DEF Crash
    <3>2. CASE undecided' = undecided
      BY <2>0, <3>1, <3>2
    <3>3. CASE phase = "submitted" /\ undecided' = undecided \union {attempts}
      <4>1. Owed' \subseteq {attempts}
        BY <3>1, <3>3 DEF Owed, Protected
      <4> QED
        BY <2>0, <3>1, <3>3, <4>1
    <3> QED
      BY <3>1, <3>2, <3>3
  <2> QED
    BY <1>9, <2>1, <2>2, <2>3, <2>4, <2>5, <2>6 DEF GoOn
<1> QED
  BY <1>5, <1>6, <1>7, <1>8, <1>9 DEF Adds

(* Readers change nothing that contents depend on. *)
LEMMA ReadersOnlyRead ==
  ASSUME Reads \/ UNCHANGED collectionsVars
  PROVE  UNCHANGED <<vars, collection>>
<1>1. CASE Reads
  BY <1>1 DEF Reads, GetCollectionItem, GetTokensRecord, GetCollectionItems, GetTokensRecords,
              Ask, Merge, Forget
<1> QED
  BY <1>1 DEF collectionsVars

LEMMA ContentsUnread ==
  ASSUME Contents, Reads \/ UNCHANGED collectionsVars
  PROVE  Contents'
<1>1. UNCHANGED <<vars, collection>>
  BY ReadersOnlyRead
<1>2. /\ UNCHANGED <<kind, content, recorded, undecided, left, misled>>
      /\ UNCHANGED <<claims, phase, next, attempts>>
  BY <1>1 DEF vars, caller, remote, history, collection
<1>3. Batch' = Batch /\ Owed' = Owed
  BY <1>2 DEF Batch, Owed
<1> QED
  BY <1>2, <1>3 DEF Contents

-----------------------------------------------------------------------------
Readings ==
  [what : {"none", "one", "all"}, at : {"none", "asked", "failed", "shown"},
   item : 0..kind.requests, chain : 0..MaxAttempts, quiet : BOOLEAN,
   answer : [Batch -> 0..MaxAttempts]]

(* What a reader was told of the chain is still so when the backend        *)
(* answers: an item that is on chain stays there.                          *)
ReadingInv ==
  /\ reading \in Readings
  /\ reading.at = "asked" =>
       /\ reading.what \in {"one", "all"}
       /\ reading.what = "one" => reading.item \in Batch /\ reading.chain # 0
       /\ reading.chain # 0 => recorded = reading.chain
  /\ ReadIsConfirmed

(* What the chain has stays what it is. *)
LEMMA RecordedOnce ==
  ASSUME [Next]_vars
  PROVE  /\ recorded # 0 => recorded' = recorded
         /\ misled \subseteq misled'
<1> USE DEF remote, history, chain
<1>1. CASE Decide \/ DecideOrphan
  BY <1>1 DEF Decide, DecideOrphan
<1>2. CASE Refresh \/ Start \/ Submit \/ AcceptOnly \/ Resolved \/ Rejected \/ RejectedEarly
  BY <1>2 DEF Refresh, Start, Submit, AcceptOnly, Resolved, Rejected, RejectedEarly
<1>3. CASE Claim \/ ClaimRefused \/ ClaimLost \/ ValidationFails
  BY <1>3 DEF Claim, ClaimRefused, ClaimLost, ValidationFails, Announce
<1>4. CASE Compensate \/ CompensationFails \/ LateDelete \/ Follow \/ FollowFails \/ Crash
  BY <1>4 DEF Compensate, CompensationFails, LateDelete, Follow, FollowFails, Crash
<1>5. CASE UNCHANGED vars
  BY <1>5 DEF vars
<1> QED
  BY <1>1, <1>2, <1>3, <1>4, <1>5 DEF Next

(* Every step keeps what readers know true. *)
LEMMA ReadingStep ==
  ASSUME Hypotheses, OfItems, IInv, Contents, Contents', ReadingInv,
         [CollectionsNext]_collectionsVars
  PROVE  ReadingInv'
<1>1. kind' = kind /\ Batch' = Batch /\ Readings' = Readings
  BY StepOfOperations, KindIsConstant DEF Readings
<1>2. Batch = 1..kind.requests /\ 1 \in Batch /\ kind.requests \in Nat
  BY ItemKinds DEF Batch, Hypotheses
<1> USE <1>1, <1>2
<1>3. CASE Adds
  <2> DEFINE quiet == reading.quiet /\ phase' = "idle"
  <2>1. reading' = [reading EXCEPT !.quiet = quiet] /\ quiet \in BOOLEAN
    BY <1>3 DEF Adds, ReadingInv, Readings
  <2> HIDE DEF quiet
  <2>2. /\ reading' \in Readings
        /\ reading'.what = reading.what /\ reading'.at = reading.at /\ reading'.item = reading.item
        /\ reading'.chain = reading.chain /\ reading'.answer = reading.answer
    BY <2>1 DEF ReadingInv, Readings
  <2>3. (recorded # 0 => recorded' = recorded) /\ misled \subseteq misled'
    BY StepOfOperations, RecordedOnce
  <2>4. ReadIsConfirmed'
    BY <2>2, <2>3 DEF ReadingInv, ReadIsConfirmed, Wanted
  <2> QED
    BY <2>2, <2>3, <2>4 DEF ReadingInv
<1>4. CASE Reads
  <2>1. UNCHANGED <<recorded, content, misled>> /\ recorded \in 0..MaxAttempts
    BY <1>4, ReadersOnlyRead, AttemptsAreNumbered DEF collection, vars, remote, history
  <2>2. ASSUME NEW what \in {"one", "all"}, NEW i \in 0..kind.requests, Ask(what, i),
               what = "one" => i \in Batch /\ recorded # 0
        PROVE  ReadingInv'
    <3> DEFINE quiet == (phase = "idle")
               nothing == [j \in Batch |-> 0]
    <3>1. reading' = [what |-> what, at |-> "asked", item |-> i, chain |-> recorded,
                      quiet |-> quiet, answer |-> nothing]
      BY <2>2 DEF Ask, NoReading
    <3>2. quiet \in BOOLEAN /\ nothing \in [Batch -> 0..MaxAttempts]
      BY AttemptsAreNat
    <3> HIDE DEF quiet, nothing
    <3>3. reading' \in Readings
      BY <2>1, <3>1, <3>2 DEF Readings
    <3> QED
      BY <2>1, <2>2, <3>1, <3>3 DEF ReadingInv, ReadIsConfirmed
  <2>3. CASE Merge
    <3>1. /\ reading.at = "asked"
          /\ reading' = [reading EXCEPT !.at = IF NotFound \/ NotMerged THEN "failed" ELSE "shown",
                                        !.answer = content]
      BY <2>3 DEF Merge
    <3>2. /\ reading' \in Readings /\ reading'.answer = content
          /\ reading'.at = (IF NotFound \/ NotMerged THEN "failed" ELSE "shown")
          /\ reading'.what = reading.what /\ reading'.item = reading.item
          /\ reading'.chain = reading.chain
      BY <3>1 DEF ReadingInv, Readings, Contents
    <3>3. reading.chain \notin misled \union {0} => \A i \in Batch : content[i] = reading.chain
      BY <3>1 DEF ReadingInv, Contents, Owed
    <3>4. NotFound => reading.chain \in misled
      BY <3>1, <3>3 DEF NotFound, ReadingInv
    <3>5. NotMerged => reading.what = "all" /\ reading.chain = 0
      BY DEF NotMerged
    <3>6. ReadIsConfirmed'
      BY <2>1, <3>1, <3>2, <3>3, <3>4, <3>5 DEF ReadIsConfirmed, Wanted, ReadingInv
    <3> QED
      BY <2>1, <3>1, <3>2, <3>6 DEF ReadingInv
  <2>4. CASE Forget
    <3>1. reading' = NoReading
      BY <2>4 DEF Forget
    <3> DEFINE nothing == [j \in Batch |-> 0]
    <3>2. nothing \in [Batch -> 0..MaxAttempts] /\ 0 \in 0..MaxAttempts
      BY AttemptsAreNat
    <3>3. reading' = [what |-> "none", at |-> "none", item |-> 0, chain |-> 0, quiet |-> TRUE,
                      answer |-> nothing]
      BY <3>1 DEF NoReading
    <3> HIDE DEF nothing
    <3> QED
      BY <3>2, <3>3 DEF ReadingInv, Readings, ReadIsConfirmed
  <2>5. CASE GetCollectionItems \/ GetTokensRecords
    BY <2>2, <2>5 DEF GetCollectionItems, GetTokensRecords
  <2>6. CASE \E i \in Batch : GetCollectionItem(i) \/ GetTokensRecord(i)
    <3>1. PICK i \in Batch : GetCollectionItem(i) \/ GetTokensRecord(i)
      BY <2>6
    <3> QED
      BY <2>2, <3>1 DEF GetCollectionItem, GetTokensRecord
  <2> QED
    BY <1>4, <2>3, <2>4, <2>5, <2>6 DEF Reads
<1>5. CASE UNCHANGED collectionsVars
  BY <1>5 DEF collectionsVars, collection, vars, remote, history, ReadingInv, ReadIsConfirmed, Wanted
<1> QED
  BY <1>3, <1>4, <1>5 DEF CollectionsNext

(* Without items to add, nothing is kept and nobody reads.                 *)
Unused ==
  /\ content = [i \in Batch |-> 0] /\ left = FALSE
  /\ reading = NoReading

(* A record of the initial reading, field by field. *)
LEMMA NoReadingIsTyped ==
  ASSUME kind.requests \in Nat
  PROVE  /\ NoReading \in Readings /\ NoReading.at = "none" /\ 0 \in 0..MaxAttempts
         /\ [i \in Batch |-> 0] \in [Batch -> 0..MaxAttempts]
<1> DEFINE nothing == [j \in Batch |-> 0]
<1>1. nothing \in [Batch -> 0..MaxAttempts] /\ 0 \in 0..MaxAttempts
  BY AttemptsAreNat
<1>2. NoReading = [what |-> "none", at |-> "none", item |-> 0, chain |-> 0, quiet |-> TRUE,
                   answer |-> nothing]
  BY DEF NoReading
<1> HIDE DEF nothing
<1>3. NoReading \in Readings /\ NoReading.at = "none"
  BY <1>1, <1>2 DEF Readings
<1> QED
  BY <1>1, <1>3 DEF nothing

(* What is kept and read, for each kind of operation. *)
Kept == IF OfItems THEN Contents /\ ReadingInv ELSE Unused

LEMMA KeptInitially ==
  ASSUME Hypotheses, CollectionsInit
  PROVE  Kept
<1>1. OfItems => kind.requests \in Nat
  BY ItemKinds DEF Hypotheses
<1>2. CASE OfItems
  <2>1. NoReading \in Readings /\ NoReading.at = "none" /\ 0 \in 0..MaxAttempts
    BY <1>1, <1>2, NoReadingIsTyped
  <2>2. Contents
    BY <2>1 DEF CollectionsInit, Init, Contents, Owed
  <2>3. ReadingInv
    BY <2>1 DEF CollectionsInit, ReadingInv, ReadIsConfirmed
  <2> QED
    BY <1>2, <2>2, <2>3 DEF Kept
<1>3. CASE ~OfItems
  BY <1>3 DEF CollectionsInit, Kept, Unused
<1> QED
  BY <1>2, <1>3

LEMMA KeptStep ==
  ASSUME Hypotheses, IInv, IInv', Safe => Protected, Kept, [CollectionsNext]_collectionsVars
  PROVE  Kept'
<1>1. OfItems' = OfItems /\ Batch' = Batch
  BY StepOfOperations, KindIsConstant DEF OfItems
<1>2. CASE OfItems
  <2>1. Protected
    BY <1>2, ItemKinds DEF Hypotheses
  <2>2. Contents /\ ReadingInv
    BY <1>2 DEF Kept
  <2>3. Adds => Contents'
    BY <1>2, <2>1, <2>2, ContentsStep
  <2>4. Reads \/ UNCHANGED collectionsVars => Contents'
    BY <1>2, <2>2, ContentsUnread
  <2>5. Contents'
    BY <1>2, <2>3, <2>4 DEF CollectionsNext
  <2>6. ReadingInv'
    BY <1>2, <2>2, <2>5, ReadingStep
  <2> QED
    BY <1>1, <1>2, <2>5, <2>6 DEF Kept
<1>3. CASE ~OfItems
  <2>1. UNCHANGED <<collection, reading>>
    BY <1>3 DEF CollectionsNext, collectionsVars
  <2>2. NoReading' = NoReading
    BY <1>1 DEF NoReading
  <2> QED
    BY <1>1, <1>3, <2>1, <2>2 DEF Kept, Unused, collection
<1> QED
  BY <1>2, <1>3

(* The invariant of what is kept and read. *)
THEOREM KeptIsInvariant ==
  ASSUME Hypotheses
  PROVE  CollectionsSpec => [](IInv /\ (Safe => Protected) /\ Kept)
<1> DEFINE K == Safe => Protected
<1>1. CollectionsSpec => []IInv /\ []K
  BY OperationsOfCollections, Invariance, ClaimsAreProtected, PTL DEF Hypotheses
<1>2. CollectionsInit => Kept
  BY KeptInitially
<1>3. IInv /\ IInv' /\ K /\ Kept /\ [CollectionsNext]_collectionsVars => Kept'
  BY KeptStep
<1> QED
  BY <1>1, <1>2, <1>3, PTL DEF CollectionsSpec

(* Every variable keeps its type. *)
THEOREM CollectionsTypeCorrect ==
  ASSUME Hypotheses
  PROVE  CollectionsSpec => []CollectionsTypeOK
<1>1. IInv /\ Kept => CollectionsTypeOK
  <2> SUFFICES ASSUME IInv, Kept PROVE CollectionsTypeOK
    OBVIOUS
  <2>1. kind.requests \in Nat /\ TypeOK
    BY KindIsProgram DEF IInv, TypeOK
  <2>2. NoReading \in Readings /\ 0 \in 0..MaxAttempts
        /\ [i \in Batch |-> 0] \in [Batch -> 0..MaxAttempts]
    BY <2>1, NoReadingIsTyped
  <2>3. /\ content \in [Batch -> 0..MaxAttempts] /\ left \in BOOLEAN /\ reading \in Readings
    BY <2>2 DEF Kept, Unused, Contents, ReadingInv
  <2> QED
    BY <2>1, <2>3 DEF CollectionsTypeOK, Readings
<1> QED
  BY <1>1, KeptIsInvariant, PTL

(* What the chain has can be read: the backend has it and serves what the  *)
(* hashes confirm, for any batch, any number of attempts, whatever is      *)
(* interrupted, lost or tried again with other contents, unless signAndSend*)
(* told that attempt that it failed.                                       *)
THEOREM ReadsAreConfirmed ==
  ASSUME Hypotheses
  PROVE  CollectionsSpec => []ReadIsConfirmed
<1>1. IInv /\ Kept => ReadIsConfirmed
  <2> SUFFICES ASSUME IInv, Kept PROVE ReadIsConfirmed
    OBVIOUS
  <2>1. NoReading.at = "none"
    BY NoReadingIsTyped, KindIsProgram DEF IInv, TypeOK
  <2> QED
    BY <2>1 DEF Kept, Unused, ReadingInv, ReadIsConfirmed
<1> QED
  BY <1>1, KeptIsInvariant, PTL

-----------------------------------------------------------------------------
(* Nothing was lost and no call stopped half-way. *)
Smooth == ~faults /\ ~left

(* Then what is announced is what is on chain, or what the loops of the    *)
(* call under way have announced or have still to undo.                    *)
Orderly ==
  /\ undecided \subseteq misled
  /\ phase = "idle" => claims = IF TookEffect THEN Batch ELSE {}
  /\ phase = "claiming" => \/ TookEffect /\ claims = Batch /\ next = 1
                           \/ ~TookEffect /\ claims = 1..(next - 1)
  /\ phase = "compensating" => ~TookEffect /\ claims = next..kind.requests

(* A listing that overlaps no call reads the chain and the backend as they *)
(* are between two calls.                                                  *)
Overlooked ==
  reading.at = "asked" /\ reading.quiet =>
    /\ phase = "idle"
    /\ reading.chain = 0 => ~TookEffect

ListingInv == ListingWorks /\ (Smooth => Orderly /\ Overlooked)

LEMMA OrderlyStep ==
  ASSUME Hypotheses, OfItems, IInv, Protected, Adds, Smooth, Smooth', Orderly
  PROVE  Orderly'
<1>1. /\ ~kind.guarded /\ ~kind.fresh /\ kind.awaited /\ kind.cancels /\ kind.follows
      /\ kind.submits /\ kind.requests \in Nat /\ kind.requests > 0 /\ kind.undoes = kind.requests
  BY ItemKinds DEF Hypotheses
<1>2. kind' = kind /\ Batch' = Batch
  BY StepOfOperations, KindIsConstant DEF Adds, CollectionsNext
<1>3. /\ Batch = 1..kind.requests /\ next \in 1..(kind.requests + 1)
      /\ claims \subseteq Batch /\ undecided \subseteq misled
      /\ phase = "compensating" => next <= kind.undoes
  BY DEF IInv, TypeOK, AttemptInv, Batch, Orderly
<1>t. UNCHANGED <<recorded, misled>> => TookEffect' = TookEffect
  BY DEF TookEffect, chain
<1> USE <1>1, <1>2, <1>3, <1>t DEF Orderly, remote, history
<1>4. CASE AddItems \/ AddRecord
  <2>1. /\ phase = "idle" /\ phase' = "claiming" /\ next' = 1
        /\ UNCHANGED <<claims, recorded, misled, undecided>>
    BY <1>4 DEF AddItems, AddRecord, Start
  <2>2. 1..(next' - 1) = {}
    BY <2>1
  <2>3. claims' = IF TookEffect' THEN Batch ELSE {}
    BY <2>1
  <2> QED
    BY <2>1, <2>2, <2>3
<1>5. CASE Post
  <2>1. Claim
    BY <1>5 DEF Post, ClaimLost, Smooth
  <2>2. /\ phase = "claiming" /\ phase' = phase /\ next \in Batch /\ next \notin claims
        /\ claims' = claims \union {next} /\ next' = next + 1
        /\ UNCHANGED <<recorded, misled, undecided>>
    BY <2>1 DEF Claim, Announce, Hypotheses
  <2>3. ~TookEffect /\ claims' = 1..next
    BY <2>2
  <2> QED
    BY <2>2, <2>3
<1>6. CASE Stop
  <2>1. /\ phase = "claiming" /\ phase' = "idle" /\ UNCHANGED <<claims, recorded, misled, undecided>>
    BY <1>6 DEF Stop, ClaimRefused, ValidationFails, Throw
  <2>2. ~(next > 1)
    BY <1>6, Zenon DEF Stop, Smooth
  <2>3. next = 1 /\ 1..(next - 1) = {}
    BY <2>2
  <2>4. claims' = IF TookEffect' THEN Batch ELSE {}
    BY <2>1, <2>3
  <2> QED
    BY <2>1, <2>4
<1>7. CASE Cancel
  <2>1. Compensate
    BY <1>7 DEF Cancel, CompensationFails, Smooth
  <2>2. /\ phase = "compensating" /\ claims' = claims \ {next} /\ next' = next + 1
        /\ phase' = (IF next < kind.undoes THEN phase ELSE "idle")
        /\ UNCHANGED <<recorded, misled, undecided>>
    BY <2>1 DEF Compensate, Undone
  <2>3. ~TookEffect /\ claims' = next'..kind.requests
    BY <2>2
  <2>4. phase' = "idle" => claims' = {}
    BY <2>2, <2>3
  <2> QED
    BY <2>2, <2>3, <2>4
<1>8. CASE GoOn
  <2>1. CASE Refresh \/ Submit \/ Resolved
    <3>1. /\ UNCHANGED <<claims, recorded, misled, undecided, next>>
          /\ phase' \in {"submitted", "following"} \/ phase' = phase
      BY <2>1 DEF Refresh, Submit, Resolved
    <3> QED
      BY <3>1
  <2>2. CASE Rejected \/ RejectedEarly
    <3>1. /\ phase = "submitted" /\ phase' = "compensating" /\ next' = 1
          /\ UNCHANGED <<claims, recorded>>
      BY <2>2 DEF Rejected, RejectedEarly, CatchBlock
    <3>2. claims = 1..kind.requests /\ Owed \subseteq {attempts}
      BY <3>1 DEF Protected
    <3>3. undecided' \subseteq misled'
      BY <2>2 DEF Rejected, RejectedEarly
    <3>4. CASE Rejected
      <4>1. recorded # attempts /\ UNCHANGED misled
        BY <3>4 DEF Rejected, Extrinsic!Reject, Extrinsic!Refuse, IInv, AttemptInv
      <4>2. ~TookEffect
        BY <3>2, <4>1 DEF TookEffect, chain, Owed
      <4> QED
        BY <3>1, <3>2, <3>3, <4>1, <4>2
    <3>5. CASE RejectedEarly
      <4>1. misled' = misled \union {attempts}
        BY <3>5 DEF RejectedEarly
      <4>2. ~TookEffect'
        BY <3>1, <3>2, <4>1 DEF TookEffect, chain, Owed
      <4> QED
        BY <3>1, <3>2, <3>3, <4>2
    <3> QED
      BY <2>2, <3>4, <3>5
  <2>3. CASE Follow
    <3>1. TookEffect
      BY <2>3 DEF Follow, IInv, TypeOK, AttemptInv, TookEffect, chain
    <3>2. claims = Batch
      BY <3>1 DEF Protected, TookEffect, chain, Owed
    <3> QED
      BY <2>3, <3>1, <3>2 DEF Follow
  <2>4. CASE FollowFails \/ Crash
    BY <2>4 DEF FollowFails, Crash, Smooth
  <2>5. CASE Decide
    BY <2>5 DEF Decide, caller
  <2>6. CASE DecideOrphan
    <3>1. TookEffect' = TookEffect /\ undecided' \subseteq misled'
      BY <2>6 DEF DecideOrphan, TookEffect, chain
    <3> QED
      BY <2>6, <3>1 DEF DecideOrphan, caller
  <2> QED
    BY <1>8, <2>1, <2>2, <2>3, <2>4, <2>5, <2>6 DEF GoOn
<1> QED
  BY <1>4, <1>5, <1>6, <1>7, <1>8 DEF Adds

(* What went wrong once is not forgotten. *)
LEMMA SmoothBefore ==
  ASSUME OfItems, Adds, Smooth', left \in BOOLEAN, faults \in BOOLEAN
  PROVE  Smooth
<1>1. faults => faults'
  BY StepOfOperations, FaultsRemain DEF CollectionsNext
<1>2. left => left'
  BY DEF Adds, AddItems, AddRecord, Post, Stop, Cancel, GoOn, collection
<1> QED
  BY <1>1, <1>2 DEF Smooth

(* Every addition keeps what a listing meets. *)
LEMMA ListingUnderAdds ==
  ASSUME Hypotheses, OfItems, IInv, Protected, Contents, ReadingInv, ListingInv, Adds
  PROVE  ListingInv'
<1> DEFINE quiet == reading.quiet /\ phase' = "idle"
<1>1. reading' = [reading EXCEPT !.quiet = quiet]
  BY DEF Adds
<1> HIDE DEF quiet
<1>2. /\ reading'.at = reading.at /\ reading'.chain = reading.chain /\ reading'.quiet = quiet
      /\ reading'.what = reading.what
  BY <1>1 DEF ReadingInv, Readings
<1>3. Smooth' => Smooth
  BY SmoothBefore DEF Contents, IInv, TypeOK
<1>4. ListingWorks'
  BY <1>2, <1>3 DEF ListingInv, ListingWorks, Smooth, quiet
<1>5. ASSUME Smooth' PROVE Orderly' /\ Overlooked'
  <2>1. Smooth /\ Orderly /\ Overlooked
    BY <1>3, <1>5 DEF ListingInv
  <2>2. Orderly'
    BY <1>5, <2>1, OrderlyStep
  <2>3. ASSUME reading'.at = "asked", reading'.quiet
        PROVE  phase' = "idle" /\ (reading'.chain = 0 => ~TookEffect')
    <3>1. phase = "idle" /\ phase' = "idle" /\ (reading.chain = 0 => ~TookEffect)
      BY <1>2, <2>1, <2>3 DEF Overlooked, quiet
    <3>2. CASE DecideOrphan
      BY <1>2, <2>1, <3>1, <3>2 DEF DecideOrphan, TookEffect, chain, Orderly, history
    <3>3. CASE ~DecideOrphan
      <4>1. Refresh
        BY <3>1, <3>3 DEF Adds, AddItems, AddRecord, Post, Stop, Cancel, GoOn, Start, Claim, ClaimLost,
             Announce, ClaimRefused, ValidationFails, Compensate, CompensationFails, Submit, Decide,
             Resolved, Rejected, RejectedEarly, Follow, FollowFails, Crash
      <4> QED
        BY <1>2, <3>1, <4>1 DEF Refresh, TookEffect, chain, remote, history
    <3> QED
      BY <3>2, <3>3
  <2> QED
    BY <2>2, <2>3 DEF Overlooked
<1> QED
  BY <1>4, <1>5 DEF ListingInv

(* And so does every reader, who fails only where the chain and the        *)
(* backend differ.                                                         *)
LEMMA ListingUnderReads ==
  ASSUME Hypotheses, OfItems, IInv, Contents, ReadingInv, ListingInv,
         Reads \/ UNCHANGED collectionsVars
  PROVE  ListingInv'
<1>1. UNCHANGED <<kind, claims, undecided, misled, phase, next, faults, left, recorded, content>>
  BY ReadersOnlyRead DEF vars, caller, remote, history, collection
<1>t. TookEffect' = TookEffect
  BY <1>1 DEF TookEffect, chain
<1>2. (Smooth' <=> Smooth) /\ (Orderly' <=> Orderly)
  BY <1>1, <1>t DEF Smooth, Orderly, Batch
<1>3. SUFFICES ListingWorks' /\ (Smooth => Overlooked')
  BY <1>2 DEF ListingInv
<1>4. ASSUME NEW what, NEW i, Ask(what, i)
      PROVE  reading'.at = "asked" /\ reading'.quiet = (phase = "idle") /\ reading'.chain = recorded
  <2> DEFINE quiet == (phase = "idle")
             nothing == [j \in Batch |-> 0]
  <2>1. reading' = [what |-> what, at |-> "asked", item |-> i, chain |-> recorded,
                    quiet |-> quiet, answer |-> nothing]
    BY <1>4 DEF Ask, NoReading
  <2> HIDE DEF quiet, nothing
  <2>2. reading'.at = "asked" /\ reading'.quiet = quiet /\ reading'.chain = recorded
    BY <2>1
  <2> QED
    BY <2>2 DEF quiet
<1>5. CASE \/ GetCollectionItems \/ GetTokensRecords
           \/ \E i \in Batch : GetCollectionItem(i) \/ GetTokensRecord(i)
  <2>1. PICK what, i : Ask(what, i)
    BY <1>5 DEF GetCollectionItems, GetTokensRecords, GetCollectionItem, GetTokensRecord
  <2> QED
    BY <1>1, <1>t, <1>4, <2>1 DEF ListingWorks, Overlooked, TookEffect, chain
<1>6. CASE Merge
  <2>1. /\ reading.at = "asked"
        /\ reading' = [reading EXCEPT !.at = IF NotFound \/ NotMerged THEN "failed" ELSE "shown",
                                      !.answer = content]
    BY <1>6 DEF Merge
  <2>2. /\ reading'.at = (IF NotFound \/ NotMerged THEN "failed" ELSE "shown")
        /\ reading'.quiet = reading.quiet /\ reading'.what = reading.what
    BY <2>1 DEF ReadingInv, Readings
  <2>3. reading.what = "all" => ~NotFound
    BY DEF NotFound
  <2>4. ASSUME reading.quiet, Smooth PROVE ~NotMerged
    <3>1. phase = "idle" /\ (reading.chain = 0 => ~TookEffect)
      BY <2>1, <2>4 DEF ListingInv, Overlooked
    <3>2. reading.chain = 0 => claims = {}
      BY <2>4, <3>1 DEF ListingInv, Orderly
    <3>3. reading.chain = 0 => \A i \in Batch : content[i] = 0
      BY <3>2 DEF Contents
    <3> QED
      BY <3>3 DEF NotMerged
  <2> QED
    BY <1>1, <2>2, <2>3, <2>4 DEF ListingWorks, Overlooked, Smooth, IInv, TypeOK, Contents
<1>7. CASE Forget
  <2>1. reading' = NoReading
    BY <1>7 DEF Forget
  <2>2. NoReading.at = "none"
    BY DEF NoReading
  <2> QED
    BY <2>1, <2>2 DEF ListingWorks, Overlooked
<1>8. CASE UNCHANGED collectionsVars
  BY <1>1, <1>t, <1>8 DEF collectionsVars, ListingInv, ListingWorks, Overlooked
<1> QED
  BY <1>5, <1>6, <1>7, <1>8 DEF Reads

(* A listing fails only if it overlaps an addition, or once something was  *)
(* lost, a client went away or a batch stopped half-way: for any batch and *)
(* any number of attempts.                                                 *)
THEOREM ListingsWork ==
  ASSUME Hypotheses
  PROVE  CollectionsSpec => []ListingWorks
<1> DEFINE K == IInv /\ (Safe => Protected) /\ Kept
           L == IF OfItems THEN ListingInv ELSE ListingWorks
<1>1. CollectionsInit => L
  <2> SUFFICES ASSUME CollectionsInit PROVE L
    OBVIOUS
  <2>1. reading.at = "none"
    BY DEF CollectionsInit, NoReading
  <2>2. undecided = {} /\ phase = "idle" /\ claims = {} /\ ~TookEffect
    BY DEF CollectionsInit, Init, TookEffect, chain
  <2> QED
    BY <2>1, <2>2 DEF ListingInv, ListingWorks, Orderly, Overlooked
<1>2. K /\ K' /\ L /\ [CollectionsNext]_collectionsVars => L'
  <2> SUFFICES ASSUME K, L, [CollectionsNext]_collectionsVars PROVE L'
    OBVIOUS
  <2>1. OfItems' = OfItems
    BY StepOfOperations, KindIsConstant DEF OfItems
  <2>2. CASE OfItems
    <3>1. Protected /\ Contents /\ ReadingInv /\ ListingInv /\ IInv
      BY <2>2, ItemKinds DEF Hypotheses, Kept
    <3>2. Adds => ListingInv'
      BY <2>2, <3>1, ListingUnderAdds
    <3>3. Reads \/ UNCHANGED collectionsVars => ListingInv'
      BY <2>2, <3>1, ListingUnderReads
    <3> QED
      BY <2>1, <2>2, <3>2, <3>3 DEF CollectionsNext
  <2>3. CASE ~OfItems
    <3>1. reading = NoReading
      BY <2>3 DEF Kept, Unused
    <3>2. UNCHANGED reading
      BY <2>3 DEF CollectionsNext, collectionsVars
    <3>3. NoReading.at = "none"
      BY DEF NoReading
    <3> QED
      BY <2>1, <2>3, <3>1, <3>2, <3>3 DEF ListingWorks
  <2> QED
    BY <2>2, <2>3
<1>3. L => ListingWorks
  BY DEF ListingInv
<1> QED
  BY <1>1, <1>2, <1>3, KeptIsInvariant, PTL DEF CollectionsSpec
=============================================================================
