--------------------------- MODULE RecoveryProofs ----------------------------
(***************************************************************************)
(* Proofs about Recovery: its type invariant, and that an object of a      *)
(* class that lets the user go on is true to the facts; then, unless       *)
(* something failed, that the class of the object is the one the facts     *)
(* give, that no order of steps leads to UnavailableProtection, and that   *)
(* waitForFullyReady tells the truth.                                      *)
(***************************************************************************)
EXTENDS Recovery, TLAPS

(* Why ProgressIsReal is not inductive: the facts are read or changed      *)
(* before the object is replaced.  What the user's operation has read is   *)
(* still so when it ends, since only the user cancels; what its extrinsic  *)
(* did is on chain before the object says it; and the user cancels from a  *)
(* RejectedRecovery only.                                                  *)
InFlight ==
  LET user == task["user"] IN
  /\ user.at \in {"fetch", "proxy"} =>
       \A o \in Officers : user.read[o] \in Accepted => request[o] \in Accepted
  /\ user.at = "proxy" /\ user.config => chain.config
  /\ user.at = "proxy" => Having(user.read, {"unread"}) = {}
  /\ user.at = "submit" =>
       /\ user.goal \in {"initiated", "ActiveProtection", "PendingRecovery", "ClaimedRecovery"}
       /\ user.goal = "ClaimedRecovery" => chain.config
       /\ effect = "applied" =>
            /\ user.goal \in {"ActiveProtection", "PendingRecovery"} => chain.config
            /\ user.goal = "ClaimedRecovery" => chain.claimed
  /\ user.at = "proxy" => user.goal \in {"NoProtection", "PendingProtection", "reload"}
  /\ user.at = "fetch" => user.goal \in {"NoProtection", "PendingProtection", "reload", "accepted"}
  /\ user.at = "cancel" =>
       object.class = "RejectedRecovery" /\ user.goal = "NoProtection" /\ user.read = Unread

(* Ticks only fetch. *)
TicksFetch == \A t \in Ticks : task[t].at \in {"idle", "fetch"}

IInv == TypeOK /\ ProgressIsReal /\ InFlight /\ TicksFetch

-----------------------------------------------------------------------------
(* What getInitialState may answer, and what it read to answer it. *)
LEMMA ClassRead ==
  ASSUME NEW read \in [Officers -> Statuses \union {"unread"}],
         NEW config \in BOOLEAN, NEW claimed \in BOOLEAN
  PROVE  LET class == InitialClass(read, config, claimed) IN
         /\ class \in Classes \union {"error"}
         /\ class = "AcceptedProtection" => Having(read, Accepted) = Officers
         /\ class \in {"ActiveProtection", "PendingRecovery", "ClaimedRecovery"} => config
         /\ class = "ClaimedRecovery" => claimed
  BY DEF InitialClass, Classes

(* A task that does nothing is a task. *)
LEMMA IdleType == Idle \in Task
  BY DEF Idle, Task, Unread, Officers

(* Tasks that lost their object are tasks. *)
LEMMA SupersededType ==
  ASSUME NEW tasks \in [Tasks -> Task]
  PROVE  Superseded(tasks) \in [Tasks -> Task]
<1> SUFFICES ASSUME NEW t \in Tasks PROVE Superseded(tasks)[t] \in Task
  BY DEF Superseded
<1>1. None \in [Officers -> Statuses \union {"unread"}]
  BY DEF None, Statuses
<1>2. /\ [tasks[t] EXCEPT !.live = FALSE, !.read = None] \in Task
      /\ [tasks[t] EXCEPT !.live = FALSE] \in Task
  BY <1>1 DEF Task
<1> QED BY <1>2, IdleType DEF Superseded

(* So are those of a wait that settled. *)
LEMMA SettledType ==
  ASSUME NEW tasks \in [Tasks -> Task], NEW how \in {"resolved", "rejected"}
  PROVE  Settled(tasks, how) \in [Tasks -> Task]
<1> SUFFICES ASSUME NEW t \in Tasks PROVE Settled(tasks, how)[t] \in Task
  BY DEF Settled
<1>1. [Idle EXCEPT !.goal = how] \in Task /\ [tasks[t] EXCEPT !.goal = "stray"] \in Task
  BY IdleType DEF Task
<1> QED BY <1>1, IdleType DEF Settled

(* The end of a transition: the tasks keep their type, the object its own  *)
(* unless it was replaced.                                                 *)
LEMMA SucceedType ==
  ASSUME TypeOK, NEW t \in Tasks, NEW class \in Classes,
         NEW requests \in [Officers -> Statuses], Succeed(t, class, requests)
  PROVE  /\ object' \in [class : Classes, requests : [Officers -> Statuses]]
         /\ task' \in [Tasks -> Task]
         /\ faults' \in BOOLEAN
<1>1. [task EXCEPT ![t] = Idle] \in [Tasks -> Task]
  BY IdleType DEF TypeOK
<1>2. Superseded([task EXCEPT ![t] = Idle]) \in [Tasks -> Task]
  BY <1>1, SupersededType
<1>3. [class |-> class, requests |-> requests] \in [class : Classes, requests : [Officers -> Statuses]]
  OBVIOUS
<1>4. object \in [class : Classes, requests : [Officers -> Statuses]] /\ faults \in BOOLEAN
  BY DEF TypeOK
<1>5. CASE task[t].live
  BY <1>2, <1>3, <1>4, <1>5 DEF Succeed
<1>6. CASE ~task[t].live
  BY <1>1, <1>4, <1>6 DEF Succeed, Throw
<1> QED BY <1>5, <1>6

(* The beginning of an operation or a tick. *)
LEMMA GoType ==
  ASSUME TypeOK, NEW t \in Tasks,
         NEW at \in {"fetch", "proxy", "submit", "request", "cancel", "wait"},
         NEW goal \in Classes \union {"none", "reload", "accepted", "initiated", "poll"},
         Go(t, at, goal)
  PROVE  task' \in [Tasks -> Task]
<1>1. [Idle EXCEPT !.at = at, !.goal = goal, !.live = TRUE] \in Task
  BY IdleType DEF Task
<1> QED BY <1>1 DEF Go, TypeOK

(* The end of an operation that fails. *)
LEMMA ThrowType ==
  ASSUME TypeOK, NEW t \in Tasks, Throw(t)
  PROVE  task' \in [Tasks -> Task]
BY IdleType DEF Throw, TypeOK

(* What nodes answer is what TypeOK says of task.read. *)
LEMMA AllReadType ==
  ASSUME TypeOK, NEW t \in Tasks, Having(task[t].read, {"unread"}) = {}
  PROVE  task[t].read \in [Officers -> Statuses]
BY DEF TypeOK, Task, Having

(* Once the object of a tick or of the user was replaced. *)
LEMMA AfterType ==
  ASSUME TypeOK, NEW t \in Tasks, NEW how \in {"resolved", "rejected"}
  PROVE  LET after == Superseded([task EXCEPT ![t] = Idle]) IN
         /\ after \in [Tasks -> Task]
         /\ Settled(after, how) \in [Tasks -> Task]
         /\ Settled([task EXCEPT ![t] = Idle], how) \in [Tasks -> Task]
<1>1. [task EXCEPT ![t] = Idle] \in [Tasks -> Task]
  BY IdleType DEF TypeOK
<1>2. Superseded([task EXCEPT ![t] = Idle]) \in [Tasks -> Task]
  BY <1>1, SupersededType
<1>3. Settled(Superseded([task EXCEPT ![t] = Idle]), how) \in [Tasks -> Task]
  BY <1>2, SettledType
<1>4. Settled([task EXCEPT ![t] = Idle], how) \in [Tasks -> Task]
  BY <1>1, SettledType
<1> QED BY <1>2, <1>3, <1>4

(* A node answers, or not. *)
LEMMA ReadType ==
  ASSUME TypeOK, NEW t \in Tasks, NEW o \in Officers, NEW status \in Statuses
  PROVE  [task EXCEPT ![t].read[o] = status] \in [Tasks -> Task]
<1> DEFINE read == [task[t].read EXCEPT ![o] = status]
<1>1. task \in [Tasks -> Task] /\ task[t] \in Task
  BY DEF TypeOK
<1>2. read \in [Officers -> Statuses \union {"unread"}]
  BY <1>1 DEF Task
<1> HIDE DEF read
<1>3. [task[t] EXCEPT !.read = read] \in Task
  BY <1>1, <1>2 DEF Task
<1>4. [task EXCEPT ![t] = [task[t] EXCEPT !.read = read]] \in [Tasks -> Task]
  BY <1>1, <1>3
<1>5. [task EXCEPT ![t].read[o] = status] = [task EXCEPT ![t] = [task[t] EXCEPT !.read = read]]
  BY <1>1 DEF read
<1> QED BY <1>4, <1>5

(* The initial state is well typed. *)
LEMMA TypeInit == Init => TypeOK
<1> SUFFICES ASSUME Init PROVE TypeOK
  OBVIOUS
<1>1. task \in [Tasks -> Task]
  BY IdleType DEF Init
<1>2. None \in [Officers -> Statuses]
  BY DEF None, Statuses
<1>3. 0 \in 0..(MaxRetries - 1)
  BY ConstantsAssumption
<1> QED BY <1>1, <1>2, <1>3 DEF Init, TypeOK, Classes

(* Every step keeps the types, of what is in flight too: an extrinsic is   *)
(* only submitted for a class or for initiateRecovery.                     *)
LEMMA TypeStep == TypeOK /\ InFlight /\ [Next]_vars => TypeOK'
<1> SUFFICES ASSUME TypeOK, InFlight, [Next]_vars PROVE TypeOK'
  OBVIOUS
<1>u. "user" \in Tasks /\ \A t \in Ticks : t \in Tasks
  BY DEF Tasks
<1>0. CASE UNCHANGED vars
  BY <1>0 DEF vars, remote, TypeOK
<1>1. ASSUME NEW o \in Officers, OfficerDecides(o) \/ BackendActivates(o) PROVE TypeOK'
  BY <1>1 DEF OfficerDecides, BackendActivates, UnchangedClient, TypeOK, Statuses
<1>2. CASE UpdateNetworkState
  BY <1>2 DEF UpdateNetworkState, remote, TypeOK
<1>3. CASE Refresh
  <2>1. object.class \in Classes
    BY DEF TypeOK
  <2>2. task' \in [Tasks -> Task]
    BY <1>3, <1>u, <2>1, GoType DEF Refresh
  <2> QED BY <1>3, <2>2 DEF Refresh, remote, TypeOK
<1>4. CASE Reload
  <2>1. [o \in Officers |-> IF o \in down THEN "none" ELSE "unread"]
          \in [Officers -> Statuses \union {"unread"}]
    BY DEF Statuses
  <2>2. [Idle EXCEPT !.at = "fetch", !.goal = "reload", !.live = TRUE,
                     !.read = [o \in Officers |-> IF o \in down THEN "none" ELSE "unread"]] \in Task
    BY <2>1, IdleType DEF Task
  <2>3. task' \in [Tasks -> Task]
    BY <1>4, <2>2 DEF Reload, TypeOK
  <2> QED BY <1>4, <2>3 DEF Reload, remote, TypeOK
<1>5. ASSUME NEW t \in Tasks, NEW o \in Officers, NodeAnswers(t, o) PROVE TypeOK'
  <2> DEFINE status == IF Partial(t) /\ request[o] \notin Accepted THEN "none" ELSE request[o]
  <2>1. status \in Statuses
    BY DEF TypeOK, Statuses
  <2>2. task' = [task EXCEPT ![t].read[o] = status]
    BY <1>5 DEF NodeAnswers
  <2> HIDE DEF status
  <2>3. task' \in [Tasks -> Task]
    BY <2>1, <2>2, ReadType
  <2> QED BY <1>5, <2>3 DEF NodeAnswers, remote, TypeOK
<1>6. ASSUME NEW t \in Tasks, NEW o \in Officers, NodeFails(t, o) PROVE TypeOK'
  <2>1. "none" \in Statuses /\ task' = [task EXCEPT ![t].read[o] = "none"]
    BY <1>6 DEF NodeFails, Statuses
  <2>2. task' \in [Tasks -> Task]
    BY <2>1, ReadType
  <2> QED BY <1>6, <2>2 DEF NodeFails, remote, TypeOK
<1>7. CASE ConfigRead
  <2>0. task["user"] \in Task /\ chain.config \in BOOLEAN
    BY <1>u DEF TypeOK
  <2>1. [task["user"] EXCEPT !.at = "proxy", !.config = chain.config] \in Task
    BY <2>0 DEF Task
  <2>2. task' = [task EXCEPT !["user"] = [task["user"] EXCEPT !.at = "proxy", !.config = chain.config]]
    BY <1>7, <1>u DEF ConfigRead, TypeOK
  <2> DEFINE proxy == [task["user"] EXCEPT !.at = "proxy", !.config = chain.config]
  <2> HIDE DEF proxy
  <2>3. task' \in [Tasks -> Task]
    BY <2>1, <2>2 DEF proxy, TypeOK
  <2> QED BY <1>7, <2>3 DEF ConfigRead, remote, TypeOK
<1>8. CASE FetchDone
  <2> DEFINE class == InitialClass(task["user"].read, task["user"].config, chain.claimed)
  <2>1. task["user"].read \in [Officers -> Statuses]
    BY <1>8, <1>u, AllReadType DEF FetchDone, InFlight
  <2>2. CASE class \in Expected(task["user"].goal)
    <3>1. task["user"].goal \in {"NoProtection", "PendingProtection", "reload"}
      BY <1>8 DEF FetchDone, InFlight
    <3>2. class \in Classes
      BY <2>2, <3>1 DEF Expected, Classes
    <3>3. Succeed("user", class, task["user"].read)
      BY <1>8, <2>2 DEF FetchDone
    <3> HIDE DEF class
    <3>4. /\ object' \in [class : Classes, requests : [Officers -> Statuses]]
          /\ task' \in [Tasks -> Task]
          /\ faults' \in BOOLEAN
      BY <1>u, <2>1, <3>2, <3>3, SucceedType
    <3> QED BY <1>8, <3>4 DEF FetchDone, remote, TypeOK
  <2>3. CASE class \notin Expected(task["user"].goal)
    <3>1. Throw("user") /\ UNCHANGED <<object, faults>>
      BY <1>8, <2>3 DEF FetchDone
    <3>2. task' \in [Tasks -> Task]
      BY <1>u, <3>1, ThrowType
    <3> QED BY <1>8, <3>1, <3>2 DEF FetchDone, remote, TypeOK
  <2> QED BY <2>2, <2>3
<1>9. CASE FetchAcceptedDone
  <2>1. task["user"].read \in [Officers -> Statuses]
    BY <1>9, <1>u, AllReadType DEF FetchAcceptedDone, AllRead
  <2>2. object.class \in Classes
    BY DEF TypeOK
  <2>3. /\ object' \in [class : Classes, requests : [Officers -> Statuses]]
        /\ task' \in [Tasks -> Task]
        /\ faults' \in BOOLEAN
    BY <1>9, <1>u, <2>1, <2>2, SucceedType DEF FetchAcceptedDone
  <2> QED BY <1>9, <2>3 DEF FetchAcceptedDone, remote, TypeOK
<1>10. ASSUME NEW goal \in {"ActiveProtection", "PendingRecovery", "ClaimedRecovery", "initiated"},
              Submit(goal)
       PROVE  TypeOK'
  <2>1. task' \in [Tasks -> Task]
    BY <1>10, <1>u, GoType DEF Submit, Classes
  <2> QED BY <1>10, <2>1 DEF Submit, TypeOK
<1>11. CASE Decide
  <2>1. chain' \in [initiated : BOOLEAN, config : BOOLEAN, claimed : BOOLEAN]
    BY <1>11 DEF Decide, Effective, TypeOK
  <2> QED BY <1>11, <2>1 DEF Decide, Extrinsic!Decide, UnchangedClient, TypeOK
<1>12. CASE Submitted
  <2>1. effect' \in {"open", "applied", "void"} /\ outcome' \in {"pending", "resolved", "rejected"}
    BY <1>12 DEF Submitted, Extrinsic!Resolve, TypeOK
  <2>2. CASE task["user"].goal = "initiated"
    <3>1. Go("user", "request", "PendingProtection") /\ UNCHANGED <<object, faults>>
      BY <1>12, <2>2 DEF Submitted
    <3>2. task' \in [Tasks -> Task]
      BY <1>u, <3>1, GoType DEF Classes
    <3> QED BY <1>12, <2>1, <3>1, <3>2 DEF Submitted, TypeOK
  <2>3. CASE task["user"].goal # "initiated"
    <3>1. Succeed("user", task["user"].goal, object.requests)
      BY <1>12, <2>3 DEF Submitted, ClassAfter
    <3>2. task["user"].goal \in Classes /\ object.requests \in [Officers -> Statuses]
      BY <1>12, <2>3 DEF Submitted, InFlight, TypeOK, Classes
    <3>3. /\ object' \in [class : Classes, requests : [Officers -> Statuses]]
          /\ task' \in [Tasks -> Task]
          /\ faults' \in BOOLEAN
      BY <1>u, <3>1, <3>2, SucceedType
    <3> QED BY <1>12, <2>1, <3>3 DEF Submitted, TypeOK
  <2> QED BY <2>2, <2>3
<1>13. CASE SubmissionFails
  <2>1. task' \in [Tasks -> Task]
    BY <1>13, <1>u, ThrowType DEF SubmissionFails
  <2> QED BY <1>13, <2>1 DEF SubmissionFails, Extrinsic!Reject, Extrinsic!Refuse, TypeOK
<1>14. CASE RequestAgain
  <2>1. task' \in [Tasks -> Task]
    BY <1>14, <1>u, GoType DEF RequestAgain, Classes
  <2> QED BY <1>14, <2>1 DEF RequestAgain, remote, TypeOK
<1>15. CASE RequestServed
  <2>1. request' \in [Officers -> Statuses]
    BY <1>15 DEF RequestServed, Requested, TypeOK, Statuses
  <2>2. CASE task["user"].next = 1
    <3>1. [task["user"] EXCEPT !.next = 2] \in Task
      BY <1>u DEF TypeOK, Task, Officers
    <3>2. task' = [task EXCEPT !["user"].next = 2] /\ UNCHANGED <<object, faults>>
      BY <1>15, <2>2 DEF RequestServed
    <3>3. task' \in [Tasks -> Task]
      BY <3>1, <3>2 DEF TypeOK
    <3> QED BY <1>15, <2>1, <3>2, <3>3 DEF RequestServed, TypeOK
  <2>3. CASE task["user"].next # 1
    <3>1. Succeed("user", "PendingProtection", [p \in Officers |-> "PENDING"])
      BY <1>15, <2>3 DEF RequestServed
    <3>2. [p \in Officers |-> "PENDING"] \in [Officers -> Statuses] /\ "PendingProtection" \in Classes
      BY DEF Statuses, Classes
    <3>3. /\ object' \in [class : Classes, requests : [Officers -> Statuses]]
          /\ task' \in [Tasks -> Task]
          /\ faults' \in BOOLEAN
      BY <1>u, <3>1, <3>2, SucceedType
    <3> QED BY <1>15, <2>1, <3>3 DEF RequestServed, TypeOK
  <2> QED BY <2>2, <2>3
<1>16. CASE RequestFails
  <2>1. task' \in [Tasks -> Task]
    BY <1>16, <1>u, ThrowType DEF RequestFails
  <2>2. request' \in [Officers -> Statuses]
    BY <1>16 DEF RequestFails, Requested, TypeOK, Statuses
  <2> QED BY <1>16, <2>1, <2>2 DEF RequestFails, TypeOK
<1>17. CASE Cancel
  <2>1. task' \in [Tasks -> Task]
    BY <1>17, <1>u, GoType DEF Cancel, Classes
  <2> QED BY <1>17, <2>1 DEF Cancel, remote, TypeOK
<1>18. CASE Cancelled
  <2>1. [task["user"] EXCEPT !.at = "fetch"] \in Task
    BY <1>u DEF TypeOK, Task
  <2>2. task' \in [Tasks -> Task]
    BY <1>18, <2>1 DEF Cancelled, TypeOK
  <2>3. request' \in [Officers -> Statuses]
    BY <1>18 DEF Cancelled, Without, TypeOK, Statuses
  <2> QED BY <1>18, <2>2, <2>3 DEF Cancelled, TypeOK
<1>19. CASE CancelFails
  <2>1. task' \in [Tasks -> Task]
    BY <1>19, <1>u, ThrowType DEF CancelFails
  <2>2. request' \in [Officers -> Statuses]
    BY <1>19 DEF CancelFails, Without, TypeOK, Statuses
  <2> QED BY <1>19, <2>1, <2>2 DEF CancelFails, TypeOK
<1>20. ASSUME NEW o \in Officers, Resubmit(o) PROVE TypeOK'
  <2>1. task' \in [Tasks -> Task]
    BY <1>20, <1>u, GoType DEF Resubmit, Classes
  <2>2. request' \in [Officers -> Statuses]
    BY <1>20 DEF Resubmit, Requested, TypeOK, Statuses
  <2> QED BY <1>20, <2>1, <2>2 DEF Resubmit, TypeOK
<1>21. CASE Wait
  <2>1. task' \in [Tasks -> Task]
    BY <1>21, <1>u, GoType DEF Wait
  <2> QED BY <1>21, <2>1 DEF Wait, remote, TypeOK
<1>22. ASSUME NEW t \in Ticks, Tick(t) PROVE TypeOK'
  <2>1. task' \in [Tasks -> Task]
    BY <1>22, <1>u, GoType DEF Tick
  <2> QED BY <1>22, <2>1 DEF Tick, remote, TypeOK
<1>23. ASSUME NEW t \in Ticks, TickProduces(t) PROVE TypeOK'
  <2> DEFINE after == Superseded([task EXCEPT ![t] = Idle])
  <2>1. /\ after \in [Tasks -> Task]
        /\ Settled(after, "resolved") \in [Tasks -> Task]
        /\ Settled(after, "rejected") \in [Tasks -> Task]
    BY <1>u, AfterType
  <2>2. task[t].read \in [Officers -> Statuses]
    BY <1>23, <1>u, AllReadType DEF TickProduces, Polling, AllRead
  <2>3. object' \in [class : Classes, requests : [Officers -> Statuses]]
    BY <1>23, <2>2 DEF TickProduces, TypeOK
  <2>4. 0 \in 0..(MaxRetries - 1)
    BY ConstantsAssumption
  <2>5. ~GivesUp(Counted(retries)) => Counted(retries) \in 0..(MaxRetries - 1)
    BY ConstantsAssumption DEF GivesUp, Counted, TypeOK
  <2> HIDE DEF after
  <2>6. task' \in {Settled(after, "resolved"), Settled(after, "rejected"), after}
    BY <1>23 DEF TickProduces, after
  <2>7. retries' \in 0..(MaxRetries - 1)
    BY <1>23, <2>4, <2>5 DEF TickProduces
  <2> QED BY <1>23, <2>1, <2>3, <2>6, <2>7 DEF TickProduces, remote, TypeOK
<1>24. ASSUME NEW t \in Ticks, TickThrows(t) PROVE TypeOK'
  <2>1. task' \in [Tasks -> Task]
    BY <1>24, <1>u, AfterType DEF TickThrows
  <2>2. 0 \in 0..(MaxRetries - 1)
    BY ConstantsAssumption
  <2> QED BY <1>24, <2>1, <2>2 DEF TickThrows, remote, TypeOK
<1>25. ASSUME NEW t \in Ticks, StrayTickEnds(t) PROVE TypeOK'
  <2>1. Superseded([task EXCEPT ![t] = Idle]) \in [Tasks -> Task]
    BY <1>u, AfterType
  <2>2. task[t].read \in [Officers -> Statuses]
    BY <1>25, <1>u, AllReadType DEF StrayTickEnds, AllRead
  <2>3. object' \in [class : Classes, requests : [Officers -> Statuses]]
    BY <1>25, <2>2 DEF StrayTickEnds, TypeOK
  <2> QED BY <1>25, <2>1, <2>3 DEF StrayTickEnds, remote, TypeOK
<1> QED
  BY <1>0, <1>1, <1>2, <1>3, <1>4, <1>5, <1>6, <1>7, <1>8, <1>9, <1>10, <1>11, <1>12, <1>13,
     <1>14, <1>15, <1>16, <1>17, <1>18, <1>19, <1>20, <1>21, <1>22, <1>23, <1>24, <1>25
     DEF Next

-----------------------------------------------------------------------------
(* What a step leaves of the tasks. *)
KeepsUser(tasks) ==
  /\ tasks["user"].at = task["user"].at /\ tasks["user"].goal = task["user"].goal
  /\ tasks["user"].read = task["user"].read /\ tasks["user"].config = task["user"].config

OnlyFetch(tasks) == \A t \in Ticks : tasks[t].at \in {"idle", "fetch"}

(* An operation of the user begins. *)
LEMMA GoFrame ==
  ASSUME TypeOK, TicksFetch, NEW at, NEW goal, Go("user", at, goal)
  PROVE  /\ task'["user"].at = at /\ task'["user"].goal = goal /\ task'["user"].read = Unread
         /\ TicksFetch'
<1>1. "user" \in Tasks /\ "user" \notin Ticks /\ Ticks \subseteq Tasks
  BY ConstantsAssumption DEF Tasks
<1>2. \A t \in Ticks : task'[t] = task[t]
  BY <1>1 DEF Go, TypeOK
<1>3. task'["user"] = [Idle EXCEPT !.at = at, !.goal = goal, !.live = TRUE]
  BY <1>1 DEF Go, TypeOK
<1> QED BY <1>2, <1>3 DEF TicksFetch, Idle

(* The object was replaced: the tasks lose it and go on. *)
LEMMA SupersededFrame ==
  ASSUME TypeOK, TicksFetch, NEW t \in Tasks
  PROVE  LET after == Superseded([task EXCEPT ![t] = Idle]) IN
         /\ OnlyFetch(after)
         /\ t = "user" => after["user"].at = "idle"
         /\ t \in Ticks => KeepsUser(after)
<1> DEFINE ended == [task EXCEPT ![t] = Idle]
<1>1. "user" \in Tasks /\ "user" \notin Ticks /\ Ticks \subseteq Tasks
  BY ConstantsAssumption DEF Tasks
<1>2. ended \in [Tasks -> Task] /\ OnlyFetch(ended)
  BY <1>1, IdleType DEF TypeOK, TicksFetch, OnlyFetch, Idle
<1>3. t = "user" => ended["user"].at = "idle"
  BY <1>1 DEF TypeOK, Idle
<1>4. t \in Ticks => ended["user"] = task["user"]
  BY <1>1 DEF TypeOK
<1> HIDE DEF ended
<1>5. OnlyFetch(Superseded(ended))
  <2> SUFFICES ASSUME NEW u \in Ticks PROVE Superseded(ended)[u].at \in {"idle", "fetch"}
    BY DEF OnlyFetch
  <2>1. /\ [ended[u] EXCEPT !.live = FALSE, !.read = None].at = ended[u].at
        /\ ended[u].at \in {"idle", "fetch"}
    BY <1>1, <1>2 DEF OnlyFetch, Task
  <2> QED BY <1>1, <2>1 DEF Superseded, Idle
<1>6. Superseded(ended)["user"] = [ended["user"] EXCEPT !.live = FALSE]
  BY <1>1 DEF Superseded
<1>7. /\ Superseded(ended)["user"].at = ended["user"].at
      /\ Superseded(ended)["user"].goal = ended["user"].goal
      /\ Superseded(ended)["user"].read = ended["user"].read
      /\ Superseded(ended)["user"].config = ended["user"].config
  BY <1>1, <1>2, <1>6 DEF Task
<1> QED BY <1>3, <1>4, <1>5, <1>7 DEF KeepsUser, ended

(* An operation of the user succeeds, or throws since it lost its object. *)
LEMMA SucceedFrame ==
  ASSUME TypeOK, TicksFetch, NEW class, NEW requests, Succeed("user", class, requests)
  PROVE  /\ task'["user"].at = "idle"
         /\ TicksFetch'
         /\ object' = [class |-> class, requests |-> requests] \/ object' = object
<1>1. "user" \in Tasks /\ "user" \notin Ticks /\ Ticks \subseteq Tasks
  BY ConstantsAssumption DEF Tasks
<1>2. CASE task["user"].live
  <2>1. task' = Superseded([task EXCEPT !["user"] = Idle])
    BY <1>2 DEF Succeed
  <2> QED BY <1>1, <1>2, <2>1, SupersededFrame DEF Succeed, TicksFetch, OnlyFetch
<1>3. CASE ~task["user"].live
  BY <1>1, <1>3 DEF Succeed, Throw, TicksFetch, TypeOK, Idle
<1> QED BY <1>2, <1>3

(* An operation of the user fails. *)
LEMMA ThrowFrame ==
  ASSUME TypeOK, TicksFetch, Throw("user")
  PROVE  task'["user"].at = "idle" /\ TicksFetch'
<1>1. "user" \in Tasks /\ "user" \notin Ticks /\ Ticks \subseteq Tasks
  BY ConstantsAssumption DEF Tasks
<1> QED BY <1>1 DEF Throw, TicksFetch, TypeOK, Idle

(* A wait settles: the user is idle again, or was not waiting. *)
LEMMA SettledFrame ==
  ASSUME NEW tasks \in [Tasks -> Task], OnlyFetch(tasks), NEW how
  PROVE  /\ OnlyFetch(Settled(tasks, how))
         /\ \/ Settled(tasks, how)["user"].at = "idle"
            \/ Settled(tasks, how)["user"] = tasks["user"]
<1>1. "user" \in Tasks /\ "user" \notin Ticks /\ Ticks \subseteq Tasks
  BY ConstantsAssumption DEF Tasks
<1>2. OnlyFetch(Settled(tasks, how))
  <2> SUFFICES ASSUME NEW t \in Ticks PROVE Settled(tasks, how)[t].at \in {"idle", "fetch"}
    BY DEF OnlyFetch
  <2>1. tasks[t].at \in {"idle", "fetch"} /\ tasks[t].at # "wait"
    BY DEF OnlyFetch
  <2>2. [tasks[t] EXCEPT !.goal = "stray"].at = tasks[t].at
    BY <1>1 DEF Task
  <2>3. Idle.at = "idle"
    BY DEF Idle
  <2>4. \/ Settled(tasks, how)[t] = [tasks[t] EXCEPT !.goal = "stray"]
        \/ Settled(tasks, how)[t] = Idle
    BY <1>1, <2>1 DEF Settled
  <2>5. CASE Settled(tasks, how)[t] = Idle
    BY <2>3, <2>5
  <2>6. CASE Settled(tasks, how)[t] = [tasks[t] EXCEPT !.goal = "stray"]
    BY <2>1, <2>2, <2>6
  <2> QED BY <2>4, <2>5, <2>6
<1>3. CASE tasks["user"].at = "wait"
  <2>1. Settled(tasks, how)["user"] = [Idle EXCEPT !.goal = how]
    BY <1>1, <1>3 DEF Settled
  <2> QED BY <1>2, <2>1 DEF Idle
<1>4. CASE tasks["user"].at # "wait"
  BY <1>1, <1>2, <1>4 DEF Settled
<1> QED BY <1>3, <1>4

-----------------------------------------------------------------------------
(* What is true of an operation that goes on stays so when officers decide *)
(* and ticks run. *)
LEMMA FlightKept ==
  ASSUME InFlight, KeepsUser(task'),
         \A o \in Officers : request[o] \in Accepted => request'[o] \in Accepted,
         UNCHANGED <<chain, effect>>, object'.class = object.class
  PROVE  InFlight'
BY DEF InFlight, KeepsUser, Having

(* An object stays true to the facts while its class, the acceptances and  *)
(* the chain stay.                                                         *)
LEMMA ProgressKept ==
  ASSUME ProgressIsReal, object'.class = object.class,
         \A o \in Officers : request[o] \in Accepted => request'[o] \in Accepted,
         chain.config => chain'.config, chain.claimed => chain'.claimed
  PROVE  ProgressIsReal'
BY DEF ProgressIsReal, Having

(* Nothing is in flight once the user is idle. *)
LEMMA FlightOver ==
  ASSUME task'["user"].at = "idle"
  PROVE  InFlight'
BY DEF InFlight

(* The steps of the backends and of the ticks. *)
LEMMA TickStep ==
  ASSUME TypeOK, ProgressIsReal, InFlight, TicksFetch, NEW t \in Ticks,
         Tick(t) \/ TickProduces(t) \/ TickThrows(t) \/ StrayTickEnds(t)
  PROVE  ProgressIsReal' /\ InFlight' /\ TicksFetch'
<1>1. "user" \in Tasks /\ "user" \notin Ticks /\ Ticks \subseteq Tasks /\ t \in Tasks
  BY ConstantsAssumption DEF Tasks
<1>2. /\ UNCHANGED <<request, chain, effect>>
      /\ object'.class = object.class
  BY DEF Tick, TickProduces, TickThrows, StrayTickEnds, remote, TypeOK
<1>3. /\ OnlyFetch(task')
      /\ KeepsUser(task') \/ task'["user"].at = "idle"
  <2> DEFINE ended == [task EXCEPT ![t] = Idle]
             after == Superseded(ended)
  <2>1. ended \in [Tasks -> Task] /\ OnlyFetch(ended) /\ ended["user"] = task["user"]
    BY <1>1, IdleType DEF TypeOK, TicksFetch, OnlyFetch, Idle
  <2>2. after \in [Tasks -> Task] /\ OnlyFetch(after) /\ KeepsUser(after)
    BY <1>1, <2>1, SupersededType, SupersededFrame
  <2> HIDE DEF ended, after
  <2>3. ASSUME NEW how,
               task' = Settled(ended, how) \/ task' = Settled(after, how)
        PROVE  OnlyFetch(task') /\ (KeepsUser(task') \/ task'["user"].at = "idle")
    <3>1. CASE task' = Settled(ended, how)
      BY <2>1, <3>1, SettledFrame DEF KeepsUser
    <3>2. CASE task' = Settled(after, how)
      BY <2>2, <3>2, SettledFrame DEF KeepsUser
    <3> QED BY <2>3, <3>1, <3>2
  <2>4. CASE Tick(t)
    <3>1. task' = [task EXCEPT ![t] = [Idle EXCEPT !.at = "fetch", !.goal = "poll", !.live = TRUE]]
      BY <2>4 DEF Tick, Go
    <3>2. task'["user"] = task["user"]
      BY <1>1, <3>1 DEF TypeOK
    <3>3. [Idle EXCEPT !.at = "fetch", !.goal = "poll", !.live = TRUE].at = "fetch"
      BY DEF Idle
    <3>4. OnlyFetch(task')
      BY <1>1, <3>1, <3>3 DEF OnlyFetch, TicksFetch, TypeOK
    <3> QED BY <3>2, <3>4 DEF KeepsUser
  <2>5. CASE TickProduces(t)
    <3>1. \/ task' = Settled(after, "resolved")
          \/ task' = Settled(after, "rejected")
          \/ task' = after
      BY <2>5 DEF TickProduces, after, ended
    <3> QED BY <2>2, <2>3, <3>1
  <2>6. CASE TickThrows(t)
    BY <2>3, <2>6 DEF TickThrows, ended
  <2>7. CASE StrayTickEnds(t)
    BY <2>2, <2>7 DEF StrayTickEnds, after, ended
  <2> QED BY <2>4, <2>5, <2>6, <2>7
<1>4. TicksFetch'
  BY <1>3 DEF TicksFetch, OnlyFetch
<1>5. ProgressIsReal'
  BY <1>2, ProgressKept
<1>6. InFlight'
  BY <1>2, <1>3, FlightKept, FlightOver
<1> QED BY <1>4, <1>5, <1>6

(* An officer decides, or a backend sees the activation. *)
LEMMA BackendStep ==
  ASSUME TypeOK, ProgressIsReal, InFlight, TicksFetch, NEW o \in Officers,
         OfficerDecides(o) \/ BackendActivates(o)
  PROVE  ProgressIsReal' /\ InFlight' /\ TicksFetch'
<1>1. UNCHANGED <<chain, effect, object, task>>
  BY DEF OfficerDecides, BackendActivates, UnchangedClient
<1>2. \A p \in Officers : request[p] \in Accepted => request'[p] \in Accepted
  BY DEF OfficerDecides, BackendActivates, TypeOK, Accepted
<1> QED BY <1>1, <1>2, ProgressKept, FlightKept DEF KeepsUser, TicksFetch

-----------------------------------------------------------------------------
(* The user's operation begins: nothing was read yet. *)
LEMMA Begins ==
  ASSUME TypeOK, ProgressIsReal, TicksFetch, NEW at, NEW goal, Go("user", at, goal),
         UNCHANGED <<chain, object>>,
         \A o \in Officers : request[o] \in Accepted => request'[o] \in Accepted,
         \/ at = "fetch" /\ goal \in {"NoProtection", "PendingProtection", "accepted"}
         \/ at = "submit" /\ effect' = "open"
            /\ goal \in {"initiated", "ActiveProtection", "PendingRecovery", "ClaimedRecovery"}
            /\ (goal = "ClaimedRecovery" => chain.config)
         \/ at = "cancel" /\ object.class = "RejectedRecovery" /\ goal = "NoProtection"
         \/ at \in {"request", "wait"}
  PROVE  ProgressIsReal' /\ InFlight' /\ TicksFetch'
<1>1. ProgressIsReal'
  BY ProgressKept
<1>2. /\ task'["user"].at = at /\ task'["user"].goal = goal
      /\ task'["user"].read = Unread /\ TicksFetch'
  BY GoFrame
<1>3. \A o \in Officers : Unread[o] \notin Accepted
  BY DEF Unread, Accepted
<1>4. InFlight'
  BY <1>2, <1>3 DEF InFlight
<1> QED BY <1>1, <1>2, <1>4

(* It fails, and leaves the object as it was. *)
LEMMA Fails ==
  ASSUME TypeOK, ProgressIsReal, TicksFetch, Throw("user"),
         UNCHANGED <<chain, object>>,
         \/ object.class = "RejectedRecovery"
         \/ \A o \in Officers : request[o] \in Accepted => request'[o] \in Accepted
  PROVE  ProgressIsReal' /\ InFlight' /\ TicksFetch'
<1>1. ProgressIsReal'
  BY DEF ProgressIsReal, Having
<1> QED BY <1>1, ThrowFrame, FlightOver

(* It succeeds, and what it makes of the object is true to the facts. *)
LEMMA Succeeds ==
  ASSUME TypeOK, ProgressIsReal, TicksFetch, NEW class, NEW requests,
         Succeed("user", class, requests), UNCHANGED chain,
         \A o \in Officers : request[o] \in Accepted => request'[o] \in Accepted,
         class = "AcceptedProtection" => Having(request', Accepted) = Officers,
         class \in {"ActiveProtection", "PendingRecovery", "ClaimedRecovery"} => chain.config,
         class = "ClaimedRecovery" => chain.claimed
  PROVE  ProgressIsReal' /\ InFlight' /\ TicksFetch'
<1>1. /\ task'["user"].at = "idle" /\ TicksFetch'
      /\ object' = [class |-> class, requests |-> requests] \/ object' = object
  BY SucceedFrame
<1>2. CASE object' = object
  BY <1>1, <1>2, ProgressKept, FlightOver
<1>3. CASE object' = [class |-> class, requests |-> requests]
  <2>1. object'.class = class
    BY <1>3
  <2>2. ProgressIsReal'
    BY <2>1 DEF ProgressIsReal
  <2> QED BY <1>1, <2>2, FlightOver
<1> QED BY <1>1, <1>2, <1>3

(* A node answered, or not: what was read is what the officer decided. *)
LEMMA ReadStep ==
  ASSUME TypeOK, ProgressIsReal, InFlight, TicksFetch, NEW t \in Tasks, NEW o \in Officers,
         NodeAnswers(t, o) \/ NodeFails(t, o)
  PROVE  ProgressIsReal' /\ InFlight' /\ TicksFetch'
<1>1. "user" \in Tasks /\ "user" \notin Ticks /\ Ticks \subseteq Tasks
  BY ConstantsAssumption DEF Tasks
<1>2. PICK status : /\ task' = [task EXCEPT ![t].read[o] = status]
                    /\ status \in {"none", request[o]}
  BY DEF NodeAnswers, NodeFails
<1>3. /\ UNCHANGED <<request, chain, effect, object>>
      /\ task[t].at = "fetch"
  BY DEF NodeAnswers, NodeFails, remote
<1>4. task \in [Tasks -> Task] /\ task[t] \in Task
  BY DEF TypeOK
<1> DEFINE read == [task[t].read EXCEPT ![o] = status]
<1>5. read[o] = status /\ \A p \in Officers : p # o => read[p] = task[t].read[p]
  BY <1>4 DEF Task
<1>6. /\ task'[t].at = task[t].at /\ task'[t].goal = task[t].goal
      /\ task'[t].read = read /\ task'[t].config = task[t].config
      /\ \A u \in Tasks : u # t => task'[u] = task[u]
  BY <1>2, <1>4 DEF Task
<1>7. ProgressIsReal'
  BY <1>3, ProgressKept
<1>8. TicksFetch'
  BY <1>1, <1>6 DEF TicksFetch
<1> HIDE DEF read
<1>9. CASE t = "user"
  <2>1. \A p \in Officers : read[p] \in Accepted => request[p] \in Accepted
    BY <1>2, <1>3, <1>5, <1>9 DEF InFlight, Accepted
  <2> QED BY <1>3, <1>6, <1>7, <1>8, <1>9, <2>1 DEF InFlight
<1>10. CASE t # "user"
  <2>1. KeepsUser(task')
    BY <1>1, <1>6, <1>10 DEF KeepsUser
  <2> QED BY <1>3, <1>7, <1>8, <2>1, FlightKept
<1> QED BY <1>9, <1>10

-----------------------------------------------------------------------------
(* Every step keeps the rest of the inductive invariant. *)
LEMMA InvStep == IInv /\ [Next]_vars => (ProgressIsReal /\ InFlight /\ TicksFetch)'
<1> SUFFICES ASSUME TypeOK, ProgressIsReal, InFlight, TicksFetch, [Next]_vars
             PROVE  ProgressIsReal' /\ InFlight' /\ TicksFetch'
  BY DEF IInv
<1>u. "user" \in Tasks /\ "user" \notin Ticks /\ Ticks \subseteq Tasks
  BY ConstantsAssumption DEF Tasks
<1>0. CASE UNCHANGED vars
  BY <1>0 DEF vars, remote, ProgressIsReal, InFlight, TicksFetch, Having
<1>1. ASSUME NEW o \in Officers, OfficerDecides(o) \/ BackendActivates(o)
      PROVE  ProgressIsReal' /\ InFlight' /\ TicksFetch'
  BY <1>1, BackendStep
<1>2. CASE UpdateNetworkState
  BY <1>2, ProgressKept, FlightKept DEF UpdateNetworkState, remote, KeepsUser, TicksFetch
<1>3. CASE Refresh
  <2>1. UNCHANGED <<chain, object, request>>
    BY <1>3 DEF Refresh, remote
  <2> QED BY <1>3, <2>1, Begins DEF Refresh, Ready
<1>4. CASE Reload
  <2> DEFINE read == [o \in Officers |-> IF o \in down THEN "none" ELSE "unread"]
             begun == [Idle EXCEPT !.at = "fetch", !.goal = "reload", !.live = TRUE, !.read = read]
  <2>1. begun.at = "fetch" /\ begun.goal = "reload" /\ begun.read = read
    BY DEF Idle
  <2>2. task' = [task EXCEPT !["user"] = begun] /\ UNCHANGED <<request, chain, effect, object>>
    BY <1>4 DEF Reload, remote
  <2>3. \A o \in Officers : read[o] \notin Accepted
    BY DEF Accepted
  <2> HIDE DEF begun, read
  <2>4. task'["user"] = begun /\ \A t \in Ticks : task'[t] = task[t]
    BY <1>u, <2>2 DEF TypeOK
  <2>5. InFlight'
    BY <2>1, <2>3, <2>4 DEF InFlight
  <2> QED BY <2>2, <2>4, <2>5, ProgressKept DEF TicksFetch
<1>5. ASSUME NEW t \in Tasks, NEW o \in Officers, NodeAnswers(t, o) \/ NodeFails(t, o)
      PROVE  ProgressIsReal' /\ InFlight' /\ TicksFetch'
  BY <1>5, ReadStep
<1>6. CASE ConfigRead
  <2> DEFINE proxy == [task["user"] EXCEPT !.at = "proxy", !.config = chain.config]
  <2>1. /\ proxy.at = "proxy" /\ proxy.config = chain.config
        /\ proxy.goal = task["user"].goal /\ proxy.read = task["user"].read
    BY <1>u DEF TypeOK, Task
  <2>2. task' = [task EXCEPT !["user"] = proxy] /\ UNCHANGED <<request, chain, effect, object>>
    BY <1>6, <1>u DEF ConfigRead, remote, TypeOK
  <2> HIDE DEF proxy
  <2>3. task'["user"] = proxy /\ \A t \in Ticks : task'[t] = task[t]
    BY <1>u, <2>2 DEF TypeOK
  <2>4. InFlight'
    BY <1>6, <2>1, <2>2, <2>3 DEF ConfigRead, AllRead, Partial, InFlight, Having
  <2> QED BY <2>2, <2>3, <2>4, ProgressKept DEF TicksFetch
<1>7. CASE FetchDone
  <2> DEFINE user == task["user"]
             class == InitialClass(user.read, user.config, chain.claimed)
  <2>1. UNCHANGED <<chain, request>>
    BY <1>7 DEF FetchDone, remote
  <2>2. CASE class \in Expected(user.goal)
    <3>1. Succeed("user", class, user.read)
      BY <1>7, <2>2 DEF FetchDone
    <3>2. /\ user.read \in [Officers -> Statuses \union {"unread"}]
          /\ user.config \in BOOLEAN /\ chain.claimed \in BOOLEAN
      BY <1>u DEF TypeOK, Task
    <3>3. /\ class = "AcceptedProtection" => Having(user.read, Accepted) = Officers
          /\ class \in {"ActiveProtection", "PendingRecovery", "ClaimedRecovery"} => user.config
          /\ class = "ClaimedRecovery" => chain.claimed
      BY <3>2, ClassRead
    <3>4. \A o \in Officers : user.read[o] \in Accepted => request[o] \in Accepted
      BY <1>7 DEF FetchDone, InFlight
    <3>5. user.config => chain.config
      BY <1>7 DEF FetchDone, InFlight
    <3> HIDE DEF class, user
    <3>6. Having(user.read, Accepted) = Officers => Having(request', Accepted) = Officers
      BY <2>1, <3>4 DEF Having
    <3> QED BY <2>1, <3>1, <3>3, <3>5, <3>6, Succeeds
  <2>3. CASE class \notin Expected(user.goal)
    BY <1>7, <2>1, <2>3, Fails DEF FetchDone
  <2> QED BY <2>2, <2>3
<1>8. CASE FetchAcceptedDone
  <2>1. UNCHANGED <<chain, request>> /\ Succeed("user", object.class, task["user"].read)
    BY <1>8 DEF FetchAcceptedDone, remote
  <2> QED BY <2>1, Succeeds DEF ProgressIsReal, Having
<1>9. ASSUME NEW goal \in {"ActiveProtection", "PendingRecovery", "ClaimedRecovery", "initiated"},
             Submit(goal)
      PROVE  ProgressIsReal' /\ InFlight' /\ TicksFetch'
  <2>1. goal = "ClaimedRecovery" => chain.config
    BY <1>9 DEF Submit, Submission, ProgressIsReal, TypeOK, Classes
  <2>2. Go("user", "submit", goal) /\ effect' = "open" /\ UNCHANGED <<request, chain, object>>
    BY <1>9 DEF Submit
  <2> QED BY <2>1, <2>2, Begins
<1>10. CASE Decide
  <2>1. UNCHANGED <<request, object, task>> /\ task["user"].at = "submit"
    BY <1>10 DEF Decide, UnchangedClient
  <2>2. task["user"].goal \in {"initiated", "ActiveProtection", "PendingRecovery", "ClaimedRecovery"}
    BY <2>1 DEF InFlight
  <2>3. /\ chain.config => chain'.config
        /\ chain.claimed => chain'.claimed
        /\ effect' = "applied" =>
             /\ task["user"].goal \in {"ActiveProtection", "PendingRecovery"} => chain'.config
             /\ task["user"].goal = "ClaimedRecovery" => chain'.claimed
    BY <1>10, <2>2 DEF Decide, Effective, TypeOK
  <2> QED BY <2>1, <2>2, <2>3, ProgressKept DEF InFlight, TicksFetch
<1>11. CASE Submitted
  <2> DEFINE goal == task["user"].goal
  <2>1. UNCHANGED <<request, chain>> /\ task["user"].at = "submit" /\ effect = "applied"
    BY <1>11 DEF Submitted, Extrinsic!Resolve
  <2>2. CASE goal = "initiated"
    <3>1. Go("user", "request", "PendingProtection") /\ UNCHANGED object
      BY <1>11, <2>2 DEF Submitted
    <3> QED BY <2>1, <3>1, Begins
  <2>3. CASE goal # "initiated"
    <3>1. Succeed("user", goal, object.requests)
      BY <1>11, <2>3 DEF Submitted, ClassAfter
    <3>2. goal \in {"ActiveProtection", "PendingRecovery", "ClaimedRecovery"}
      BY <2>1, <2>3 DEF InFlight
    <3>3. chain.config /\ (goal = "ClaimedRecovery" => chain.claimed)
      BY <2>1, <3>2 DEF InFlight
    <3> HIDE DEF goal
    <3> QED BY <2>1, <3>1, <3>2, <3>3, Succeeds
  <2> QED BY <2>2, <2>3
<1>12. CASE SubmissionFails
  <2>1. Throw("user") /\ UNCHANGED <<request, chain, object>>
    BY <1>12 DEF SubmissionFails
  <2> QED BY <2>1, Fails
<1>13. CASE RequestAgain
  <2>1. Go("user", "request", "PendingProtection") /\ UNCHANGED <<request, chain, object>>
    BY <1>13 DEF RequestAgain, remote
  <2> QED BY <2>1, Begins
<1>14. CASE RequestServed
  <2>1. UNCHANGED <<chain, effect>> /\ task["user"].at = "request"
    BY <1>14 DEF RequestServed
  <2>2. \A o \in Officers : request[o] \in Accepted => request'[o] \in Accepted
    BY <1>14 DEF RequestServed, Requested, TypeOK, Accepted
  <2>3. CASE task["user"].next = 1
    <3>1. task' = [task EXCEPT !["user"].next = 2] /\ UNCHANGED object
      BY <1>14, <2>3 DEF RequestServed
    <3>2. task'["user"].at = "request" /\ \A t \in Ticks : task'[t] = task[t]
      BY <1>u, <2>1, <3>1 DEF TypeOK, Task
    <3> QED BY <2>1, <2>2, <3>1, <3>2, ProgressKept DEF InFlight, TicksFetch
  <2>4. CASE task["user"].next # 1
    <3>1. Succeed("user", "PendingProtection", [p \in Officers |-> "PENDING"])
      BY <1>14, <2>4 DEF RequestServed
    <3> QED BY <2>1, <2>2, <3>1, Succeeds
  <2> QED BY <2>3, <2>4
<1>15. CASE RequestFails
  <2>1. Throw("user") /\ UNCHANGED <<chain, object>>
    BY <1>15 DEF RequestFails
  <2>2. \A o \in Officers : request[o] \in Accepted => request'[o] \in Accepted
    BY <1>15 DEF RequestFails, Requested, TypeOK, Accepted
  <2> QED BY <2>1, <2>2, Fails
<1>16. CASE Cancel
  <2>1. Go("user", "cancel", "NoProtection") /\ UNCHANGED <<request, chain, object>>
    BY <1>16 DEF Cancel, remote
  <2> QED BY <1>16, <2>1, Begins DEF Cancel, Ready
<1>17. CASE Cancelled
  <2> DEFINE fetching == [task["user"] EXCEPT !.at = "fetch"]
  <2>1. fetching.at = "fetch" /\ fetching.goal = task["user"].goal /\ fetching.read = task["user"].read
    BY <1>u DEF TypeOK, Task
  <2>2. task' = [task EXCEPT !["user"] = fetching] /\ UNCHANGED <<chain, object>>
    BY <1>17, <1>u DEF Cancelled, TypeOK
  <2>3. object.class = "RejectedRecovery" /\ task["user"].goal = "NoProtection"
    BY <1>17 DEF Cancelled, InFlight
  <2>4. \A o \in Officers : task["user"].read[o] \notin Accepted
    BY <1>17 DEF Cancelled, InFlight, Unread, Accepted
  <2> HIDE DEF fetching
  <2>5. task'["user"] = fetching /\ \A t \in Ticks : task'[t] = task[t]
    BY <1>u, <2>2 DEF TypeOK
  <2>6. InFlight'
    BY <2>1, <2>3, <2>4, <2>5 DEF InFlight
  <2>7. ProgressIsReal'
    BY <2>2, <2>3 DEF ProgressIsReal
  <2> QED BY <2>5, <2>6, <2>7 DEF TicksFetch
<1>18. CASE CancelFails
  <2>1. object.class = "RejectedRecovery"
    BY <1>18 DEF CancelFails, InFlight
  <2>2. Throw("user") /\ UNCHANGED <<chain, object>>
    BY <1>18 DEF CancelFails
  <2> QED BY <2>1, <2>2, Fails
<1>19. ASSUME NEW o \in Officers, Resubmit(o)
       PROVE  ProgressIsReal' /\ InFlight' /\ TicksFetch'
  <2>1. \A p \in Officers : request[p] \in Accepted => request'[p] \in Accepted
    BY <1>19 DEF Resubmit, Requested, TypeOK, Accepted
  <2>2. Go("user", "fetch", "PendingProtection") /\ UNCHANGED <<chain, object>>
    BY <1>19 DEF Resubmit
  <2> QED BY <2>1, <2>2, Begins
<1>20. CASE Wait
  <2>1. Go("user", "wait", "none") /\ UNCHANGED <<request, chain, object>>
    BY <1>20 DEF Wait, remote
  <2> QED BY <2>1, Begins
<1>21. ASSUME NEW t \in Ticks, Tick(t) \/ TickProduces(t) \/ TickThrows(t) \/ StrayTickEnds(t)
       PROVE  ProgressIsReal' /\ InFlight' /\ TicksFetch'
  BY <1>21, TickStep
<1> QED
  BY <1>0, <1>1, <1>2, <1>3, <1>4, <1>5, <1>6, <1>7, <1>8, <1>9, <1>10, <1>11, <1>12, <1>13,
     <1>14, <1>15, <1>16, <1>17, <1>18, <1>19, <1>20, <1>21
     DEF Next

(* The inductive invariant holds initially. *)
LEMMA InvInit == Init => IInv
<1> SUFFICES ASSUME Init PROVE IInv
  OBVIOUS
<1>1. "user" \in Tasks /\ Ticks \subseteq Tasks
  BY DEF Tasks
<1>2. task["user"].at = "idle" /\ \A t \in Ticks : task[t].at = "idle"
  BY <1>1 DEF Init, Idle
<1>3. object.class = "NoProtection"
  BY DEF Init
<1> QED BY <1>2, <1>3, TypeInit DEF IInv, ProgressIsReal, InFlight, TicksFetch

(* It is inductive. *)
THEOREM Inductive == Spec => []IInv
<1>1. IInv /\ [Next]_vars => IInv'
  BY TypeStep, InvStep DEF IInv
<1> QED BY <1>1, InvInit, PTL DEF Spec

(* Every variable keeps its type: the retries stay below their maximum,    *)
(* and the classes are those of the program.                               *)
THEOREM TypeCorrect == Spec => []TypeOK
<1>1. IInv => TypeOK
  BY DEF IInv
<1> QED BY <1>1, Inductive, PTL

(* Whatever fails or overlaps, for any number of overlapping ticks, an     *)
(* object that offers to activate, to claim or to use the lost account is  *)
(* true to the requests and to the chain.                                  *)
THEOREM Progress == Spec => []ProgressIsReal
<1>1. IInv => ProgressIsReal
  BY DEF IInv
<1> QED BY <1>1, Inductive, PTL

-----------------------------------------------------------------------------
(* Unless something failed.  While the user's operation goes on, the       *)
(* facts are ahead of the object: the extrinsic was applied, one of two    *)
(* requests was created, rejected ones were cancelled or replaced.         *)
InProgress == {"PENDING", "ACCEPTED", "REJECTED"}
Configured == {"ActiveProtection", "PendingRecovery", "ClaimedRecovery"}
Recovering == {"PendingRecovery", "ClaimedRecovery"}

Reading == task["user"].at \in {"fetch", "proxy"}

Applied(goals) ==
  task["user"].at = "submit" /\ effect = "applied" /\ task["user"].goal \in goals

HalfRequested == task["user"].at = "request" /\ task["user"].next = 2

(* Which operation an object of which class started. *)
Stages ==
  LET user == task["user"] IN
  /\ user.at = "request" => object.class = "NoProtection"
  /\ user.at = "submit" => user.goal \in Submission(object.class)
  /\ user.at = "wait" => object.class \in Recovering
  /\ Reading /\ user.goal = "NoProtection" => object.class \in {"NoProtection", "RejectedRecovery"}
  /\ Reading /\ user.goal = "PendingProtection" =>
       object.class \in {"PendingProtection", "RejectedRecovery"}
  /\ Reading /\ user.goal = "accepted" => object.class \in Configured

(* The chain is what the class says, or the extrinsic in flight did it. *)
ChainMatches ==
  /\ chain.config <=> object.class \in Configured \/ Applied({"ActiveProtection", "PendingRecovery"})
  /\ chain.claimed <=> object.class = "ClaimedRecovery" \/ Applied({"ClaimedRecovery"})

(* The requests an object stands for when no operation goes on: those in   *)
(* the backends, and those it knows. *)
AtRest(class, known, now) ==
  /\ class # "UnavailableProtection"
  /\ class \in {"NoProtection", "ActiveProtection"} => \A o \in Officers : now[o] = "none"
  /\ class \in {"PendingProtection", "RejectedRecovery"} => \A o \in Officers : now[o] \in InProgress
  /\ class = "RejectedRecovery" =>
       /\ \A o \in Officers : known[o] # "none"
       /\ \E o \in Officers : now[o] = "REJECTED"
  /\ class \in {"AcceptedProtection", "PendingRecovery", "ClaimedRecovery"} =>
       \A o \in Officers : now[o] \in Accepted

(* A rejected request was cancelled, or submitted again. *)
Replacing(goal) == Reading /\ object.class = "RejectedRecovery" /\ task["user"].goal = goal

(* The backends hold what the class says, or are ahead of it. *)
RequestsMatch ==
  /\ HalfRequested => request[1] \in InProgress /\ request[2] = "none"
  /\ Replacing("NoProtection") => \A o \in Officers : request[o] = "none"
  /\ Replacing("PendingProtection") => \A o \in Officers : request[o] \in InProgress
  /\ ~HalfRequested /\ ~Replacing("NoProtection") /\ ~Replacing("PendingProtection") =>
       AtRest(object.class, object.requests, request)

(* What was read is still so, or an officer or a backend went on. *)
Follows(read, now) ==
  \/ read \in {"unread", now}
  \/ read = "PENDING" /\ now \in {"ACCEPTED", "REJECTED", "ACTIVATED"}
  \/ read = "ACCEPTED" /\ now = "ACTIVATED"

(* What the user's operation has read. *)
ReadsFollow ==
  LET user == task["user"] IN
  Reading /\ user.goal # "accepted" =>
    /\ \A o \in Officers : Follows(user.read[o], request[o])
    /\ object.class \in {"AcceptedProtection", "PendingRecovery", "ClaimedRecovery"} =>
         \A o \in Officers : user.read[o] \in Accepted \union {"unread"}
    /\ user.at = "proxy" => user.config = chain.config

(* A tick whose answer will be used. *)
Counts(tick) == tick.at = "fetch" /\ (tick.live \/ tick.goal = "stray")

(* Ticks that count run for a recovery that both officers accepted. *)
TicksFollow ==
  \A t \in Ticks : Counts(task[t]) =>
    /\ object.class \in Recovering
    /\ \A o \in Officers : /\ Follows(task[t].read[o], request[o])
                           /\ task[t].read[o] \in Accepted \union {"unread"}

(* Once waitForFullyReady resolved, and until the next operation. *)
Resolved == task["user"].goal = "resolved" => \A o \in Officers : request[o] = "ACTIVATED"

Faultless ==
  /\ down = {}
  /\ Stages /\ ChainMatches /\ RequestsMatch
  /\ ReadsFollow /\ TicksFollow /\ Resolved

-----------------------------------------------------------------------------
(* getInitialState when there are no requests. *)
LEMMA ClassOfNone ==
  ASSUME NEW read, \A o \in Officers : read[o] = "none", NEW config \in BOOLEAN
  PROVE  InitialClass(read, config, FALSE) = IF config THEN "ActiveProtection" ELSE "NoProtection"
BY DEF InitialClass, Having

(* Both accepted. *)
LEMMA ClassOfAccepted ==
  ASSUME NEW read, \A o \in Officers : read[o] \in Accepted, NEW config \in BOOLEAN,
         NEW claimed \in BOOLEAN, claimed => config
  PROVE  InitialClass(read, config, claimed) =
           IF claimed THEN "ClaimedRecovery" ELSE IF config THEN "PendingRecovery" ELSE "AcceptedProtection"
<1>1. Having(read, Accepted) = Officers
  BY DEF Having
<1>2. Having(read, {"none"}) # Officers
  BY DEF Having, Accepted, Officers
<1> QED BY <1>1, <1>2 DEF InitialClass

(* Both in progress, and read at different moments. *)
LEMMA ClassInProgress ==
  ASSUME NEW read, NEW now,
         \A o \in Officers : read[o] # "unread" /\ Follows(read[o], now[o]) /\ now[o] \in InProgress
  PROVE  LET class == InitialClass(read, FALSE, FALSE) IN
         /\ class \in Expected("PendingProtection")
         /\ AtRest(class, read, now)
<1> DEFINE class == InitialClass(read, FALSE, FALSE)
<1>1. \A o \in Officers : /\ read[o] \in InProgress
                          /\ read[o] \in {"ACCEPTED", "REJECTED"} => now[o] = read[o]
  BY DEF Follows, InProgress
<1>2. Having(read, {"none"}) # Officers
  BY <1>1 DEF Having, InProgress, Officers
<1>3. CASE Having(read, Accepted) = Officers
  <2>1. class = "AcceptedProtection"
    BY <1>2, <1>3 DEF InitialClass
  <2>2. \A o \in Officers : now[o] \in Accepted
    BY <1>1, <1>3 DEF Having, Accepted, InProgress
  <2> QED BY <2>1, <2>2 DEF Expected, AtRest
<1>4. CASE /\ Having(read, Accepted) # Officers
           /\ Having(read, {"PENDING"}) \union Having(read, Accepted) = Officers
  <2>1. class = "PendingProtection"
    BY <1>2, <1>4 DEF InitialClass
  <2> QED BY <2>1 DEF Expected, AtRest
<1>5. CASE /\ Having(read, Accepted) # Officers
           /\ Having(read, {"PENDING"}) \union Having(read, Accepted) # Officers
  <2>1. PICK o \in Officers : o \notin Having(read, {"PENDING"}) /\ o \notin Having(read, Accepted)
    BY <1>5 DEF Having
  <2>2. read[o] = "REJECTED" /\ now[o] = "REJECTED"
    BY <1>1, <2>1 DEF Having, Accepted, InProgress
  <2>3. Having(read, {"REJECTED"}) # {}
    BY <2>2 DEF Having
  <2>4. class = "RejectedRecovery"
    BY <1>2, <1>5, <2>3 DEF InitialClass
  <2>5. \A p \in Officers : read[p] # "none"
    BY <1>1 DEF InProgress
  <2> QED BY <2>2, <2>4, <2>5 DEF Expected, AtRest
<1> QED BY <1>3, <1>4, <1>5

-----------------------------------------------------------------------------
(* The user's operation begins: the ticks go on. *)
LEMMA UserGoes ==
  ASSUME TypeOK, NEW at, NEW goal, Go("user", at, goal)
  PROVE  /\ task'["user"].at = at /\ task'["user"].goal = goal /\ task'["user"].next = 1
         /\ task'["user"].read = Unread
         /\ \A t \in Ticks : task'[t] = task[t]
<1>1. "user" \in Tasks /\ "user" \notin Ticks /\ Ticks \subseteq Tasks
  BY ConstantsAssumption DEF Tasks
<1>2. task'["user"] = [Idle EXCEPT !.at = at, !.goal = goal, !.live = TRUE]
  BY <1>1 DEF Go, TypeOK
<1> QED BY <1>1, <1>2 DEF Go, TypeOK, Idle

(* The user's operation throws. *)
LEMMA UserThrows ==
  ASSUME TypeOK, Throw("user")
  PROVE  /\ task'["user"].at = "idle" /\ task'["user"].goal = "none"
         /\ \A t \in Ticks : task'[t] = task[t]
<1>1. "user" \in Tasks /\ "user" \notin Ticks /\ Ticks \subseteq Tasks
  BY ConstantsAssumption DEF Tasks
<1> QED BY <1>1 DEF Throw, TypeOK, Idle

(* No tick counts once the object was replaced. *)
LEMMA NoTickCounts ==
  ASSUME NEW tasks \in [Tasks -> Task], NEW t \in Ticks
  PROVE  /\ ~Counts(Superseded(tasks)[t])
         /\ \A how : ~Counts(Settled(Superseded(tasks), how)[t])
<1>1. "user" \in Tasks /\ "user" \notin Ticks /\ Ticks \subseteq Tasks
  BY ConstantsAssumption DEF Tasks
<1>2. ~Idle.live /\ Idle.goal # "stray" /\ Idle.at = "idle"
  BY DEF Idle
<1> DEFINE lost == [tasks[t] EXCEPT !.live = FALSE, !.read = None]
<1>3. ~lost.live /\ lost.goal = tasks[t].goal /\ lost.at = tasks[t].at
  BY <1>1 DEF Task
<1>4. Superseded(tasks)[t] = IF tasks[t].goal = "poll" THEN lost ELSE Idle
  BY <1>1 DEF Superseded
<1> HIDE DEF lost
<1>5. ~Counts(Superseded(tasks)[t]) /\ ~Superseded(tasks)[t].live
  BY <1>2, <1>3, <1>4 DEF Counts
<1>6. ASSUME NEW how PROVE ~Counts(Settled(Superseded(tasks), how)[t])
  <2> DEFINE after == Superseded(tasks)
  <2>1. \/ Settled(after, how)[t] = [Idle EXCEPT !.goal = how]
        \/ Settled(after, how)[t] = Idle
    BY <1>1, <1>5 DEF Settled
  <2>2. [Idle EXCEPT !.goal = how].at = "idle"
    BY DEF Idle
  <2> QED BY <1>2, <2>1, <2>2 DEF Counts
<1> QED BY <1>5, <1>6

(* The user's operation succeeds. *)
LEMMA UserSucceeds ==
  ASSUME TypeOK, NEW class, NEW requests, Succeed("user", class, requests), ~faults'
  PROVE  /\ object' = [class |-> class, requests |-> requests]
         /\ task'["user"].at = "idle" /\ task'["user"].goal = "none"
         /\ \A t \in Ticks : ~Counts(task'[t])
<1>1. "user" \in Tasks /\ "user" \notin Ticks /\ Ticks \subseteq Tasks
  BY ConstantsAssumption DEF Tasks
<1> DEFINE ended == [task EXCEPT !["user"] = Idle]
<1>2. ended \in [Tasks -> Task] /\ ended["user"] = Idle
  BY <1>1, IdleType DEF TypeOK
<1>3. object' = [class |-> class, requests |-> requests] /\ task' = Superseded(ended)
  BY DEF Succeed
<1> HIDE DEF ended
<1>4. task'["user"] = [Idle EXCEPT !.live = FALSE]
  BY <1>1, <1>2, <1>3 DEF Superseded
<1>5. task'["user"].at = "idle" /\ task'["user"].goal = "none"
  BY <1>4 DEF Idle
<1> QED BY <1>2, <1>3, <1>5, NoTickCounts

-----------------------------------------------------------------------------
(* Nothing is in flight: the user is idle, and waits for nothing. *)
LEMMA RestIsFaultless ==
  ASSUME task["user"].at = "idle", task["user"].goal # "resolved", down = {},
         chain.config <=> object.class \in Configured,
         chain.claimed <=> object.class = "ClaimedRecovery",
         AtRest(object.class, object.requests, request), TicksFollow
  PROVE  Faultless
BY DEF Faultless, Stages, ChainMatches, RequestsMatch, ReadsFollow, Resolved, Reading, Applied,
       HalfRequested, Replacing

(* The user's operation succeeds. *)
LEMMA SucceedsFaultless ==
  ASSUME TypeOK, NEW class, NEW requests, Succeed("user", class, requests), ~faults', down' = {},
         chain'.config <=> class \in Configured,
         chain'.claimed <=> class = "ClaimedRecovery",
         AtRest(class, requests, request')
  PROVE  Faultless'
<1>1. /\ object' = [class |-> class, requests |-> requests]
      /\ task'["user"].at = "idle" /\ task'["user"].goal = "none"
      /\ \A t \in Ticks : ~Counts(task'[t])
  BY UserSucceeds
<1>2. object'.class = class /\ object'.requests = requests
  BY <1>1
<1>3. TicksFollow'
  BY <1>1 DEF TicksFollow
<1> QED
  BY <1>1, <1>2, <1>3
     DEF Faultless, Stages, ChainMatches, RequestsMatch, ReadsFollow, Resolved, Reading, Applied,
         HalfRequested, Replacing

(* Ticks go on while the user begins, ends, or changes the requests. *)
LEMMA TicksGoOn ==
  ASSUME TicksFollow, \A t \in Ticks : task'[t] = task[t], object' = object,
         object.class \in Recovering => request' = request
  PROVE  TicksFollow'
BY DEF TicksFollow

(* The user's operation begins. *)
LEMMA BeginsFaultless ==
  ASSUME TypeOK, Faultless, NEW at, NEW goal, Go("user", at, goal),
         UNCHANGED <<request, chain, down, object>>,
         \/ task["user"].at = "idle"
         \/ task["user"].at = "submit" /\ task["user"].goal = "initiated",
         \/ at = "fetch" /\ goal \in {"NoProtection", "PendingProtection"} /\ goal = object.class
         \/ at = "fetch" /\ goal = "accepted" /\ object.class \in Configured
         \/ at = "submit" /\ goal \in Submission(object.class) /\ effect' = "open"
         \/ at = "request" /\ goal = "PendingProtection" /\ object.class = "NoProtection"
         \/ at = "cancel" /\ goal = "NoProtection"
         \/ at = "wait" /\ goal = "none" /\ object.class \in Recovering
  PROVE  Faultless'
<1>1. /\ task'["user"].at = at /\ task'["user"].goal = goal /\ task'["user"].next = 1
      /\ task'["user"].read = Unread
      /\ \A t \in Ticks : task'[t] = task[t]
  BY UserGoes
<1>2. goal # "resolved"
  BY DEF Submission
<1>3. TicksFollow'
  BY <1>1, TicksGoOn DEF Faultless
<1>4. Stages'
  BY <1>1 DEF Stages, Reading
<1>5. ChainMatches'
  BY <1>1 DEF Faultless, ChainMatches, Applied
<1>6. AtRest(object.class, object.requests, request)
  BY DEF Faultless, RequestsMatch, HalfRequested, Replacing, Reading
<1>7. RequestsMatch'
  BY <1>1, <1>6 DEF RequestsMatch, HalfRequested, Replacing, Reading
<1>8. ReadsFollow'
  BY <1>1 DEF ReadsFollow, Reading, Unread, Follows
<1> QED BY <1>1, <1>2, <1>3, <1>4, <1>5, <1>7, <1>8 DEF Faultless, Resolved

-----------------------------------------------------------------------------
(* getInitialState was called on reads that followed the facts: the class  *)
(* is expected, and stands for what is in the backends and on chain.       *)
LEMMA FetchFaultless ==
  ASSUME IInv, Faultless, FetchDone, ~faults'
  PROVE  Faultless'
<1> DEFINE user == task["user"]
           class == InitialClass(user.read, user.config, chain.claimed)
<1>u. "user" \in Tasks
  BY DEF Tasks
<1>1. /\ user.at = "proxy" /\ UNCHANGED <<request, chain, down>>
      /\ user.goal \in {"NoProtection", "PendingProtection", "reload"}
      /\ Having(user.read, {"unread"}) = {}
  BY DEF FetchDone, remote, IInv, InFlight
<1>2. /\ TypeOK /\ Reading /\ ~HalfRequested
      /\ chain.config <=> object.class \in Configured
      /\ chain.claimed <=> object.class = "ClaimedRecovery"
      /\ object.class \in Classes
      /\ chain.config \in BOOLEAN /\ chain.claimed \in BOOLEAN
  BY <1>1 DEF IInv, TypeOK, Reading, HalfRequested, Faultless, ChainMatches, Applied
<1>3. /\ \A o \in Officers : Follows(user.read[o], request[o]) /\ user.read[o] # "unread"
      /\ user.config = chain.config
      /\ object.class \in {"AcceptedProtection", "PendingRecovery", "ClaimedRecovery"} =>
           \A o \in Officers : user.read[o] \in Accepted \union {"unread"}
  BY <1>1, <1>2 DEF Faultless, ReadsFollow, Having
<1>4. /\ user.goal = "NoProtection" => object.class \in {"NoProtection", "RejectedRecovery"}
      /\ user.goal = "PendingProtection" => object.class \in {"PendingProtection", "RejectedRecovery"}
  BY <1>1, <1>2 DEF Faultless, Stages
<1>5. /\ class \in Expected(user.goal)
      /\ chain.config <=> class \in Configured
      /\ chain.claimed <=> class = "ClaimedRecovery"
      /\ AtRest(class, user.read, request)
  <2>1. CASE \A o \in Officers : request[o] = "none"
    <3>1. \A o \in Officers : user.read[o] = "none"
      BY <1>3, <2>1 DEF Follows
    <3>2. \/ object.class \in {"NoProtection", "ActiveProtection"}
          \/ object.class = "RejectedRecovery" /\ user.goal = "NoProtection"
      <4>1. \E o \in Officers : request[o] \notin InProgress /\ request[o] \notin Accepted
        BY <2>1 DEF Officers, InProgress, Accepted
      <4>2. RequestsMatch
        BY DEF Faultless
      <4>3. CASE Replacing("NoProtection")
        BY <4>3 DEF Replacing
      <4>4. CASE ~Replacing("NoProtection")
        <5>1. AtRest(object.class, object.requests, request)
          BY <1>2, <4>1, <4>2, <4>4 DEF RequestsMatch
        <5>2. /\ object.class \notin {"PendingProtection", "RejectedRecovery"}
              /\ object.class \notin {"AcceptedProtection", "PendingRecovery", "ClaimedRecovery"}
              /\ object.class # "UnavailableProtection"
          BY <4>1, <5>1 DEF AtRest
        <5>3. object.class \in Classes
          BY <1>2
        <5> QED BY <5>2, <5>3 DEF Classes
      <4> QED BY <4>3, <4>4
    <3>3. ~chain.claimed /\ (chain.config <=> object.class = "ActiveProtection")
      BY <1>2, <3>2 DEF Configured
    <3> HIDE DEF user
    <3>4. class = IF chain.config THEN "ActiveProtection" ELSE "NoProtection"
      BY <1>2, <1>3, <3>1, <3>3, ClassOfNone
    <3> HIDE DEF class
    <3>5. user.goal = "reload" \/ (user.goal = "NoProtection" /\ ~chain.config)
      BY <1>1, <1>4, <3>2, <3>3
    <3>6. class \in Expected(user.goal)
      BY <3>4, <3>5 DEF Expected, Classes
    <3> QED BY <2>1, <3>3, <3>4, <3>6 DEF Configured, AtRest
  <2>2. CASE object.class \in {"PendingProtection", "RejectedRecovery"}
             /\ \E o \in Officers : request[o] # "none"
    <3>1. \A o \in Officers : request[o] \in InProgress
      BY <1>2, <2>2 DEF Faultless, RequestsMatch, Replacing, AtRest
    <3>2. ~chain.claimed /\ ~chain.config
      BY <1>2, <2>2 DEF Configured
    <3>3. user.goal \in {"reload", "PendingProtection"}
      BY <1>1, <1>2, <1>4, <2>2 DEF Faultless, RequestsMatch, Replacing
    <3> HIDE DEF user
    <3>4. class \in Expected("PendingProtection") /\ AtRest(class, user.read, request)
      <4>1. class = InitialClass(user.read, FALSE, FALSE)
        BY <1>2, <1>3, <3>2
      <4> HIDE DEF class
      <4> QED BY <1>3, <3>1, <4>1, ClassInProgress
    <3> HIDE DEF class
    <3>5. class \notin Configured
      BY <3>4 DEF Expected, Configured
    <3>6. class \in Expected(user.goal)
      BY <3>3, <3>4 DEF Expected, Classes
    <3> QED BY <3>2, <3>4, <3>5, <3>6 DEF Configured
  <2>3. CASE object.class \in {"AcceptedProtection", "PendingRecovery", "ClaimedRecovery"}
    <3>1. \A o \in Officers : request[o] \in Accepted /\ user.read[o] \in Accepted
      BY <1>2, <1>3, <2>3 DEF Faultless, RequestsMatch, Replacing, AtRest
    <3>2. chain.claimed => chain.config
      BY <1>2 DEF Configured
    <3>3. user.goal = "reload"
      BY <1>1, <1>4, <2>3
    <3> HIDE DEF user
    <3>4. class = object.class
      <4>1. class = IF chain.claimed THEN "ClaimedRecovery"
                    ELSE IF chain.config THEN "PendingRecovery" ELSE "AcceptedProtection"
        BY <1>2, <1>3, <3>1, <3>2, ClassOfAccepted
      <4> HIDE DEF class
      <4> QED BY <1>2, <2>3, <4>1 DEF Configured
    <3> HIDE DEF class
    <3>5. class \in Expected(user.goal)
      BY <2>3, <3>3, <3>4 DEF Expected, Classes
    <3>6. AtRest(class, user.read, request)
      BY <2>3, <3>1, <3>4 DEF AtRest
    <3> QED BY <1>2, <3>4, <3>5, <3>6
  <2>4. \/ \A o \in Officers : request[o] = "none"
        \/ object.class \in {"PendingProtection", "RejectedRecovery"}
           /\ \E o \in Officers : request[o] # "none"
        \/ object.class \in {"AcceptedProtection", "PendingRecovery", "ClaimedRecovery"}
    BY <1>2 DEF Faultless, RequestsMatch, Replacing, AtRest, Classes
  <2> QED BY <2>1, <2>2, <2>3, <2>4
<1>6. Succeed("user", class, user.read)
  BY <1>5 DEF FetchDone
<1>7. down' = {}
  BY <1>1 DEF Faultless
<1> HIDE DEF class, user
<1> QED BY <1>1, <1>2, <1>5, <1>6, <1>7, SucceedsFaultless

(* A node answered: what was read is what is in the backend. *)
LEMMA AnswerFaultless ==
  ASSUME IInv, Faultless, NEW t \in Tasks, NEW o \in Officers, NodeAnswers(t, o)
  PROVE  Faultless'
<1>1. "user" \in Tasks /\ "user" \notin Ticks /\ Ticks \subseteq Tasks
  BY ConstantsAssumption DEF Tasks
<1> DEFINE status == IF Partial(t) /\ request[o] \notin Accepted THEN "none" ELSE request[o]
           read == [task[t].read EXCEPT ![o] = status]
<1>2. /\ task' = [task EXCEPT ![t].read[o] = status]
      /\ UNCHANGED <<request, chain, effect, object, down>>
      /\ task[t].at = "fetch"
  BY DEF NodeAnswers, remote
<1>3. task \in [Tasks -> Task] /\ task[t] \in Task
  BY DEF IInv, TypeOK
<1>4. /\ task'[t].at = task[t].at /\ task'[t].goal = task[t].goal /\ task'[t].live = task[t].live
      /\ task'[t].config = task[t].config /\ task'[t].next = task[t].next
      /\ task'[t].read = read
      /\ \A u \in Tasks : u # t => task'[u] = task[u]
  BY <1>2, <1>3 DEF Task
<1>5. read[o] = status /\ \A p \in Officers : p # o => read[p] = task[t].read[p]
  BY <1>3 DEF Task
<1> HIDE DEF read
<1>6. /\ task'["user"].at = task["user"].at /\ task'["user"].goal = task["user"].goal
      /\ task'["user"].config = task["user"].config /\ task'["user"].next = task["user"].next
  BY <1>1, <1>4
<1>7. down' = {} /\ Stages' /\ ChainMatches' /\ RequestsMatch' /\ Resolved'
  <2>1. down' = {}
    BY <1>2 DEF Faultless
  <2>2. Stages'
    BY <1>2, <1>6 DEF Faultless, Stages, Reading
  <2>3. ChainMatches'
    BY <1>2, <1>6 DEF Faultless, ChainMatches, Applied
  <2>4. RequestsMatch'
    BY <1>2, <1>6 DEF Faultless, RequestsMatch, HalfRequested, Replacing, Reading
  <2>5. Resolved'
    BY <1>2, <1>6 DEF Faultless, Resolved
  <2> QED BY <2>1, <2>2, <2>3, <2>4, <2>5
<1>8. ReadsFollow'
  <2>1. CASE t # "user"
    BY <1>1, <1>2, <1>4, <2>1 DEF Faultless, ReadsFollow, Reading
  <2>2. CASE t = "user" /\ task["user"].goal # "accepted"
    <3>1. task["user"].goal \in {"NoProtection", "PendingProtection", "reload"} /\ Reading /\ ~HalfRequested
      BY <1>2, <2>2 DEF IInv, InFlight, Reading, HalfRequested
    <3>2. status = request[o]
      BY <2>2, <3>1 DEF Partial
    <3>3. object.class \in {"AcceptedProtection", "PendingRecovery", "ClaimedRecovery"} =>
            request[o] \in Accepted
      BY <3>1 DEF Faultless, RequestsMatch, Replacing, AtRest
    <3> HIDE DEF status
    <3>4. \A p \in Officers : Follows(read[p], request[p])
      BY <1>5, <2>2, <3>1, <3>2 DEF Faultless, ReadsFollow, Follows
    <3>5. object.class \in {"AcceptedProtection", "PendingRecovery", "ClaimedRecovery"} =>
            \A p \in Officers : read[p] \in Accepted \union {"unread"}
      BY <1>5, <2>2, <3>1, <3>2, <3>3 DEF Faultless, ReadsFollow
    <3> QED BY <1>2, <1>4, <2>2, <3>4, <3>5 DEF ReadsFollow
  <2>3. CASE t = "user" /\ task["user"].goal = "accepted"
    BY <1>6, <2>3 DEF ReadsFollow
  <2> QED BY <2>1, <2>2, <2>3
<1>9. TicksFollow'
  <2> SUFFICES ASSUME NEW u \in Ticks, Counts(task'[u])
               PROVE  /\ object'.class \in Recovering
                      /\ \A p \in Officers : /\ Follows(task'[u].read[p], request'[p])
                                             /\ task'[u].read[p] \in Accepted \union {"unread"}
    BY DEF TicksFollow
  <2>1. Counts(task[u])
    BY <1>1, <1>4 DEF Counts
  <2>2. /\ object.class \in Recovering
        /\ \A p \in Officers : /\ Follows(task[u].read[p], request[p])
                               /\ task[u].read[p] \in Accepted \union {"unread"}
    BY <2>1 DEF Faultless, TicksFollow
  <2>3. CASE u # t
    BY <1>1, <1>2, <1>4, <2>2, <2>3
  <2>4. CASE u = t
    <3>1. ~HalfRequested /\ AtRest(object.class, object.requests, request)
      BY <2>2 DEF Faultless, Stages, RequestsMatch, HalfRequested, Replacing, Recovering
    <3>2. request[o] \in Accepted
      BY <2>2, <3>1 DEF AtRest, Recovering
    <3>3. read[o] = request[o]
      BY <1>5, <3>2
    <3>4. \A p \in Officers : Follows(read[p], request[p]) /\ read[p] \in Accepted \union {"unread"}
      BY <1>5, <2>2, <2>4, <3>2, <3>3 DEF Follows
    <3> QED BY <1>2, <1>4, <2>2, <2>4, <3>4
  <2> QED BY <2>3, <2>4
<1> QED BY <1>7, <1>8, <1>9 DEF Faultless

(* An officer decides, or a backend sees the activation. *)
LEMMA BackendFaultless ==
  ASSUME IInv, Faultless, NEW o \in Officers, OfficerDecides(o) \/ BackendActivates(o)
  PROVE  Faultless'
<1>1. UNCHANGED <<chain, effect, down, object, task>> /\ request \in [Officers -> Statuses]
  BY DEF OfficerDecides, BackendActivates, UnchangedClient, IInv, TypeOK
<1>2. /\ \A p \in Officers : p # o => request'[p] = request[p]
      /\ \/ request[o] = "PENDING" /\ request'[o] \in {"ACCEPTED", "REJECTED"}
         \/ request[o] = "ACCEPTED" /\ request'[o] = "ACTIVATED" /\ chain.config
  BY <1>1 DEF OfficerDecides, BackendActivates
<1>3. \A p \in Officers : /\ request[p] = "none" => request'[p] = "none"
                          /\ request[p] = "ACTIVATED" => request'[p] = "ACTIVATED"
                          /\ request[p] = "REJECTED" => request'[p] = "REJECTED"
                          /\ request[p] \in Accepted => request'[p] \in Accepted
  BY <1>2 DEF Accepted
<1>4. ASSUME NEW p \in Officers, NEW read, Follows(read, request[p])
      PROVE  Follows(read, request'[p])
  BY <1>2, <1>4 DEF Follows
<1>5. ~chain.config =>
        \A p \in Officers : request[p] \in InProgress => request'[p] \in InProgress
  BY <1>2 DEF InProgress
<1>6. RequestsMatch'
  <2>1. /\ HalfRequested => ~chain.config
        /\ Replacing("NoProtection") \/ Replacing("PendingProtection") => ~chain.config
        /\ object.class \in {"PendingProtection", "RejectedRecovery"}
             => ~chain.config \/ task["user"].at = "submit"
    BY DEF Faultless, Stages, ChainMatches, Applied, HalfRequested, Replacing, Reading, Configured
  <2>2. object.class \in {"PendingProtection", "RejectedRecovery"} => ~chain.config
    BY <2>1 DEF Faultless, Stages, ChainMatches, Applied, Submission, Configured
  <2>3. /\ HalfRequested => request'[1] \in InProgress /\ request'[2] = "none"
        /\ Replacing("NoProtection") => \A p \in Officers : request'[p] = "none"
        /\ Replacing("PendingProtection") => \A p \in Officers : request'[p] \in InProgress
    BY <1>3, <1>5, <2>1 DEF Faultless, RequestsMatch, Officers
  <2>4. ASSUME AtRest(object.class, object.requests, request)
        PROVE  AtRest(object.class, object.requests, request')
    BY <1>3, <1>5, <2>2, <2>4 DEF AtRest
  <2>5. (HalfRequested' <=> HalfRequested) /\ \A goal : Replacing(goal)' <=> Replacing(goal)
    BY <1>1 DEF HalfRequested, Replacing, Reading
  <2> QED BY <1>1, <2>3, <2>4, <2>5 DEF Faultless, RequestsMatch, HalfRequested, Replacing, Reading
<1>7. ReadsFollow'
  BY <1>1, <1>4 DEF Faultless, ReadsFollow, Reading
<1>8. TicksFollow'
  BY <1>1, <1>4 DEF Faultless, TicksFollow
<1>9. Stages' /\ ChainMatches' /\ Resolved' /\ down' = {}
  BY <1>1, <1>3 DEF Faultless, Stages, ChainMatches, Resolved, Reading, Applied
<1> QED BY <1>6, <1>7, <1>8, <1>9 DEF Faultless

(* A tick begins, ends, or ends once nobody waits for it. *)
LEMMA TickFaultless ==
  ASSUME IInv, Faultless, NEW t \in Ticks, ~faults',
         Tick(t) \/ TickProduces(t) \/ TickThrows(t) \/ StrayTickEnds(t)
  PROVE  Faultless'
<1>1. "user" \in Tasks /\ "user" \notin Ticks /\ Ticks \subseteq Tasks /\ t \in Tasks
  BY ConstantsAssumption DEF Tasks
<1>2. TypeOK /\ task \in [Tasks -> Task]
  BY DEF IInv, TypeOK
<1>3. CASE Tick(t)
  <2>1. task' = [task EXCEPT ![t] = [Idle EXCEPT !.at = "fetch", !.goal = "poll", !.live = TRUE]]
    BY <1>3 DEF Tick, Go
  <2>2. /\ task'[t].read = Unread
        /\ \A u \in Tasks : u # t => task'[u] = task[u]
    BY <1>1, <1>2, <2>1 DEF Idle
  <2>3. task'["user"] = task["user"] /\ UNCHANGED <<request, chain, effect, down, object>>
    BY <1>1, <1>3, <2>2 DEF Tick, remote
  <2>4. object.class \in Recovering
    BY <1>3 DEF Tick, Interval, Faultless, Stages
  <2>5. \A o \in Officers : /\ Follows(Unread[o], request[o])
                            /\ Unread[o] \in Accepted \union {"unread"}
    BY DEF Unread, Follows
  <2>6. TicksFollow'
    BY <1>1, <2>2, <2>3, <2>4, <2>5 DEF Faultless, TicksFollow
  <2> QED BY <2>3, <2>6 DEF Faultless, Stages, ChainMatches, RequestsMatch, ReadsFollow, Resolved, Reading,
                            Applied, HalfRequested, Replacing
<1>4. CASE TickThrows(t)
  BY <1>4 DEF TickThrows
<1>5. CASE TickProduces(t) \/ StrayTickEnds(t)
  <2> DEFINE after == Superseded([task EXCEPT ![t] = Idle])
  <2>1. Counts(task[t]) /\ AllRead(t)
    BY <1>5 DEF TickProduces, Polling, StrayTickEnds, AllRead, Counts
  <2>2. /\ object.class \in Recovering
        /\ \A o \in Officers : Follows(task[t].read[o], request[o]) /\ task[t].read[o] \in Accepted
    BY <2>1 DEF Faultless, TicksFollow, AllRead, Having
  <2>3. [task EXCEPT ![t] = Idle] \in [Tasks -> Task]
    BY <1>1, <1>2, IdleType
  <2>4. after \in [Tasks -> Task] /\ KeepsUser(after)
    BY <1>1, <1>2, <2>3, SupersededType, SupersededFrame DEF IInv
  <2>5. \A u \in Ticks : ~Counts(after[u]) /\ \A how : ~Counts(Settled(after, how)[u])
    BY <2>3, NoTickCounts
  <2>6. \/ task' = after
        \/ task' = Settled(after, "resolved") /\ FullyReady(task[t].read)
        \/ task' = Settled(after, "rejected")
    BY <1>5 DEF TickProduces, StrayTickEnds
  <2>7. UNCHANGED <<request, chain, effect, down>> /\ object'.class = object.class
    BY <1>2, <1>5 DEF TickProduces, StrayTickEnds, remote, TypeOK
  <2>8. \A how : \/ /\ after["user"].at = "wait"
                    /\ Settled(after, how)["user"].at = "idle" /\ Settled(after, how)["user"].goal = how
                 \/ Settled(after, how)["user"] = after["user"]
    BY <1>1 DEF Settled, Idle
  <2> HIDE DEF after
  <2>9. \/ KeepsUser(task')
        \/ /\ task["user"].at = "wait" /\ task'["user"].at = "idle"
           /\ \/ task'["user"].goal = "rejected"
              \/ task'["user"].goal = "resolved" /\ FullyReady(task[t].read)
    BY <2>4, <2>6, <2>8 DEF KeepsUser
  <2>10. TicksFollow'
    BY <2>5, <2>6 DEF TicksFollow
  <2>11. task["user"].at # "request"
    BY <2>2 DEF Faultless, Stages, Recovering
  <2>12. AtRest(object.class, object.requests, request)
    BY <2>2, <2>11 DEF Faultless, RequestsMatch, HalfRequested, Replacing, Recovering
  <2>13. AtRest(object'.class, object'.requests, request')
    BY <2>2, <2>7, <2>12 DEF AtRest, Recovering
  <2>14. task'["user"].at # "request" /\ RequestsMatch'
    BY <2>2, <2>7, <2>9, <2>11, <2>13 DEF RequestsMatch, HalfRequested, Replacing, KeepsUser, Recovering
  <2>15. Resolved'
    <3>1. FullyReady(task[t].read) => \A o \in Officers : request[o] = "ACTIVATED"
      BY <2>2 DEF FullyReady, Follows, Accepted
    <3> QED BY <2>7, <2>9, <3>1 DEF Faultless, Resolved, KeepsUser
  <2>16. Stages'
    BY <2>7, <2>9 DEF Faultless, Stages, Reading, KeepsUser
  <2>17. ChainMatches'
    <3>1. object.class \in Configured
      BY <2>2 DEF Recovering, Configured
    <3> QED BY <2>7, <2>9, <3>1 DEF Faultless, ChainMatches, Applied, KeepsUser
  <2>18. ReadsFollow'
    BY <2>7, <2>9 DEF Faultless, ReadsFollow, Reading, KeepsUser
  <2> QED BY <2>7, <2>10, <2>14, <2>15, <2>16, <2>17, <2>18 DEF Faultless
<1> QED BY <1>3, <1>4, <1>5

-----------------------------------------------------------------------------
(* The steps of requestRecovery, of _cancel and of _resubmit. *)
LEMMA RequestFaultless ==
  ASSUME IInv, Faultless, ~faults',
         \/ RequestServed \/ Cancelled
         \/ \E o \in Officers : Resubmit(o)
  PROVE  Faultless'
<1>1. "user" \in Tasks /\ "user" \notin Ticks /\ Ticks \subseteq Tasks
  BY ConstantsAssumption DEF Tasks
<1>2. /\ TypeOK /\ task \in [Tasks -> Task] /\ task["user"] \in Task
      /\ request \in [Officers -> Statuses] /\ 1 \in Officers /\ 2 \in Officers
  BY <1>1 DEF IInv, TypeOK, Officers
<1>3. CASE RequestServed
  <2>1. /\ task["user"].at = "request" /\ UNCHANGED <<chain, effect, outcome, down>>
        /\ request' = Requested(task["user"].next)
    BY <1>3 DEF RequestServed
  <2>2. /\ object.class = "NoProtection" /\ down = {} /\ ~chain.config /\ ~chain.claimed
        /\ task["user"].next \in {1, 2}
    BY <1>2, <2>1 DEF Faultless, Stages, ChainMatches, Applied, Task, Officers, Configured
  <2>3. CASE task["user"].next = 1
    <3>1. task' = [task EXCEPT !["user"].next = 2] /\ UNCHANGED <<object, faults>>
      BY <1>3, <2>3 DEF RequestServed
    <3>2. /\ task'["user"].at = "request" /\ task'["user"].next = 2
          /\ task'["user"].goal = task["user"].goal
          /\ \A t \in Ticks : task'[t] = task[t]
      BY <1>1, <1>2, <2>1, <3>1 DEF Task
    <3>3. \A o \in Officers : request[o] = "none"
      BY <2>1, <2>2, <2>3 DEF Faultless, RequestsMatch, HalfRequested, Replacing, Reading, AtRest
    <3>4. request'[1] \in InProgress /\ request'[2] = "none"
      BY <1>2, <2>1, <2>3, <3>3 DEF Requested, InProgress
    <3>5. TicksFollow'
      BY <2>2, <3>1, <3>2, TicksGoOn DEF Faultless, Recovering
    <3>6. RequestsMatch'
      BY <3>2, <3>4 DEF RequestsMatch, HalfRequested, Replacing, Reading
    <3>7. Stages' /\ ChainMatches' /\ ReadsFollow'
      BY <2>1, <2>2, <3>1, <3>2 DEF Stages, ChainMatches, ReadsFollow, Applied, Reading, Configured
    <3>8. task["user"].goal # "resolved"
      BY <2>1, <3>3, <1>2 DEF Faultless, Resolved
    <3> QED BY <2>1, <2>2, <3>2, <3>5, <3>6, <3>7, <3>8 DEF Faultless, Resolved
  <2>4. CASE task["user"].next = 2
    <3>1. request[1] \in InProgress
      BY <2>1, <2>4 DEF Faultless, RequestsMatch, HalfRequested
    <3>2. \A o \in Officers : request'[o] \in InProgress
      BY <1>2, <2>1, <2>4, <3>1 DEF Requested, InProgress, Officers
    <3>3. Succeed("user", "PendingProtection", [p \in Officers |-> "PENDING"])
      BY <1>3, <2>4 DEF RequestServed
    <3>4. AtRest("PendingProtection", [p \in Officers |-> "PENDING"], request')
      BY <3>2 DEF AtRest
    <3> QED BY <1>2, <2>1, <2>2, <3>3, <3>4, SucceedsFaultless DEF Configured
  <2> QED BY <2>2, <2>3, <2>4
<1>4. CASE Cancelled
  <2>1. /\ task["user"].at = "cancel" /\ UNCHANGED <<chain, effect, outcome, down, object>>
        /\ request' = Without(Known)
        /\ task' = [task EXCEPT !["user"].at = "fetch"]
    BY <1>4 DEF Cancelled
  <2>2. /\ task'["user"].at = "fetch" /\ task'["user"].goal = task["user"].goal
        /\ task'["user"].read = task["user"].read
        /\ \A t \in Ticks : task'[t] = task[t]
    BY <1>1, <1>2, <2>1 DEF Task
  <2>3. /\ object.class = "RejectedRecovery" /\ task["user"].goal = "NoProtection"
        /\ task["user"].read = Unread
    BY <2>1 DEF IInv, InFlight
  <2>4. \A o \in Officers : object.requests[o] # "none"
    BY <2>1, <2>3 DEF Faultless, RequestsMatch, HalfRequested, Replacing, Reading, AtRest
  <2>5. \A o \in Officers : request'[o] = "none"
    BY <2>1, <2>4 DEF Without, Known
  <2>6. TicksFollow'
    BY <2>1, <2>2, <2>3, TicksGoOn DEF Faultless, Recovering
  <2>7. RequestsMatch'
    BY <2>1, <2>2, <2>3, <2>5 DEF RequestsMatch, HalfRequested, Replacing, Reading
  <2>8. Stages' /\ ChainMatches'
    BY <2>1, <2>2, <2>3 DEF Faultless, Stages, ChainMatches, Applied, Reading
  <2>9. ReadsFollow'
    BY <2>1, <2>2, <2>3 DEF ReadsFollow, Reading, Unread, Follows
  <2> QED BY <2>1, <2>2, <2>3, <2>6, <2>7, <2>8, <2>9 DEF Faultless, Resolved
<1>5. ASSUME NEW o \in Officers, Resubmit(o) PROVE Faultless'
  <2>1. /\ task["user"].at = "idle" /\ object.class = "RejectedRecovery"
        /\ request' = Requested(o) /\ Go("user", "fetch", "PendingProtection")
        /\ UNCHANGED <<chain, effect, outcome, down, object>>
    BY <1>5 DEF Resubmit, Ready
  <2>2. /\ task'["user"].at = "fetch" /\ task'["user"].goal = "PendingProtection"
        /\ task'["user"].read = Unread
        /\ \A t \in Ticks : task'[t] = task[t]
    BY <1>2, <2>1, UserGoes
  <2>3. \A p \in Officers : request[p] \in InProgress
    BY <2>1 DEF Faultless, RequestsMatch, HalfRequested, Replacing, Reading, AtRest
  <2>4. \A p \in Officers : request'[p] \in InProgress
    BY <1>2, <2>1, <2>3 DEF Requested, InProgress
  <2>5. TicksFollow'
    BY <2>1, <2>2, TicksGoOn DEF Faultless, Recovering
  <2>6. RequestsMatch'
    BY <2>1, <2>2, <2>4 DEF RequestsMatch, HalfRequested, Replacing, Reading
  <2>7. Stages' /\ ChainMatches'
    BY <2>1, <2>2 DEF Faultless, Stages, ChainMatches, Applied, Reading
  <2>8. ReadsFollow'
    BY <2>1, <2>2 DEF ReadsFollow, Reading, Unread, Follows
  <2> QED BY <2>1, <2>2, <2>5, <2>6, <2>7, <2>8 DEF Faultless, Resolved
<1> QED BY <1>3, <1>4, <1>5

(* An extrinsic is decided on chain, and its promise settles. *)
LEMMA SubmissionFaultless ==
  ASSUME IInv, Faultless, ~faults', Decide \/ Submitted \/ SubmissionFails
  PROVE  Faultless'
<1> DEFINE goal == task["user"].goal
<1>1. TypeOK /\ "user" \in Tasks
  BY DEF IInv, Tasks
<1>2. task["user"].at = "submit" /\ goal \in Submission(object.class) /\ UNCHANGED <<request, down>>
  BY DEF Decide, Submitted, SubmissionFails, Faultless, Stages, UnchangedClient
<1>3. AtRest(object.class, object.requests, request)
  BY <1>2 DEF Faultless, RequestsMatch, HalfRequested, Replacing, Reading
<1>4. \/ object.class = "NoProtection" /\ goal \in {"ActiveProtection", "initiated"}
      \/ object.class = "AcceptedProtection" /\ goal = "PendingRecovery"
      \/ object.class = "PendingRecovery" /\ goal = "ClaimedRecovery"
  BY <1>2 DEF Submission
<1>5. CASE Decide
  <2>1. /\ UNCHANGED <<object, task>> /\ effect = "open"
        /\ \/ effect' = "applied" /\ chain' = Effective(goal)
           \/ effect' # "applied" /\ chain' = chain
    BY <1>5 DEF Decide, UnchangedClient, Extrinsic!Decide
  <2>2. /\ chain.config <=> object.class \in Configured
        /\ chain.claimed <=> object.class = "ClaimedRecovery"
    BY <2>1 DEF Faultless, ChainMatches, Applied
  <2>3. ChainMatches'
    <3>1. CASE effect' = "applied"
      <4>1. /\ chain'.config = IF goal \in {"ActiveProtection", "PendingRecovery"} THEN TRUE ELSE chain.config
            /\ chain'.claimed = IF goal = "ClaimedRecovery" THEN TRUE ELSE chain.claimed
        BY <1>1, <1>4, <2>1, <3>1 DEF Effective, TypeOK
      <4> QED BY <1>2, <2>1, <2>2, <3>1, <4>1 DEF ChainMatches, Applied
    <3>2. CASE effect' # "applied"
      BY <2>1, <2>2, <3>2 DEF ChainMatches, Applied
    <3> QED BY <3>1, <3>2
  <2>4. Stages' /\ RequestsMatch' /\ ReadsFollow' /\ TicksFollow' /\ Resolved'
    BY <1>2, <2>1 DEF Faultless, Stages, RequestsMatch, ReadsFollow, TicksFollow, Resolved, Reading,
                      HalfRequested, Replacing
  <2> QED BY <1>2, <2>3, <2>4 DEF Faultless
<1>6. CASE Submitted
  <2>1. UNCHANGED <<chain, request, down>> /\ effect = "applied"
    BY <1>6 DEF Submitted, Extrinsic!Resolve
  <2>2. CASE goal = "initiated"
    <3>1. Go("user", "request", "PendingProtection") /\ UNCHANGED object
      BY <1>6, <2>2 DEF Submitted
    <3> QED BY <1>1, <1>2, <1>4, <2>1, <2>2, <3>1, BeginsFaultless
  <2>3. CASE goal # "initiated"
    <3>1. Succeed("user", goal, object.requests)
      BY <1>6, <2>3 DEF Submitted, ClassAfter
    <3>2. /\ chain.config <=> goal \in Configured
          /\ chain.claimed <=> goal = "ClaimedRecovery"
      BY <1>2, <1>4, <2>1, <2>3 DEF Faultless, ChainMatches, Applied, Configured
    <3>3. AtRest(goal, object.requests, request)
      BY <1>3, <1>4, <2>3 DEF AtRest
    <3>4. down' = {}
      BY <2>1 DEF Faultless
    <3> HIDE DEF goal
    <3> QED BY <1>1, <2>1, <3>1, <3>2, <3>3, <3>4, SucceedsFaultless
  <2> QED BY <2>2, <2>3
<1>7. CASE SubmissionFails
  <2>1. UNCHANGED <<chain, object>> /\ effect # "applied" /\ Throw("user")
    BY <1>7 DEF SubmissionFails, Extrinsic!Reject, Extrinsic!Refuse
  <2>2. /\ task'["user"].at = "idle" /\ task'["user"].goal = "none"
        /\ \A t \in Ticks : task'[t] = task[t]
    BY <1>1, <2>1, UserThrows
  <2>3. TicksFollow'
    BY <1>2, <2>1, <2>2, TicksGoOn DEF Faultless
  <2>4. ChainMatches'
    BY <2>1, <2>2 DEF Faultless, ChainMatches, Applied
  <2>5. Stages' /\ RequestsMatch' /\ ReadsFollow' /\ Resolved'
    BY <1>2, <1>3, <2>1, <2>2 DEF Stages, RequestsMatch, ReadsFollow, Resolved, Reading, HalfRequested,
                                  Replacing
  <2> QED BY <1>2, <2>3, <2>4, <2>5 DEF Faultless
<1> QED BY <1>5, <1>6, <1>7

-----------------------------------------------------------------------------
(* The inductive invariant of the runs that fail nothing. *)
NoFaultInv == ~faults => Faultless

(* What failed stays so. *)
LEMMA FaultsStay ==
  ASSUME [Next]_vars, ~faults'
  PROVE  ~faults
BY DEF Next, vars, remote, OfficerDecides, BackendActivates, UnchangedClient, UpdateNetworkState, Refresh,
       Reload, ConfigRead, FetchDone, FetchAcceptedDone, NodeAnswers, NodeFails, Submit, Decide, Submitted,
       SubmissionFails, RequestAgain, RequestServed, RequestFails, Cancel, Cancelled, CancelFails, Resubmit,
       Wait, Tick, TickProduces, TickThrows, StrayTickEnds, Succeed

(* Every step that fails nothing keeps the facts and the object together. *)
LEMMA NoFaultStep == IInv /\ NoFaultInv /\ [Next]_vars => NoFaultInv'
<1> SUFFICES ASSUME IInv, NoFaultInv, [Next]_vars, ~faults' PROVE Faultless'
  BY DEF NoFaultInv
<1>a. ~faults /\ Faultless
  BY FaultsStay DEF NoFaultInv
<1>u. "user" \in Tasks /\ "user" \notin Ticks /\ Ticks \subseteq Tasks /\ TypeOK
  BY ConstantsAssumption DEF Tasks, IInv
<1>0. CASE UNCHANGED vars
  BY <1>0, <1>a DEF vars, remote, Faultless, Stages, ChainMatches, RequestsMatch, ReadsFollow, TicksFollow,
                    Resolved, Reading, Applied, HalfRequested, Replacing
<1>1. ASSUME NEW o \in Officers, OfficerDecides(o) \/ BackendActivates(o) PROVE Faultless'
  BY <1>1, <1>a, BackendFaultless
<1>2. CASE UpdateNetworkState
  <2>1. down' = {} /\ UNCHANGED <<request, chain, effect, object, task>>
    BY <1>2 DEF UpdateNetworkState, remote
  <2> QED BY <1>a, <2>1 DEF Faultless, Stages, ChainMatches, RequestsMatch, ReadsFollow, TicksFollow,
                            Resolved, Reading, Applied, HalfRequested, Replacing
<1>3. CASE Refresh
  <2>1. UNCHANGED <<request, chain, down, object>> /\ task["user"].at = "idle"
    BY <1>3 DEF Refresh, Ready, remote
  <2>2. \/ /\ object.class \in {"NoProtection", "PendingProtection"}
           /\ Go("user", "fetch", object.class)
        \/ object.class \in Configured /\ Go("user", "fetch", "accepted")
    BY <1>3 DEF Refresh, Ready, Configured
  <2> QED BY <1>u, <1>a, <2>1, <2>2, BeginsFaultless
<1>4. CASE Reload
  <2> DEFINE begun == [Idle EXCEPT !.at = "fetch", !.goal = "reload", !.live = TRUE,
                                   !.read = [o \in Officers |-> IF o \in down THEN "none" ELSE "unread"]]
  <2>1. /\ task["user"].at = "idle" /\ UNCHANGED <<request, chain, effect, down, object>>
        /\ task' = [task EXCEPT !["user"] = begun]
    BY <1>4 DEF Reload, remote
  <2>2. begun.at = "fetch" /\ begun.goal = "reload" /\ \A o \in Officers : begun.read[o] = "unread"
    BY <1>a DEF Idle, Faultless
  <2> HIDE DEF begun
  <2>3. task'["user"] = begun /\ \A t \in Ticks : task'[t] = task[t]
    BY <1>u, <2>1 DEF TypeOK
  <2>4. TicksFollow'
    BY <1>a, <2>1, <2>3, TicksGoOn DEF Faultless
  <2>5. AtRest(object.class, object.requests, request)
    BY <1>a, <2>1 DEF Faultless, RequestsMatch, HalfRequested, Replacing, Reading
  <2>6. RequestsMatch'
    BY <2>1, <2>2, <2>3, <2>5 DEF RequestsMatch, HalfRequested, Replacing
  <2>7. Stages' /\ ChainMatches'
    BY <1>a, <2>1, <2>2, <2>3 DEF Faultless, Stages, ChainMatches, Applied, Reading
  <2>8. ReadsFollow'
    BY <2>1, <2>2, <2>3 DEF ReadsFollow, Reading, Follows
  <2> QED BY <1>a, <2>1, <2>2, <2>3, <2>4, <2>6, <2>7, <2>8 DEF Faultless, Resolved
<1>5. ASSUME NEW t \in Tasks, NEW o \in Officers, NodeAnswers(t, o) \/ NodeFails(t, o)
      PROVE  Faultless'
  <2>1. NodeAnswers(t, o)
    BY <1>5 DEF NodeFails
  <2> QED BY <1>a, <2>1, AnswerFaultless
<1>6. CASE ConfigRead
  <2> DEFINE proxy == [task["user"] EXCEPT !.at = "proxy", !.config = chain.config]
  <2>1. /\ proxy.at = "proxy" /\ proxy.config = chain.config
        /\ proxy.goal = task["user"].goal /\ proxy.read = task["user"].read
    BY <1>u DEF TypeOK, Task
  <2>2. /\ task' = [task EXCEPT !["user"] = proxy] /\ UNCHANGED <<request, chain, effect, down, object>>
        /\ task["user"].at = "fetch"
    BY <1>6, <1>u DEF ConfigRead, AllRead, remote, TypeOK
  <2> HIDE DEF proxy
  <2>3. task'["user"] = proxy /\ \A t \in Ticks : task'[t] = task[t]
    BY <1>u, <2>2 DEF TypeOK
  <2>4. TicksFollow'
    BY <1>a, <2>2, <2>3, TicksGoOn DEF Faultless
  <2>5. Stages' /\ ChainMatches' /\ RequestsMatch' /\ Resolved'
    BY <1>a, <2>1, <2>2, <2>3 DEF Faultless, Stages, ChainMatches, RequestsMatch, Resolved, Applied,
                                  HalfRequested, Replacing, Reading
  <2>6. ReadsFollow'
    BY <1>a, <2>1, <2>2, <2>3 DEF Faultless, ReadsFollow, Reading
  <2> QED BY <1>a, <2>2, <2>4, <2>5, <2>6 DEF Faultless
<1>7. CASE FetchDone
  BY <1>a, <1>7, FetchFaultless
<1>8. CASE FetchAcceptedDone
  <2>1. /\ Succeed("user", object.class, task["user"].read)
        /\ UNCHANGED <<request, chain, down>> /\ task["user"].at = "fetch"
        /\ task["user"].goal \in {"accepted", "poll", "stray"}
    BY <1>8 DEF FetchAcceptedDone, AllRead, Partial, remote
  <2>2. task["user"].goal = "accepted"
    BY <2>1 DEF IInv, InFlight
  <2>3. object.class \in Configured
    BY <1>a, <2>1, <2>2 DEF Faultless, Stages, Reading
  <2>4. AtRest(object.class, object.requests, request)
    BY <1>a, <2>1, <2>2 DEF Faultless, RequestsMatch, HalfRequested, Replacing
  <2>5. AtRest(object.class, task["user"].read, request')
    BY <2>1, <2>3, <2>4 DEF AtRest, Configured
  <2>6. /\ down' = {} /\ (chain'.config <=> object.class \in Configured)
        /\ (chain'.claimed <=> object.class = "ClaimedRecovery")
    BY <1>a, <2>1 DEF Faultless, ChainMatches, Applied
  <2> QED BY <1>u, <2>1, <2>5, <2>6, SucceedsFaultless
<1>9. ASSUME NEW goal \in {"ActiveProtection", "PendingRecovery", "ClaimedRecovery", "initiated"},
             Submit(goal)
      PROVE  Faultless'
  <2>1. /\ task["user"].at = "idle" /\ goal \in Submission(object.class)
        /\ Go("user", "submit", goal) /\ effect' = "open"
        /\ UNCHANGED <<request, chain, down, object>>
    BY <1>9 DEF Submit
  <2> QED BY <1>u, <1>a, <2>1, BeginsFaultless
<1>10. CASE Decide \/ Submitted \/ SubmissionFails
  BY <1>a, <1>10, SubmissionFaultless
<1>11. CASE RequestAgain
  <2>1. /\ task["user"].at = "idle" /\ object.class = "NoProtection"
        /\ Go("user", "request", "PendingProtection") /\ UNCHANGED <<request, chain, down, object>>
    BY <1>11 DEF RequestAgain, Ready, remote
  <2> QED BY <1>u, <1>a, <2>1, BeginsFaultless
<1>12. CASE RequestServed \/ Cancelled \/ \E o \in Officers : Resubmit(o)
  BY <1>a, <1>12, RequestFaultless
<1>13. CASE RequestFails \/ CancelFails
  BY <1>13 DEF RequestFails, CancelFails
<1>14. CASE Cancel
  <2>1. /\ task["user"].at = "idle" /\ Go("user", "cancel", "NoProtection")
        /\ UNCHANGED <<request, chain, down, object>>
    BY <1>14 DEF Cancel, Ready, remote
  <2> QED BY <1>u, <1>a, <2>1, BeginsFaultless
<1>15. CASE Wait
  <2>1. /\ task["user"].at = "idle" /\ object.class \in Recovering
        /\ Go("user", "wait", "none") /\ UNCHANGED <<request, chain, down, object>>
    BY <1>15 DEF Wait, Ready, remote, Recovering
  <2> QED BY <1>u, <1>a, <2>1, BeginsFaultless
<1>16. ASSUME NEW t \in Ticks, Tick(t) \/ TickProduces(t) \/ TickThrows(t) \/ StrayTickEnds(t)
       PROVE  Faultless'
  BY <1>16, <1>a, TickFaultless
<1> QED
  BY <1>0, <1>1, <1>2, <1>3, <1>4, <1>5, <1>6, <1>7, <1>8, <1>9, <1>10, <1>11, <1>12, <1>13,
     <1>14, <1>15, <1>16
     DEF Next

(* It holds initially. *)
LEMMA NoFaultInit == Init => NoFaultInv
<1> SUFFICES ASSUME Init PROVE Faultless
  BY DEF NoFaultInv
<1>1. "user" \in Tasks /\ Ticks \subseteq Tasks
  BY DEF Tasks
<1>2. \A t \in Tasks : task[t].at = "idle" /\ task[t].goal = "none"
  BY DEF Init, Idle
<1>3. AtRest("NoProtection", None, None)
  BY DEF AtRest, None
<1>4. TicksFollow
  BY <1>1, <1>2 DEF TicksFollow, Counts
<1>5. object.class = "NoProtection" /\ object.requests = None /\ request = None /\ down = {}
      /\ ~chain.config /\ ~chain.claimed
  BY DEF Init
<1> QED BY <1>1, <1>2, <1>3, <1>4, <1>5, RestIsFaultless DEF Configured

(* Unless something failed, the backends, the chain, the object and what   *)
(* is being read tell the same story.                                      *)
THEOREM FactsMatch == Spec => []NoFaultInv
BY Inductive, NoFaultInit, NoFaultStep, PTL DEF Spec

(* Unless something failed, whatever the officers decide while the client  *)
(* reads, the class of the object is the one that getInitialState would    *)
(* compute, or one PendingProtection.refresh leads from.                   *)
THEOREM Currency == Spec => []ClassIsCurrent
<1>1. ASSUME IInv, NoFaultInv PROVE ClassIsCurrent
  <2> SUFFICES ASSUME Quiet, ~faults
               PROVE  \/ object.class = Current
                      \/ /\ object.class = "PendingProtection"
                         /\ Current \in Expected("PendingProtection")
    BY DEF ClassIsCurrent
  <2>1. Faultless /\ task["user"].at = "idle"
    BY <1>1 DEF NoFaultInv, Quiet, Tasks
  <2>2. /\ AtRest(object.class, object.requests, request)
        /\ chain.config <=> object.class \in Configured
        /\ chain.claimed <=> object.class = "ClaimedRecovery"
        /\ object.class \in Classes /\ chain.config \in BOOLEAN /\ chain.claimed \in BOOLEAN
    BY <1>1, <2>1 DEF Faultless, RequestsMatch, ChainMatches, HalfRequested, Replacing, Reading, Applied,
                      IInv, TypeOK
  <2>3. CASE object.class \in {"NoProtection", "ActiveProtection"}
    <3>1. /\ \A o \in Officers : request[o] = "none"
          /\ ~chain.claimed /\ (chain.config <=> object.class = "ActiveProtection")
      BY <2>2, <2>3 DEF AtRest, Configured
    <3>2. Current = IF chain.config THEN "ActiveProtection" ELSE "NoProtection"
      BY <2>2, <3>1, ClassOfNone DEF Current
    <3> QED BY <2>3, <3>1, <3>2
  <2>4. CASE object.class \in {"AcceptedProtection", "PendingRecovery", "ClaimedRecovery"}
    <3>1. (\A o \in Officers : request[o] \in Accepted) /\ (chain.claimed => chain.config)
      BY <2>2, <2>4 DEF AtRest, Configured
    <3>2. Current = IF chain.claimed THEN "ClaimedRecovery"
                    ELSE IF chain.config THEN "PendingRecovery" ELSE "AcceptedProtection"
      BY <2>2, <3>1, ClassOfAccepted DEF Current
    <3> QED BY <2>2, <2>4, <3>2 DEF Configured
  <2>5. CASE object.class \in {"PendingProtection", "RejectedRecovery"}
    <3>1. ~chain.config /\ ~chain.claimed /\ \A o \in Officers : request[o] \in InProgress
      BY <2>2, <2>5 DEF AtRest, Configured
    <3>2. Current = InitialClass(request, FALSE, FALSE)
      BY <2>2, <3>1 DEF Current
    <3>3. \A o \in Officers : request[o] # "unread" /\ Follows(request[o], request[o])
      BY <3>1 DEF InProgress, Follows
    <3>4. Current \in Expected("PendingProtection") /\ AtRest(Current, request, request)
      BY <3>1, <3>2, <3>3, ClassInProgress
    <3>5. CASE object.class = "RejectedRecovery"
      <4>1. PICK o \in Officers : request[o] = "REJECTED"
        BY <2>2, <3>5 DEF AtRest
      <4>2. /\ Having(request, {"none"}) # Officers /\ Having(request, Accepted) # Officers
            /\ Having(request, {"PENDING"}) \union Having(request, Accepted) # Officers
            /\ Having(request, {"REJECTED"}) # {}
        BY <4>1 DEF Having, Accepted
      <4> QED BY <3>2, <3>5, <4>2 DEF InitialClass
    <3> QED BY <2>5, <3>4, <3>5
  <2>6. object.class # "UnavailableProtection"
    BY <2>2 DEF AtRest
  <2> QED BY <2>2, <2>3, <2>4, <2>5, <2>6 DEF Classes
<1> QED BY <1>1, Inductive, FactsMatch, PTL

(* Unless something failed, no order of decisions, reads, cancellations    *)
(* and resubmissions makes getInitialState or an operation answer          *)
(* UnavailableProtection.                                                  *)
THEOREM Availability == Spec => []NeverUnavailable
<1>1. NoFaultInv => NeverUnavailable
  <2> SUFFICES ASSUME Faultless PROVE object.class # "UnavailableProtection"
    BY DEF NoFaultInv, NeverUnavailable
  <2>1. CASE HalfRequested \/ Replacing("NoProtection") \/ Replacing("PendingProtection")
    BY <2>1 DEF Faultless, Stages, HalfRequested, Replacing
  <2>2. CASE ~HalfRequested /\ ~Replacing("NoProtection") /\ ~Replacing("PendingProtection")
    BY <2>2 DEF Faultless, RequestsMatch, AtRest
  <2> QED BY <2>1, <2>2
<1> QED BY <1>1, FactsMatch, PTL

(* Unless something failed, for any number of overlapping ticks and any    *)
(* maxRetries, waitForFullyReady resolves only once both backends have     *)
(* seen the activation.                                                    *)
THEOREM Readiness == Spec => []ReadyIsActivated
<1>1. NoFaultInv => ReadyIsActivated
  BY DEF NoFaultInv, ReadyIsActivated, Faultless, Resolved
<1> QED BY <1>1, FactsMatch, PTL
=============================================================================
