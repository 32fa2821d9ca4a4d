------------------------------- MODULE Recovery --------------------------------
(***************************************************************************)
(* packages/client/src/Recovery.ts: recovery of a lost account, from the   *)
(* requests to its two legal officers to the claim, with the polling of    *)
(* Polling.ts.  The facts are in four places: a request in the backend of  *)
(* each officer, and the recovery, its configuration and the claim on      *)
(* chain.  The client holds one object, whose class says where the process *)
(* is: it is computed from what the client reads, one place after the      *)
(* other, or guessed by the operation that should have led there.          *)
(*                                                                         *)
(* The object is the one live instance of a lifeline of State (StateChain):*)
(* an operation replaces it only if no other one did since it began.       *)
(* A cancelled request counts no more, and is modelled as none; a backend  *)
(* is assumed to refuse a request when it has another one of that user.    *)
(* The configuration of the lost account names the two officers: otherwise *)
(* requestRecovery throws before it does anything.                         *)
(***************************************************************************)
EXTENDS Naturals

CONSTANTS
  Ticks,         \* executions of the polling callback that may overlap
  MaxRetries,    \* pollingParameters.maxRetries
  NodesMayFail   \* may a request to the node of a legal officer fail?

ASSUME ConstantsAssumption ==
  /\ "user" \notin Ticks
  /\ MaxRetries \in Nat \ {0}
  /\ NodesMayFail \in BOOLEAN

Officers == 1..2
Statuses == {"none", "PENDING", "ACCEPTED", "REJECTED", "ACTIVATED"}
Accepted == {"ACCEPTED", "ACTIVATED"}
Classes  == {"NoProtection", "PendingProtection", "AcceptedProtection", "ActiveProtection",
             "PendingRecovery", "ClaimedRecovery", "RejectedRecovery", "UnavailableProtection"}

VARIABLES
  request,          \* status of the request in the backend of each officer
  chain,            \* what is on chain for the user's account
  effect, outcome,  \* the extrinsic last submitted: SubmissionContract
  down,             \* nodesDown of the client's network state
  object,           \* the live object: its class and the requests it knows
  task,             \* where the user's operation and the ticks are
  retries,          \* of the polling in progress
  faults            \* history: did a request fail, was a transition lost?

remote == <<request, chain, effect, outcome>>
vars == <<remote, down, object, task, retries, faults>>

Extrinsic == INSTANCE SubmissionContract

Tasks  == {"user"} \union Ticks
Unread == [o \in Officers |-> "unread"]
Idle   == [at |-> "idle", goal |-> "none", live |-> FALSE, next |-> 1,
           read |-> Unread, config |-> FALSE]

Task == [at : {"idle", "fetch", "proxy", "submit", "request", "cancel", "wait"},
         goal : Classes \union {"none", "reload", "accepted", "initiated", "poll", "stray",
                                "resolved", "rejected"},
         live : BOOLEAN, next : Officers,
         read : [Officers -> Statuses \union {"unread"}], config : BOOLEAN]

TypeOK ==
  /\ request \in [Officers -> Statuses]
  /\ chain \in [initiated : BOOLEAN, config : BOOLEAN, claimed : BOOLEAN]
  /\ effect \in {"open", "applied", "void"}
  /\ outcome \in {"pending", "resolved", "rejected"}
  /\ down \subseteq Officers
  /\ object \in [class : Classes, requests : [Officers -> Statuses]]
  /\ task \in [Tasks -> Task]
  /\ retries \in 0..(MaxRetries - 1)
  /\ faults \in BOOLEAN

None == [o \in Officers |-> "none"]

Init ==
  /\ request = None
  /\ chain = [initiated |-> FALSE, config |-> FALSE, claimed |-> FALSE]
  /\ effect = "void" /\ outcome = "rejected"
  /\ down = {}
  /\ object = [class |-> "NoProtection", requests |-> None]
  /\ task = [t \in Tasks |-> Idle]
  /\ retries = 0 /\ faults = FALSE

-----------------------------------------------------------------------------
(* The legal officers and their backends. *)

UnchangedClient == UNCHANGED <<down, object, task, retries, faults>>

(* An officer accepts (and vouches) or rejects. *)
OfficerDecides(o) ==
  /\ request[o] = "PENDING"
  /\ \E status \in {"ACCEPTED", "REJECTED"} : request' = [request EXCEPT ![o] = status]
  /\ UNCHANGED <<chain, effect, outcome>>
  /\ UnchangedClient

(* A backend sees createRecovery on chain. *)
BackendActivates(o) ==
  /\ request[o] = "ACCEPTED" /\ chain.config
  /\ request' = [request EXCEPT ![o] = "ACTIVATED"]
  /\ UNCHANGED <<chain, effect, outcome>>
  /\ UnchangedClient

-----------------------------------------------------------------------------
(* getInitialState: the class for the requests read from the backends,     *)
(* the configuration and the claim.  "error": the second of two accepted   *)
(* requests is used though one was read.                                   *)
Having(read, statuses) == {o \in Officers : read[o] \in statuses}

(* Mutant of InitialClass: one accepted request is enough. *)
InitialClassHasty(read, config, claimed) ==
  IF ~config /\ ~claimed /\ Having(read, Accepted) # {} THEN "AcceptedProtection"
  ELSE IF config /\ claimed THEN "ClaimedRecovery"
  ELSE IF config THEN "PendingRecovery"
  ELSE IF Having(read, {"REJECTED"}) # {} THEN "RejectedRecovery"
  ELSE IF Having(read, {"PENDING"}) # {} THEN "PendingProtection"
  ELSE "NoProtection"

(* Mutant of InitialClass: a request pending and one accepted are no       *)
(* pending protection.                                                     *)
InitialClassUnmixed(read, config, claimed) ==
  IF config /\ claimed THEN "ClaimedRecovery"
  ELSE IF config THEN "PendingRecovery"
  ELSE IF Having(read, {"none"}) = Officers THEN "NoProtection"
  ELSE IF Having(read, Accepted) = Officers THEN "AcceptedProtection"
  ELSE IF Having(read, {"PENDING"}) = Officers THEN "PendingProtection"
  ELSE IF Having(read, {"REJECTED"}) # {} THEN "RejectedRecovery"
  ELSE "UnavailableProtection"

InitialClass(read, config, claimed) ==
  LET accepted == Having(read, Accepted)
      pending  == Having(read, {"PENDING"})
      none     == Having(read, {"none"}) = Officers
  IN
  IF claimed THEN IF config THEN "ClaimedRecovery" ELSE "UnavailableProtection"
  ELSE IF none THEN IF config THEN "ActiveProtection" ELSE "NoProtection"
  ELSE IF accepted = Officers THEN IF config THEN "PendingRecovery" ELSE "AcceptedProtection"
  ELSE IF config THEN IF accepted = {} THEN "UnavailableProtection" ELSE "error"
  ELSE IF pending \union accepted = Officers THEN "PendingProtection"
  ELSE IF Having(read, {"REJECTED"}) # {} THEN "RejectedRecovery"
  ELSE "UnavailableProtection"

(* Mutant of FullyReady: one activated request is enough. *)
FullyReadyEarly(requests) == \E o \in Officers : requests[o] = "ACTIVATED"

(* isProtectionFullyReady: about the accepted requests that are known. *)
FullyReady(requests) == "ACCEPTED" \notin {requests[o] : o \in Officers}

-----------------------------------------------------------------------------
(* discardOnSuccess.  An operation that replaces the object makes those    *)
(* that began before lose theirs: they throw when they end.                *)
Go(t, at, goal) ==
  task' = [task EXCEPT ![t] = [Idle EXCEPT !.at = at, !.goal = goal, !.live = TRUE]]

Throw(t) == task' = [task EXCEPT ![t] = Idle]

(* What a tick goes on reading is lost with its object; one that nobody    *)
(* waits for has no effect any more.                                       *)
Superseded(tasks) ==
  [t \in Tasks |->
     IF t \in Ticks /\ tasks[t].goal = "poll" THEN [tasks[t] EXCEPT !.live = FALSE, !.read = None]
     ELSE IF t \in Ticks THEN Idle
     ELSE [tasks[t] EXCEPT !.live = FALSE]]

Succeed(t, class, requests) ==
  IF task[t].live
  THEN /\ object' = [class |-> class, requests |-> requests]
       /\ task' = Superseded([task EXCEPT ![t] = Idle])
       /\ UNCHANGED faults
  ELSE /\ Throw(t)
       /\ faults' = TRUE
       /\ UNCHANGED object

Ready(class) == task["user"].at = "idle" /\ object.class = class

(* refresh of the classes that have it. *)
Refresh ==
  /\ \/ /\ Ready("NoProtection") \/ Ready("PendingProtection")
        /\ Go("user", "fetch", object.class)
     \/ /\ Ready("ActiveProtection") \/ Ready("PendingRecovery") \/ Ready("ClaimedRecovery")
        /\ Go("user", "fetch", "accepted")
  /\ UNCHANGED <<remote, down, object, retries, faults>>

(* LogionClient.protectionState: the beginning of another lifeline.  Nodes *)
(* that failed to answer it once are not asked any more.                   *)
Reload ==
  /\ task["user"].at = "idle"
  /\ task' = [task EXCEPT !["user"] =
       [Idle EXCEPT !.at = "fetch", !.goal = "reload", !.live = TRUE,
                    !.read = [o \in Officers |-> IF o \in down THEN "none" ELSE "unread"]]]
  /\ UNCHANGED <<remote, down, object, retries, faults>>

(* LogionClient.updateNetworkState after a fetch the client made itself.   *)
UpdateNetworkState ==
  /\ task["user"].at = "idle"
  /\ down' \in IF NodesMayFail THEN SUBSET Officers ELSE {{}}
  /\ faults' = (faults \/ down' # {})
  /\ UNCHANGED <<remote, object, task, retries>>

(* RecoveryClient.fetchAll and fetchAccepted ask all the nodes at once;    *)
(* MultiSourceHttpClient.fetch ignores those that do not answer.  The      *)
(* latter gets the accepted requests only.                                 *)
Partial(t) == task[t].goal \in {"accepted", "poll", "stray"}

NodeAnswers(t, o) ==
  /\ task[t].at = "fetch" /\ task[t].read[o] = "unread"
  /\ task' = [task EXCEPT ![t].read[o] =
       IF Partial(t) /\ request[o] \notin Accepted THEN "none" ELSE request[o]]
  /\ UNCHANGED <<remote, down, object, retries, faults>>

NodeFails(t, o) ==
  /\ NodesMayFail
  /\ task[t].at = "fetch" /\ task[t].read[o] = "unread"
  /\ task' = [task EXCEPT ![t].read[o] = "none"]
  /\ down' = IF task[t].goal = "reload" THEN down \union {o} ELSE down
  /\ faults' = TRUE
  /\ UNCHANGED <<remote, object, retries>>

AllRead(t) == task[t].at = "fetch" /\ Having(task[t].read, {"unread"}) = {}

(* fetchAll then reads the configuration. *)
ConfigRead ==
  /\ AllRead("user") /\ ~Partial("user")
  /\ task' = [task EXCEPT !["user"].at = "proxy", !["user"].config = chain.config]
  /\ UNCHANGED <<remote, down, object, retries, faults>>

(* The classes _refresh accepts; protectionState accepts all. *)
Expected(goal) ==
  CASE goal = "NoProtection"      -> {"NoProtection"}
    [] goal = "PendingProtection" -> {"PendingProtection", "AcceptedProtection", "RejectedRecovery"}
    [] goal = "reload"            -> Classes

(* The claim is read last, and getInitialState called. *)
FetchDone ==
  LET user  == task["user"]
      class == InitialClass(user.read, user.config, chain.claimed)
  IN
  /\ user.at = "proxy"
  /\ IF class \in Expected(user.goal)
     THEN Succeed("user", class, user.read)
     ELSE Throw("user") /\ UNCHANGED <<object, faults>>
  /\ UNCHANGED <<remote, down, retries>>

(* refreshWithActiveProtection: only the accepted requests are new. *)
FetchAcceptedDone ==
  /\ AllRead("user") /\ Partial("user")
  /\ Succeed("user", object.class, task["user"].read)
  /\ UNCHANGED <<remote, down, retries>>

-----------------------------------------------------------------------------
(* The operations that submit an extrinsic: activateProtection, activate,  *)
(* claimRecovery, and requestRecovery unless the recovery is initiated.    *)
Submission(class) ==
  CASE class = "NoProtection"       -> {"ActiveProtection", "initiated"}
    [] class = "AcceptedProtection" -> {"PendingRecovery"}
    [] class = "PendingRecovery"    -> {"ClaimedRecovery"}
    [] OTHER                        -> {}

Effective(goal) ==
  CASE goal = "initiated"       -> [chain EXCEPT !.initiated = TRUE]
    [] goal = "ClaimedRecovery" -> [chain EXCEPT !.claimed = TRUE]
    [] OTHER                    -> [chain EXCEPT !.config = TRUE]

Submit(goal) ==
  /\ task["user"].at = "idle" /\ goal \in Submission(object.class)
  /\ goal = "initiated" => ~chain.initiated
  /\ Go("user", "submit", goal)
  /\ effect' = "open" /\ outcome' = "pending"
  /\ UNCHANGED <<request, chain, down, object, retries, faults>>

(* The chain refuses to do twice what these extrinsics do. *)
Decide ==
  LET new == Effective(task["user"].goal) IN
  /\ task["user"].at = "submit"
  /\ Extrinsic!Decide
  /\ effect' = "applied" => chain # new
  /\ chain' = IF effect' = "applied" THEN new ELSE chain
  /\ UNCHANGED request
  /\ UnchangedClient

(* Mutant of ClassAfter: activate returns an active protection. *)
ClassAfterSkipping(goal) == IF goal = "PendingRecovery" THEN "ActiveProtection" ELSE goal

(* The class of the object that _activateProtection, _activate and         *)
(* _claimRecovery build; the requests known are the same.                  *)
ClassAfter(goal) == goal

Submitted ==
  LET goal == task["user"].goal IN
  /\ task["user"].at = "submit"
  /\ Extrinsic!Resolve
  /\ IF goal = "initiated"
     THEN Go("user", "request", "PendingProtection") /\ UNCHANGED <<object, faults>>
     ELSE Succeed("user", ClassAfter(goal), object.requests)
  /\ UNCHANGED <<request, chain, down, retries>>

SubmissionFails ==
  /\ task["user"].at = "submit"
  /\ Extrinsic!Reject \/ Extrinsic!Refuse
  /\ Throw("user")
  /\ UNCHANGED <<request, chain, down, object, retries, faults>>

-----------------------------------------------------------------------------
(* requestRecovery: the recovery was initiated by an attempt before. *)
RequestAgain ==
  /\ Ready("NoProtection") /\ chain.initiated
  /\ Go("user", "request", "PendingProtection")
  /\ UNCHANGED <<remote, down, object, retries, faults>>

(* requestProtectionOrRecovery: one request, then the other. *)
Requested(o) == [request EXCEPT ![o] = "PENDING"]

RequestServed ==
  LET o == task["user"].next IN
  /\ task["user"].at = "request" /\ request[o] = "none"
  /\ request' = Requested(o)
  /\ IF o = 1
     THEN task' = [task EXCEPT !["user"].next = 2] /\ UNCHANGED <<object, faults>>
     ELSE Succeed("user", "PendingProtection", [p \in Officers |-> "PENDING"])
  /\ UNCHANGED <<chain, effect, outcome, down, retries>>

(* The node cannot be reached, its answer is lost, or it refuses. *)
RequestFails ==
  LET o == task["user"].next IN
  /\ task["user"].at = "request"
  /\ \/ request[o] # "none" /\ UNCHANGED request
     \/ NodesMayFail /\ request[o] = "none" /\ request' \in {request, Requested(o)}
  /\ Throw("user")
  /\ faults' = TRUE
  /\ UNCHANGED <<chain, effect, outcome, down, object, retries>>

(* RejectedRecovery._cancel: Promise.all over the requests known. *)
Known == {o \in Officers : object.requests[o] # "none"}

Without(officers) == [o \in Officers |-> IF o \in officers THEN "none" ELSE request[o]]

Cancel ==
  /\ Ready("RejectedRecovery")
  /\ Go("user", "cancel", "NoProtection")
  /\ UNCHANGED <<remote, down, object, retries, faults>>

(* All are cancelled: NoProtection.refresh. *)
Cancelled ==
  /\ task["user"].at = "cancel"
  /\ \A o \in Known : request[o] # "none"
  /\ request' = Without(Known)
  /\ task' = [task EXCEPT !["user"].at = "fetch"]
  /\ UNCHANGED <<chain, effect, outcome, down, object, retries, faults>>

(* One fails: the others are cancelled, or fail too. *)
CancelFails ==
  /\ task["user"].at = "cancel"
  /\ NodesMayFail \/ \E o \in Known : request[o] = "none"
  /\ \E officers \in SUBSET Known : request' = Without(officers)
  /\ Throw("user")
  /\ faults' = TRUE
  /\ UNCHANGED <<chain, effect, outcome, down, object, retries>>

(* RejectedRecovery._resubmit to an officer whose request is known as      *)
(* rejected, until its backend did so; then PendingProtection.refresh.     *)
Resubmit(o) ==
  /\ Ready("RejectedRecovery") /\ object.requests[o] = "REJECTED"
  /\ request[o] = "REJECTED"
  /\ request' = Requested(o)
  /\ Go("user", "fetch", "PendingProtection")
  /\ UNCHANGED <<chain, effect, outcome, down, object, retries, faults>>

-----------------------------------------------------------------------------
(* waitForFullyReady, when the object does not show as ready: waitFor. *)
Wait ==
  /\ Ready("PendingRecovery") \/ Ready("ClaimedRecovery")
  /\ ~FullyReady(object.requests)
  /\ Go("user", "wait", "none")
  /\ UNCHANGED <<remote, down, object, retries, faults>>

Interval == task["user"].at = "wait"

(* The interval elapsed, whether or not the tick before is done: the       *)
(* producer refreshes the live object.                                     *)
Tick(t) ==
  /\ Interval /\ task[t].at = "idle"
  /\ Go(t, "fetch", "poll")
  /\ UNCHANGED <<remote, down, object, retries, faults>>

Polling(t) == task[t].goal = "poll" /\ AllRead(t)

(* The promise of waitFor settles, once, and its interval is cleared: the  *)
(* ticks that still run and did not lose their object are nobody's.        *)
Settled(tasks, how) ==
  [t \in Tasks |-> IF tasks[t].at = "wait" THEN [Idle EXCEPT !.goal = how]
                   ELSE IF t = "user" THEN tasks[t]
                   ELSE IF tasks[t].live THEN [tasks[t] EXCEPT !.goal = "stray"] ELSE Idle]

GivesUp(n) == n >= MaxRetries

(* Mutant of Counted: ++retries is forgotten. *)
CountedNever(n) == n

Counted(n) == n + 1

(* The tick's refresh resolved. *)
TickProduces(t) ==
  LET after == Superseded([task EXCEPT ![t] = Idle]) IN
  /\ Polling(t) /\ task[t].live
  /\ object' = [object EXCEPT !.requests = task[t].read]
  /\ IF FullyReady(task[t].read)
     THEN task' = Settled(after, "resolved") /\ retries' = 0
     ELSE IF ~GivesUp(Counted(retries))
     THEN task' = after /\ retries' = Counted(retries)
     ELSE task' = Settled(after, "rejected") /\ retries' = 0
  /\ UNCHANGED <<remote, down, faults>>

(* It rejected, another tick having replaced the object. *)
TickThrows(t) ==
  /\ Polling(t) /\ ~task[t].live
  /\ task' = Settled([task EXCEPT ![t] = Idle], "rejected")
  /\ retries' = 0
  /\ faults' = TRUE
  /\ UNCHANGED <<remote, down, object>>

(* A tick ends once waitFor has settled: its refresh still takes effect. *)
StrayTickEnds(t) ==
  /\ task[t].goal = "stray" /\ AllRead(t)
  /\ object' = [object EXCEPT !.requests = task[t].read]
  /\ task' = Superseded([task EXCEPT ![t] = Idle])
  /\ UNCHANGED <<remote, down, retries, faults>>

-----------------------------------------------------------------------------
Next ==
  \/ \E o \in Officers : OfficerDecides(o) \/ BackendActivates(o)
  \/ UpdateNetworkState
  \/ Refresh \/ Reload \/ ConfigRead \/ FetchDone \/ FetchAcceptedDone
  \/ \E t \in Tasks, o \in Officers : NodeAnswers(t, o) \/ NodeFails(t, o)
  \/ \E goal \in {"ActiveProtection", "PendingRecovery", "ClaimedRecovery", "initiated"} : Submit(goal)
  \/ Decide \/ Submitted \/ SubmissionFails
  \/ RequestAgain \/ RequestServed \/ RequestFails
  \/ Cancel \/ Cancelled \/ CancelFails
  \/ \E o \in Officers : Resubmit(o)
  \/ Wait
  \/ \E t \in Ticks : Tick(t) \/ TickProduces(t) \/ TickThrows(t) \/ StrayTickEnds(t)

(* setInterval calls back as long as it is not cleared; a request to a     *)
(* node is answered or fails, and the client goes on with it.              *)
Fairness ==
  \A t \in Ticks :
    /\ WF_vars(Tick(t))
    /\ \A o \in Officers : WF_vars(NodeAnswers(t, o))
    /\ WF_vars(TickProduces(t) \/ TickThrows(t) \/ StrayTickEnds(t))

Spec == Init /\ [][Next]_vars /\ Fairness

-----------------------------------------------------------------------------
Quiet == \A t \in Tasks : task[t].at = "idle"

Current == InitialClass(request, chain.config, chain.claimed)

(* An object of a class that lets the user go on is true to the facts,     *)
(* whatever failed or overlapped: both officers accepted before activate   *)
(* is offered, there is a configuration before claimRecovery is, and a     *)
(* claim before the recovered account can be used.                         *)
ProgressIsReal ==
  /\ object.class = "AcceptedProtection" => Having(request, Accepted) = Officers
  /\ object.class \in {"ActiveProtection", "PendingRecovery", "ClaimedRecovery"} => chain.config
  /\ object.class = "ClaimedRecovery" => chain.claimed

(* Unless something failed or overlapped, the class an operation returns   *)
(* is the one protectionState would compute; officers deciding is the only *)
(* thing that makes it old, in a way PendingProtection.refresh accepts.    *)
ClassIsCurrent ==
  Quiet /\ ~faults =>
    \/ object.class = Current
    \/ object.class = "PendingProtection" /\ Current \in Expected("PendingProtection")

(* Unless something failed, no order of decisions and reads leads to       *)
(* UnavailableProtection, that offers no way out.                          *)
NeverUnavailable == ~faults => object.class # "UnavailableProtection"

(* Unless something failed, waitForFullyReady resolves once both backends  *)
(* have seen the activation.                                               *)
ReadyIsActivated ==
  task["user"].goal = "resolved" /\ ~faults => \A o \in Officers : request[o] = "ACTIVATED"

(* waitForFullyReady settles, though ticks overlap, nodes fail, and the    *)
(* backends never activate.                                                *)
WaitSettles == task["user"].at = "wait" ~> task["user"].at # "wait"
=============================================================================
