----------------------------- MODULE StateChain -----------------------------
(***************************************************************************)
(* packages/client/src/State.ts: the base class of every client-side state *)
(* (balance, LOC, vault, protection, votes).  An instance is immutable but *)
(* for two fields: it is discarded at most once, and then points to the    *)
(* instance that replaces it, if any.  Transitions are asynchronous, and a *)
(* client may start one from any instance it still holds, so several may   *)
(* be in flight on the same lifeline.                                      *)
(*                                                                         *)
(* One lifeline is modelled: the instances that descend from instance 1.   *)
(* Transition logic (the `action` argument) is abstracted to its outcome:  *)
(* it resolves with an instance it has just constructed, or it rejects.    *)
(***************************************************************************)
EXTENDS Naturals

CONSTANTS
  Callers,     \* identities of the operations a client has in flight
  MaxStates    \* bound: number of State instances ever constructed

ASSUME MaxStatesAssumption == MaxStates \in Nat \ {0}

States == 1..MaxStates
None   == 0            \* undefined

VARIABLES
  allocated,   \* instances 1..allocated have been constructed
  discarded,   \* instances whose _discarded is true
  nextState,   \* _nextState of each instance
  held,        \* instances some caller received and may still use
  op,          \* the operation each caller has in flight
  outcome      \* how each caller's last operation ended

vars == <<allocated, discarded, nextState, held, op, outcome>>

Kinds    == {"idle", "discardOnSuccess", "finalizeOnSuccess"}
Outcomes == [action : {"none", "resolved", "rejected"},
             report : {"none", "returned", "threw"}]

Idle == [kind |-> "idle", current |-> None]

TypeOK ==
  /\ allocated \in States
  /\ discarded \subseteq States
  /\ nextState \in [States -> States \cup {None}]
  /\ held \subseteq 1..allocated
  /\ op \in [Callers -> [kind : Kinds, current : States \cup {None}]]
  /\ outcome \in [Callers -> Outcomes]

Init ==
  /\ allocated = 1
  /\ discarded = {}
  /\ nextState = [s \in States |-> None]
  /\ held = {1}
  /\ op = [c \in Callers |-> Idle]
  /\ outcome = [c \in Callers |-> [action |-> "none", report |-> "none"]]

-----------------------------------------------------------------------------
(* getCurrentState follows _nextState while it leads to a discarded        *)
(* instance.  Chain(h) is what it may visit: the least set that holds h    *)
(* and the replacement of each discarded instance it holds.                *)

ClosedUnderNext(S) ==
  \A s \in S \cap discarded : nextState[s] = None \/ nextState[s] \in S

Chain(h) == {s \in States : \A S \in SUBSET States : h \in S /\ ClosedUnderNext(S) => s \in S}

(* Mutant of CurrentState: the replacement is returned without asking      *)
(* whether it was itself discarded.                                        *)
OneHopOnly(h) == IF h \in discarded THEN {nextState[h]} \ {None} ELSE {h}

(* The instance getCurrentState returns, as a set: empty for undefined. *)
CurrentState(h) == Chain(h) \ discarded

(* The loop itself, for the instances that lead somewhere in MaxStates     *)
(* iterations; Fuel stands for a loop that has not ended by then.          *)
Fuel == MaxStates + 1

LoopFrom[fuel \in 0..MaxStates] ==
  [s \in States \cup {None} |->
     IF s = None \/ s \notin discarded THEN s
     ELSE IF fuel = 0 THEN Fuel
     ELSE LoopFrom[fuel - 1][nextState[s]]]

(* Mutant of GetCurrentState: no loop. *)
NextOnly(h) == IF h \in discarded THEN nextState[h] ELSE h

GetCurrentState(h) == LoopFrom[MaxStates][h]

ensureCurrent(s) == s \notin discarded

Fresh == allocated + 1

Construct ==
  /\ allocated < MaxStates
  /\ allocated' = Fresh

(* The assignments of discard(next); callers conjoin ensureCurrent. *)
MarkDiscarded(s, next) ==
  /\ discarded' = discarded \cup {s}
  /\ nextState' = [nextState EXCEPT ![s] = next]

(* Mutant of Discard: ensureCurrent is not called. *)
DiscardUnchecked(s, next) == MarkDiscarded(s, next)

(* Mutant of Discard: the replacement is not recorded. *)
DiscardForgetful(s, next) ==
  /\ ensureCurrent(s)
  /\ MarkDiscarded(s, None)

Discard(s, next) ==
  /\ ensureCurrent(s)
  /\ MarkDiscarded(s, next)

Report(c, action, report) ==
  outcome' = [outcome EXCEPT ![c] = [action |-> action, report |-> report]]

End(c) == op' = [op EXCEPT ![c] = Idle]

-----------------------------------------------------------------------------
(* getCurrentStateOrThrow throws: the lifeline was finalized. *)
WithoutReplacement(c, h) ==
  /\ op[c].kind = "idle"
  /\ h \in held
  /\ CurrentState(h) = {}
  /\ Report(c, "none", "threw")
  /\ UNCHANGED <<allocated, discarded, nextState, held, op>>

(* discardOnSuccess and finalizeOnSuccess up to their await. *)
Start(c, h, kind) ==
  /\ op[c].kind = "idle"
  /\ h \in held
  /\ kind \in Kinds \ {"idle"}
  /\ \E current \in CurrentState(h) :
       op' = [op EXCEPT ![c] = [kind |-> kind, current |-> current]]
  /\ UNCHANGED <<allocated, discarded, nextState, held, outcome>>

(* discardOnSuccess, the action resolved: the finally block discards.  If  *)
(* that throws, the caller gets the error in place of the next state.      *)
DiscardOnSuccess(c) ==
  LET current == op[c].current IN
  /\ op[c].kind = "discardOnSuccess"
  /\ Construct
  /\ \/ /\ Discard(current, Fresh)
        /\ held' = held \cup {Fresh}
        /\ Report(c, "resolved", "returned")
     \/ /\ ~ensureCurrent(current)
        /\ Report(c, "resolved", "threw")
        /\ UNCHANGED <<discarded, nextState, held>>
  /\ End(c)

(* discardOnSuccess, the action rejected: next is undefined, nothing is    *)
(* discarded.                                                              *)
DiscardOnFailure(c) ==
  /\ op[c].kind = "discardOnSuccess"
  /\ Report(c, "rejected", "threw")
  /\ End(c)
  /\ UNCHANGED <<allocated, discarded, nextState, held>>

(* finalizeOnSuccess, either way: the finally block discards without       *)
(* looking at how the action ended.                                        *)
FinalizeOnSuccess(c, action) ==
  LET current == op[c].current IN
  /\ op[c].kind = "finalizeOnSuccess"
  /\ action \in {"resolved", "rejected"}
  /\ \/ /\ Discard(current, None)
        /\ Report(c, action, IF action = "resolved" THEN "returned" ELSE "threw")
     \/ /\ ~ensureCurrent(current)
        /\ Report(c, action, "threw")
        /\ UNCHANGED <<discarded, nextState>>
  /\ End(c)
  /\ UNCHANGED <<allocated, held>>

(* syncDiscardOnSuccess: no other operation runs between reading the       *)
(* current state and discarding it.                                        *)
SyncDiscardOnSuccess(c, h) ==
  /\ op[c].kind = "idle"
  /\ h \in held
  /\ \E current \in CurrentState(h) :
       \/ /\ Construct
          /\ Discard(current, Fresh)
          /\ held' = held \cup {Fresh}
          /\ Report(c, "resolved", "returned")
       \/ /\ Report(c, "rejected", "threw")
          /\ UNCHANGED <<allocated, discarded, nextState, held>>
  /\ UNCHANGED op

(* discard called directly on an instance, as Votes does with the votes of *)
(* the previous fetch: replaced by a new instance or by nothing.           *)
DirectDiscard(c, h) ==
  /\ op[c].kind = "idle"
  /\ h \in held
  /\ \/ /\ Construct
        /\ Discard(h, Fresh)
        /\ held' = held \cup {Fresh}
        /\ Report(c, "resolved", "returned")
     \/ /\ Discard(h, None)
        /\ Report(c, "resolved", "returned")
        /\ UNCHANGED <<allocated, held>>
     \/ /\ ~ensureCurrent(h)
        /\ Report(c, "rejected", "threw")
        /\ UNCHANGED <<allocated, discarded, nextState, held>>
  /\ UNCHANGED op

Next ==
  \E c \in Callers :
    \/ \E h \in held :
         \/ WithoutReplacement(c, h)
         \/ \E kind \in Kinds : Start(c, h, kind)
         \/ SyncDiscardOnSuccess(c, h)
         \/ DirectDiscard(c, h)
    \/ DiscardOnSuccess(c)
    \/ DiscardOnFailure(c)
    \/ \E action \in {"resolved", "rejected"} : FinalizeOnSuccess(c, action)

Spec == Init /\ [][Next]_vars

-----------------------------------------------------------------------------
(* Whatever the interleaving of pending operations, at most one of the     *)
(* instances handed out to callers has not been discarded: an operation    *)
(* that lost the race is never given the instance it built.                *)
OneLiveInstance ==
  \A s, t \in held \ discarded : s = t

(* However old a handle, getCurrentState leads from it to the one live     *)
(* instance callers hold, or to none once that was finalized: old handles  *)
(* stay usable and never fork.                                             *)
HandlesConverge ==
  \A h \in held : CurrentState(h) = held \ discarded

(* The loop of getCurrentState ends, on the only instance of the chain     *)
(* that is not discarded, or on undefined when all of them are.            *)
LoopFindsCurrent ==
  \A h \in held : CurrentState(h) = {GetCurrentState(h)} \ {None}

(* A discarded instance stays so, with the same replacement: no operation  *)
(* that comes second rewrites history.                                     *)
DiscardIsFinal ==
  [][\A s \in discarded : s \in discarded' /\ nextState'[s] = nextState[s]]_vars

(* Refinement: the version of the abstract cell is the one live instance.  *)
LiveAmong(H, D) == IF H \subseteq D THEN None ELSE CHOOSE s \in H : s \notin D

LiveInstance == LiveAmong(held, discarded)

VerdictOf(o) ==
  CASE o.report = "returned"                        -> "committed"
    [] o.report = "threw" /\ o.action = "resolved"  -> "conflict"
    [] o.report = "threw" /\ o.action = "rejected"  -> "aborted"
    [] o.report = "threw" /\ o.action = "none"      -> "closed"
    [] OTHER                                        -> "none"

Cell == INSTANCE CompareAndSet WITH
          MaxVersion <- MaxStates,
          cell       <- LiveInstance,
          seen       <- [c \in Callers |-> op[c].current],
          verdict    <- [c \in Callers |-> VerdictOf(outcome[c])]

(* State.ts implements the compare-and-set cell: an operation that awaited *)
(* takes effect only if no other one replaced the instance it began with.  *)
ImplementsCompareAndSet == Cell!Spec

(* "Finalizes current state only if given state transition logic executed  *)
(* successfully (i.e. without throwing an error)" (State.ts,               *)
(* finalizeOnSuccess).                                                     *)
FinalizesOnlyOnSuccess ==
  [][\A c \in Callers :
       /\ op[c].kind = "finalizeOnSuccess"
       /\ op'[c].kind = "idle"
       /\ outcome'[c].action = "rejected"
       => discarded' = discarded]_vars
=============================================================================
