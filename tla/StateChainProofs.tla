-------------------------- MODULE StateChainProofs --------------------------
(***************************************************************************)
(* Theorems about StateChain, for every set of callers and every bound on  *)
(* the number of instances.                                                *)
(*                                                                         *)
(* The inductive invariant says that the instances handed out form one     *)
(* line: the replacement of a discarded instance was itself handed out,    *)
(* only one is live, none is once an instance was finalized, and the live  *)
(* one is reached from every handle.  Chain(h) being the least set closed  *)
(* under replacement, what getCurrentState can reach from a held instance  *)
(* is held; and a set closed under the new replacement relation is closed  *)
(* under the old one, hence holds the instance being replaced.             *)
(***************************************************************************)
EXTENDS StateChain, WellFoundedInduction, TLAPS

(* Only held instances are discarded, and operations start from held ones. *)
HeldInv ==
  /\ discarded \subseteq held
  /\ \A c \in Callers : IF op[c].kind = "idle" THEN op[c].current = None ELSE op[c].current \in held

(* Replacements are handed out, and constructed after what they replace. *)
ChainInv ==
  \A s \in discarded : nextState[s] # None => nextState[s] \in held /\ nextState[s] > s

(* Once an instance is discarded without replacement, nothing is live. *)
FinalInv ==
  (\E s \in discarded : nextState[s] = None) => held \subseteq discarded

IInv == TypeOK /\ HeldInv /\ ChainInv /\ FinalInv /\ OneLiveInstance /\ HandlesConverge

(* The instances the callers hold are instances. *)
LEMMA HeldIsStates == TypeOK => held \subseteq States
BY MaxStatesAssumption DEF TypeOK, States

(* What getCurrentState returns for a held instance is held and live. *)
LEMMA CurrentStateIsHeld ==
  ASSUME TypeOK, HeldInv, ChainInv, NEW h \in held, NEW s \in CurrentState(h)
  PROVE  s \in held \ discarded
<1>1. held \in SUBSET States
  BY HeldIsStates
<1>2. ClosedUnderNext(held)
  BY DEF ClosedUnderNext, ChainInv, HeldInv
<1>3. s \in Chain(h) /\ s \notin discarded
  BY DEF CurrentState
<1>4. s \in held
  BY <1>1, <1>2, <1>3 DEF Chain
<1> QED
  BY <1>3, <1>4

(* The inductive invariant holds initially. *)
LEMMA InitIInv == Init => IInv
<1> SUFFICES ASSUME Init PROVE IInv
  OBVIOUS
<1> USE MaxStatesAssumption DEF Init, States, None
<1>1. TypeOK
  BY DEF TypeOK, Idle, Kinds, Outcomes
<1>2. HeldInv
  BY DEF HeldInv, Idle
<1>3. ChainInv /\ FinalInv /\ OneLiveInstance
  BY DEF ChainInv, FinalInv, OneLiveInstance
<1>4. HandlesConverge
  <2>1. ClosedUnderNext({1}) /\ {1} \in SUBSET States
    BY DEF ClosedUnderNext
  <2>2. Chain(1) = {1}
    BY <2>1 DEF Chain
  <2> QED
    BY <2>2 DEF HandlesConverge, CurrentState
<1> QED
  BY <1>1, <1>2, <1>3, <1>4 DEF IInv

(* Replacing the live instance by a new one keeps the line. *)
LEMMA ReplaceKeepsLine ==
  ASSUME IInv, NEW s \in held, Construct, Discard(s, Fresh), held' = held \cup {Fresh}
  PROVE  /\ allocated' \in States /\ discarded' \subseteq States /\ held' \subseteq States
         /\ nextState' \in [States -> States \cup {None}]
         /\ held' \subseteq 1..allocated' /\ discarded' \subseteq held'
         /\ ChainInv' /\ FinalInv' /\ OneLiveInstance'
<1> USE DEF IInv, TypeOK, HeldInv, States, None, Construct, Discard, MarkDiscarded, ensureCurrent, Fresh
<1> USE MaxStatesAssumption
<1>1. s \in 1..allocated /\ allocated + 1 \in 1..MaxStates /\ allocated + 1 \notin held
  OBVIOUS
<1>2. nextState' = [nextState EXCEPT ![s] = allocated + 1] /\ discarded' = discarded \cup {s}
  OBVIOUS
<1>3. /\ allocated' \in States /\ discarded' \subseteq States /\ held' \subseteq States
      /\ nextState' \in [States -> States \cup {None}]
  BY <1>1, <1>2
<1>4. held' \subseteq 1..allocated' /\ discarded' \subseteq held'
  BY <1>1, <1>2
<1>5. ChainInv'
  BY <1>1, <1>2 DEF ChainInv
<1>6. \A t \in discarded : nextState[t] # None
  BY DEF FinalInv
<1>7. FinalInv'
  BY <1>1, <1>2, <1>6 DEF FinalInv
<1>8. OneLiveInstance'
  BY <1>1, <1>2 DEF OneLiveInstance
<1> QED
  BY <1>3, <1>4, <1>5, <1>7, <1>8

(* Discarding the live instance without replacement ends the line. *)
LEMMA FinalizeKeepsLine ==
  ASSUME IInv, NEW s \in held, Discard(s, None), UNCHANGED <<allocated, held>>
  PROVE  /\ discarded' \subseteq States
         /\ nextState' \in [States -> States \cup {None}]
         /\ discarded' \subseteq held'
         /\ ChainInv' /\ FinalInv' /\ OneLiveInstance'
<1> USE HeldIsStates DEF IInv, TypeOK, HeldInv, None, Discard, MarkDiscarded, ensureCurrent
<1>1. nextState' = [nextState EXCEPT ![s] = 0] /\ discarded' = discarded \cup {s} /\ s \notin discarded
  OBVIOUS
<1>2. \A t \in held : t \in discarded'
  BY <1>1 DEF OneLiveInstance
<1>3. ChainInv'
  BY <1>1 DEF ChainInv
<1>4. FinalInv' /\ OneLiveInstance'
  BY <1>2 DEF FinalInv, OneLiveInstance
<1> QED
  BY <1>1, <1>3, <1>4

(* A set closed under the new replacement relation is closed under the old *)
(* one, so it holds the instance that was live, and its replacement.       *)
LEMMA ReplaceConverges ==
  ASSUME IInv, NEW s \in held, Construct, Discard(s, Fresh), held' = held \cup {Fresh},
         held' \subseteq States, discarded' \subseteq held', ChainInv'
  PROVE  HandlesConverge'
<1> DEFINE n == allocated + 1
<1>1. /\ nextState' = [nextState EXCEPT ![s] = n] /\ discarded' = discarded \cup {s}
      /\ s \notin discarded /\ n \in States /\ n \notin held /\ held' = held \cup {n}
  BY MaxStatesAssumption
     DEF IInv, TypeOK, HeldInv, States, Construct, Discard, MarkDiscarded, ensureCurrent, Fresh
<1>2. held' \ discarded' = {n}
  BY <1>1 DEF IInv, HeldInv, OneLiveInstance
<1>3. ASSUME NEW h \in held' PROVE n \in Chain(h)'
  <2> SUFFICES ASSUME NEW S \in SUBSET States, h \in S, ClosedUnderNext(S)' PROVE n \in S
    BY <1>1 DEF Chain
  <2>1. CASE h = n
    BY <2>1
  <2>2. CASE h \in held
    <3>1. ASSUME NEW t \in S \cap discarded PROVE nextState[t] = None \/ nextState[t] \in S
      BY <1>1, <3>1 DEF ClosedUnderNext, IInv, TypeOK
    <3>2. ClosedUnderNext(S)
      BY <3>1 DEF ClosedUnderNext
    <3>3. s \in Chain(h)
      BY <1>1, <2>2 DEF IInv, HandlesConverge, CurrentState
    <3>4. s \in S
      BY <3>2, <3>3 DEF Chain
    <3> QED
      BY <1>1, <3>4 DEF ClosedUnderNext, IInv, TypeOK, States, None
  <2> QED
    BY <1>1, <2>1, <2>2
<1>4. ASSUME NEW h \in held' PROVE Chain(h)' \subseteq held'
  <2>1. ClosedUnderNext(held)'
    BY DEF ClosedUnderNext, ChainInv
  <2> QED
    BY <2>1 DEF Chain
<1>5. ASSUME NEW h \in held' PROVE CurrentState(h)' = held' \ discarded'
  BY <1>2, <1>3, <1>4 DEF CurrentState
<1> QED
  BY <1>5 DEF HandlesConverge

(* Once finalized, no handle leads anywhere. *)
LEMMA FinalizeConverges ==
  ASSUME IInv, NEW s \in held, Discard(s, None), UNCHANGED <<allocated, held>>, ChainInv'
  PROVE  HandlesConverge'
<1>1. held' \ discarded' = {}
  BY DEF IInv, OneLiveInstance, Discard, MarkDiscarded, ensureCurrent
<1>2. ClosedUnderNext(held)' /\ held' \in SUBSET States
  BY HeldIsStates DEF ClosedUnderNext, ChainInv, IInv, TypeOK
<1>3. ASSUME NEW h \in held' PROVE CurrentState(h)' = {}
  BY <1>1, <1>2 DEF CurrentState, Chain
<1> QED
  BY <1>1, <1>3 DEF HandlesConverge

(* Handles converge as before while the instances stay. *)
LEMMA SameConverges ==
  ASSUME HandlesConverge, UNCHANGED <<discarded, nextState, held>>
  PROVE  HandlesConverge'
BY DEF HandlesConverge, CurrentState, Chain, ClosedUnderNext

(* The operations' records keep their type. *)
LEMMA ReportType ==
  ASSUME TypeOK, NEW c \in Callers,
         NEW a \in {"none", "resolved", "rejected"}, NEW r \in {"none", "returned", "threw"},
         Report(c, a, r)
  PROVE  outcome' \in [Callers -> Outcomes]
BY DEF TypeOK, Report, Outcomes

(* The end of an operation leaves the others as they are. *)
LEMMA EndKeepsOps ==
  ASSUME TypeOK, HeldInv, NEW c \in Callers, End(c), held \subseteq held'
  PROVE  /\ op' \in [Callers -> [kind : Kinds, current : States \cup {None}]]
         /\ \A d \in Callers : IF op'[d].kind = "idle" THEN op'[d].current = None ELSE op'[d].current \in held'
<1>1. Idle \in [kind : Kinds, current : States \cup {None}] /\ Idle.kind = "idle" /\ Idle.current = None
  BY DEF Idle, Kinds
<1>2. op' = [op EXCEPT ![c] = Idle]
  BY DEF End
<1> QED
  BY <1>1, <1>2 DEF TypeOK, HeldInv

(* Every step keeps the inductive invariant. *)
LEMMA NextIInv == IInv /\ [Next]_vars => IInv'
<1> SUFFICES ASSUME IInv, [Next]_vars PROVE IInv'
  OBVIOUS
<1> USE DEF IInv
<1>1. ASSUME NEW c \in Callers, NEW h \in held, WithoutReplacement(c, h)
      PROVE  IInv'
  <2>1. outcome' \in [Callers -> Outcomes]
    BY <1>1, ReportType DEF WithoutReplacement
  <2> QED
    BY <1>1, <2>1, SameConverges DEF WithoutReplacement, TypeOK, HeldInv, ChainInv, FinalInv, OneLiveInstance
<1>2. ASSUME NEW c \in Callers, NEW h \in held, NEW kind \in Kinds, Start(c, h, kind)
      PROVE  IInv'
  <2>1. PICK s \in CurrentState(h) : op' = [op EXCEPT ![c] = [kind |-> kind, current |-> s]]
    BY <1>2 DEF Start
  <2>2. s \in held
    BY CurrentStateIsHeld, <2>1
  <2>3. [kind |-> kind, current |-> s] \in [kind : Kinds, current : States \cup {None}]
    BY <2>2, HeldIsStates
  <2>4. TypeOK'
    BY <1>2, <2>1, <2>3 DEF Start, TypeOK
  <2>5. HeldInv'
    BY <1>2, <2>1, <2>2 DEF Start, TypeOK, HeldInv
  <2> QED
    BY <1>2, <2>4, <2>5, SameConverges DEF Start, ChainInv, FinalInv, OneLiveInstance
<1>3. ASSUME NEW c \in Callers, NEW h \in held, SyncDiscardOnSuccess(c, h)
      PROVE  IInv'
  <2>1. PICK s \in CurrentState(h) :
          \/ Construct /\ Discard(s, Fresh) /\ held' = held \cup {Fresh} /\ Report(c, "resolved", "returned")
          \/ Report(c, "rejected", "threw") /\ UNCHANGED <<allocated, discarded, nextState, held>>
    BY <1>3 DEF SyncDiscardOnSuccess
  <2>2. s \in held
    BY CurrentStateIsHeld, <2>1
  <2>3. outcome' \in [Callers -> Outcomes] /\ op' = op
    BY <1>3, <2>1, ReportType DEF SyncDiscardOnSuccess
  <2>4. CASE Construct /\ Discard(s, Fresh) /\ held' = held \cup {Fresh}
    BY <2>2, <2>3, <2>4, ReplaceKeepsLine, ReplaceConverges DEF TypeOK, HeldInv
  <2>5. CASE UNCHANGED <<allocated, discarded, nextState, held>>
    BY <2>3, <2>5, SameConverges DEF TypeOK, HeldInv, ChainInv, FinalInv, OneLiveInstance
  <2> QED
    BY <2>1, <2>4, <2>5
<1>4. ASSUME NEW c \in Callers, NEW h \in held, DirectDiscard(c, h)
      PROVE  IInv'
  <2>1. outcome' \in [Callers -> Outcomes] /\ op' = op
    BY <1>4, ReportType DEF DirectDiscard
  <2>2. CASE Construct /\ Discard(h, Fresh) /\ held' = held \cup {Fresh}
    BY <2>1, <2>2, ReplaceKeepsLine, ReplaceConverges DEF TypeOK, HeldInv
  <2>3. CASE Discard(h, None) /\ UNCHANGED <<allocated, held>>
    BY <2>1, <2>3, FinalizeKeepsLine, FinalizeConverges DEF TypeOK, HeldInv
  <2>4. CASE UNCHANGED <<allocated, discarded, nextState, held>>
    BY <2>1, <2>4, SameConverges DEF TypeOK, HeldInv, ChainInv, FinalInv, OneLiveInstance
  <2> QED
    BY <1>4, <2>2, <2>3, <2>4 DEF DirectDiscard
<1>5. ASSUME NEW c \in Callers, DiscardOnSuccess(c)
      PROVE  IInv'
  <2> DEFINE s == op[c].current
  <2>1. s \in held
    BY <1>5 DEF DiscardOnSuccess, HeldInv
  <2>2. outcome' \in [Callers -> Outcomes]
    BY <1>5, ReportType DEF DiscardOnSuccess
  <2>3. held \subseteq held'
    BY <1>5 DEF DiscardOnSuccess
  <2>4. /\ op' \in [Callers -> [kind : Kinds, current : States \cup {None}]]
        /\ \A d \in Callers : IF op'[d].kind = "idle" THEN op'[d].current = None ELSE op'[d].current \in held'
    BY <1>5, <2>3, EndKeepsOps DEF DiscardOnSuccess
  <2>5. CASE Construct /\ Discard(s, Fresh) /\ held' = held \cup {Fresh}
    BY <2>1, <2>2, <2>4, <2>5, ReplaceKeepsLine, ReplaceConverges DEF TypeOK, HeldInv
  <2>6. CASE Construct /\ UNCHANGED <<discarded, nextState, held>>
    <3>1. allocated' \in States /\ held' \subseteq 1..allocated'
      BY <2>6, MaxStatesAssumption DEF Construct, Fresh, States, TypeOK, HeldInv
    <3> QED
      BY <2>2, <2>4, <2>6, <3>1, SameConverges DEF TypeOK, HeldInv, ChainInv, FinalInv, OneLiveInstance
  <2> QED
    BY <1>5, <2>5, <2>6 DEF DiscardOnSuccess
<1>6. ASSUME NEW c \in Callers, DiscardOnFailure(c)
      PROVE  IInv'
  <2>1. outcome' \in [Callers -> Outcomes] /\ UNCHANGED <<allocated, discarded, nextState, held>>
    BY <1>6, ReportType DEF DiscardOnFailure
  <2>2. /\ op' \in [Callers -> [kind : Kinds, current : States \cup {None}]]
        /\ \A d \in Callers : IF op'[d].kind = "idle" THEN op'[d].current = None ELSE op'[d].current \in held'
    BY <1>6, <2>1, EndKeepsOps DEF DiscardOnFailure
  <2> QED
    BY <2>1, <2>2, SameConverges DEF TypeOK, HeldInv, ChainInv, FinalInv, OneLiveInstance
<1>7. ASSUME NEW c \in Callers, NEW action \in {"resolved", "rejected"}, FinalizeOnSuccess(c, action)
      PROVE  IInv'
  <2> DEFINE s == op[c].current
  <2>1. s \in held
    BY <1>7 DEF FinalizeOnSuccess, HeldInv
  <2>2. outcome' \in [Callers -> Outcomes] /\ UNCHANGED <<allocated, held>>
    BY <1>7, ReportType DEF FinalizeOnSuccess
  <2>3. /\ op' \in [Callers -> [kind : Kinds, current : States \cup {None}]]
        /\ \A d \in Callers : IF op'[d].kind = "idle" THEN op'[d].current = None ELSE op'[d].current \in held'
    BY <1>7, <2>2, EndKeepsOps DEF FinalizeOnSuccess
  <2>4. CASE Discard(s, None)
    BY <2>1, <2>2, <2>3, <2>4, FinalizeKeepsLine, FinalizeConverges DEF TypeOK, HeldInv
  <2>5. CASE UNCHANGED <<discarded, nextState>>
    BY <2>2, <2>3, <2>5, SameConverges DEF TypeOK, HeldInv, ChainInv, FinalInv, OneLiveInstance
  <2> QED
    BY <1>7, <2>4, <2>5 DEF FinalizeOnSuccess
<1>8. CASE UNCHANGED vars
  BY <1>8, SameConverges DEF vars, TypeOK, HeldInv, ChainInv, FinalInv, OneLiveInstance
<1> QED
  BY <1>1, <1>2, <1>3, <1>4, <1>5, <1>6, <1>7, <1>8 DEF Next

(* The strengthening holds in every reachable state. *)
THEOREM Invariance == Spec => []IInv
  BY InitIInv, NextIInv, PTL DEF Spec

(* State.ts never leaves two live instances in callers' hands, however     *)
(* many operations overlap.                                                *)
THEOREM OneLive == Spec => []OneLiveInstance
<1>1. IInv => OneLiveInstance
  BY DEF IInv
<1> QED
  BY <1>1, Invariance, PTL

(* However old the handle, getCurrentState finds the one live instance.    *)
THEOREM Converge == Spec => []HandlesConverge
<1>1. IInv => HandlesConverge
  BY DEF IInv
<1> QED
  BY <1>1, Invariance, PTL

(* A nonempty set of naturals has a least element. *)
LEMMA LeastNat ==
  ASSUME NEW S, S \subseteq Nat, S # {}
  PROVE  \E x \in S : \A y \in S : x <= y
<1> DEFINE Less == OpToRel(<, Nat)
<1>1. PICK x \in S : \A y \in S : <<y, x>> \notin Less
  <2>1. IsWellFoundedOn(Less, Nat)
    BY NatLessThanWellFounded
  <2> HIDE DEF Less
  <2> QED BY <2>1, WFMin
<1>2. \A y \in S : ~ (y < x)
  BY <1>1 DEF OpToRel
<1> QED BY <1>2

(* The loop of getCurrentState, with n iterations left. *)
Iterates(f, n) ==
  f[n] = [s \in States \cup {None} |->
            IF s = None \/ s \notin discarded THEN s
            ELSE IF n = 0 THEN Fuel
            ELSE f[n - 1][nextState[s]]]

(* Its equation has a solution, built one iteration after the other. *)
LEMMA LoopIs == \A n \in 0..MaxStates : Iterates(LoopFrom, n)
<1> DEFINE After(f, n) == [s \in States \cup {None} |->
                            IF s = None \/ s \notin discarded THEN s
                            ELSE IF n = 0 THEN Fuel
                            ELSE f[n - 1][nextState[s]]]
           Unsolved == {k \in Nat : ~ \E f : \A n \in 0..k : Iterates(f, n)}
<1>m. MaxStates \in Nat
  BY MaxStatesAssumption
<1>1. Unsolved = {}
  <2> SUFFICES ASSUME Unsolved # {} PROVE FALSE
    OBVIOUS
  <2>1. PICK k \in Unsolved : \A j \in Unsolved : k <= j
    <3>1. Unsolved \subseteq Nat
      OBVIOUS
    <3> HIDE DEF Unsolved
    <3> QED BY <3>1, LeastNat
  <2>2. PICK f : \A n \in 0..k : n < k => Iterates(f, n)
    <3>1. CASE k = 0
      BY <3>1
    <3>2. CASE k # 0
      <4>1. k - 1 \in Nat /\ ~(k <= k - 1)
        BY <2>1, <3>2
      <4>2. \E f : \A n \in 0..(k - 1) : Iterates(f, n)
        BY <2>1, <4>1
      <4>3. \A n \in 0..k : n < k => n \in 0..(k - 1)
        BY <2>1
      <4> QED BY <4>2, <4>3
    <3> QED BY <3>1, <3>2
  <2> DEFINE g == [n \in 0..k |-> IF n = k THEN After(f, k) ELSE f[n]]
  <2>3. ASSUME NEW n \in 0..k PROVE Iterates(g, n)
    <3>1. n = 0 \/ (n - 1 \in 0..k /\ n - 1 # k)
      BY <2>1
    <3>2. n # 0 => g[n - 1] = f[n - 1]
      BY <3>1
    <3>3. After(g, n) = After(f, n)
      BY <3>2
    <3>4. g[n] = After(f, n)
      <4>1. CASE n = k
        BY <4>1
      <4>2. CASE n # k
        <5>1. n < k
          BY <2>1, <4>2
        <5> QED BY <2>2, <4>2, <5>1 DEF Iterates
      <4> QED BY <4>1, <4>2
    <3> HIDE DEF g
    <3> QED BY <3>3, <3>4 DEF Iterates
  <2> HIDE DEF g
  <2> QED BY <2>1, <2>3
<1>2. PICK f : \A n \in 0..MaxStates : Iterates(f, n)
  BY <1>m, <1>1
<1> DEFINE g == [n \in 0..MaxStates |-> f[n]]
<1>3. ASSUME NEW n \in 0..MaxStates PROVE g[n] = After(g, n)
  <2>1. n = 0 \/ n - 1 \in 0..MaxStates
    BY <1>m
  <2>2. After(g, n) = After(f, n)
    BY <2>1
  <2> QED BY <1>2, <2>2 DEF Iterates
<1>4. g = [n \in 0..MaxStates |-> After(g, n)]
  BY <1>3
<1>5. \E h : h = [n \in 0..MaxStates |-> After(h, n)]
  <2> HIDE DEF g
  <2> QED BY <1>4
<1>6. LoopFrom = [n \in 0..MaxStates |-> After(LoopFrom, n)]
  BY <1>5 DEF LoopFrom
<1> QED BY <1>6 DEF Iterates

(* Replacements being constructed after what they replace, no more than    *)
(* MaxStates of them follow each other.                                    *)
Reaches(r) ==
  \/ r \in held \ discarded
  \/ r = None /\ \E s \in discarded : nextState[s] = None

LEMMA LoopReaches ==
  ASSUME IInv
  PROVE  \A n \in 0..MaxStates : \A s \in held : s + n > MaxStates => Reaches(LoopFrom[n][s])
<1> DEFINE Stuck == {n \in 0..MaxStates : \E s \in held : s + n > MaxStates /\ ~Reaches(LoopFrom[n][s])}
<1>m. MaxStates \in Nat /\ held \subseteq States /\ States \subseteq Nat /\ \A s \in States : s <= MaxStates
  BY HeldIsStates, MaxStatesAssumption DEF IInv, States
<1> SUFFICES ASSUME Stuck # {} PROVE FALSE
  OBVIOUS
<1>1. PICK n \in Stuck : \A j \in Stuck : n <= j
  <2>1. Stuck \subseteq Nat
    BY <1>m
  <2> HIDE DEF Stuck
  <2> QED BY <2>1, LeastNat
<1>2. PICK s \in held : s + n > MaxStates /\ ~Reaches(LoopFrom[n][s])
  BY <1>1
<1>3. n # 0 /\ n - 1 \in 0..MaxStates /\ n - 1 \notin Stuck
  BY <1>m, <1>1, <1>2
<1>4. LoopFrom[n][s] = IF s \notin discarded THEN s ELSE LoopFrom[n - 1][nextState[s]]
  <2>1. Iterates(LoopFrom, n) /\ s \in States /\ s # None
    BY <1>m, <1>1, <1>2, LoopIs DEF States, None
  <2> QED BY <1>3, <2>1 DEF Iterates
<1>5. s \in discarded
  BY <1>2, <1>4 DEF Reaches
<1>6. CASE nextState[s] = None
  <2>1. Iterates(LoopFrom, n - 1)
    BY <1>3, LoopIs
  <2>2. LoopFrom[n - 1][None] = None
    BY <2>1 DEF Iterates
  <2> QED BY <1>2, <1>4, <1>5, <1>6, <2>2 DEF Reaches
<1>7. CASE nextState[s] # None
  <2>1. nextState[s] \in held /\ nextState[s] > s
    BY <1>5, <1>7 DEF IInv, ChainInv
  <2>n. n \in Int /\ s \in Int /\ nextState[s] \in Int /\ MaxStates \in Int
    <3>1. s \in Nat /\ nextState[s] \in Nat
      BY <1>m, <2>1
    <3> QED BY <1>m, <1>1, <3>1
  <2>2. nextState[s] + (n - 1) > MaxStates
    <3>1. ASSUME NEW t \in Int, NEW k \in Int, NEW r \in Int, NEW m \in Int, r + k > m, t > r PROVE t + (k - 1) > m
      BY <3>1
    <3> QED BY <1>2, <2>n, <2>1, <3>1
  <2>3. Reaches(LoopFrom[n - 1][nextState[s]])
    BY <1>3, <2>1, <2>2
  <2> QED BY <1>2, <1>4, <1>5, <2>3
<1> QED BY <1>6, <1>7

(* The loop of getCurrentState ends, from every handle, on the instance of *)
(* the chain that is not discarded, or on undefined when there is none.    *)
THEOREM LoopEnds == Spec => []LoopFindsCurrent
<1>1. IInv => LoopFindsCurrent
  <2> SUFFICES ASSUME IInv, NEW h \in held PROVE CurrentState(h) = {GetCurrentState(h)} \ {None}
    BY DEF LoopFindsCurrent
  <2>1. MaxStates \in Nat /\ h \in 1..MaxStates
    BY HeldIsStates, MaxStatesAssumption DEF IInv, States
  <2>2. Reaches(GetCurrentState(h))
    BY <2>1, LoopReaches DEF GetCurrentState
  <2>3. CurrentState(h) = held \ discarded
    BY DEF IInv, HandlesConverge
  <2>4. None \notin held
    BY HeldIsStates DEF IInv, States, None
  <2> QED BY <2>2, <2>3, <2>4 DEF Reaches, IInv, OneLiveInstance, FinalInv
<1> QED
  BY <1>1, Invariance, PTL

(* Every variable of StateChain keeps its type. *)
THEOREM TypeCorrect == Spec => []TypeOK
<1>1. IInv => TypeOK
  BY DEF IInv
<1> QED
  BY <1>1, Invariance, PTL

(* A replaced or finalized instance never changes again: only an instance  *)
(* that is not yet discarded has its fields assigned.                      *)
THEOREM DiscardFinal == Spec => DiscardIsFinal
<1> DEFINE Kept == \A s \in discarded : s \in discarded' /\ nextState'[s] = nextState[s]
<1>1. ASSUME TypeOK, NEW t, NEW n, Discard(t, n) PROVE Kept
  BY <1>1 DEF Discard, MarkDiscarded, ensureCurrent, TypeOK
<1>2. ASSUME UNCHANGED <<discarded, nextState>> PROVE Kept
  BY <1>2
<1>3. ASSUME IInv, Next PROVE Kept
  <2>1. TypeOK
    BY <1>3 DEF IInv
  <2>2. UNCHANGED <<discarded, nextState>> \/ \E t : \E n : Discard(t, n)
    BY <1>3 DEF Next, WithoutReplacement, Start, SyncDiscardOnSuccess, DirectDiscard,
                DiscardOnSuccess, DiscardOnFailure, FinalizeOnSuccess
  <2> QED
    BY <1>1, <1>2, <2>1, <2>2
<1>4. IInv /\ [Next]_vars => [Kept]_vars
  BY <1>3
<1> QED
  BY <1>4, Invariance, PTL DEF Spec, DiscardIsFinal

-----------------------------------------------------------------------------
(* Refinement: every step of State.ts is a step of the compare-and-set     *)
(* cell, or leaves it unchanged.                                           *)

(* The mapped cell holds the live instance, when there is one. *)
LEMMA LiveIs ==
  ASSUME NEW H, NEW D, NEW s \in H \ D, \A t \in H \ D : t = s
  PROVE  LiveAmong(H, D) = s
BY DEF LiveAmong

(* It is closed when there is none. *)
LEMMA LiveNone ==
  ASSUME NEW H, NEW D, H \subseteq D
  PROVE  LiveAmong(H, D) = None
BY DEF LiveAmong

Seen == [c \in Callers |-> op[c].current]

Verdict == [c \in Callers |-> VerdictOf(outcome[c])]

(* What an outcome is to the callers of the cell. *)
LEMMA VerdictValues ==
  /\ VerdictOf([action |-> "resolved", report |-> "returned"]) = "committed"
  /\ VerdictOf([action |-> "rejected", report |-> "returned"]) = "committed"
  /\ VerdictOf([action |-> "resolved", report |-> "threw"]) = "conflict"
  /\ VerdictOf([action |-> "rejected", report |-> "threw"]) = "aborted"
  /\ VerdictOf([action |-> "none", report |-> "threw"]) = "closed"
  /\ VerdictOf([action |-> "none", report |-> "none"]) = "none"
BY DEF VerdictOf

(* What End and Report do to the mapped variables. *)
LEMMA MappedEnd ==
  ASSUME TypeOK, NEW c \in Callers, End(c)
  PROVE  Seen' = [Seen EXCEPT ![c] = None]
BY DEF Seen, End, Idle, TypeOK

(* An outcome that is reported is reported by the cell. *)
LEMMA MappedReport ==
  ASSUME TypeOK, NEW c \in Callers, NEW a, NEW r, Report(c, a, r)
  PROVE  Verdict' = [Verdict EXCEPT ![c] = VerdictOf([action |-> a, report |-> r])]
BY DEF Verdict, Report, TypeOK

(* The mapped cell before and after an instance is replaced or finalized. *)
LEMMA LiveBefore ==
  ASSUME IInv, NEW s \in held, s \notin discarded
  PROVE  LiveInstance = s /\ s \in States /\ s # None
<1>1. \A t \in held \ discarded : t = s
  BY DEF IInv, OneLiveInstance
<1>2. LiveInstance = s
  BY <1>1, LiveIs DEF LiveInstance
<1> QED
  BY <1>2, HeldIsStates DEF IInv, States, None

(* A replacement of the live instance moves the cell forward. *)
LEMMA ReplaceMovesCell ==
  ASSUME IInv, IInv', NEW s \in held, Construct, Discard(s, Fresh), held' = held \cup {Fresh}
  PROVE  /\ LiveInstance = s /\ LiveInstance # None
         /\ LiveInstance' \in States /\ LiveInstance' > LiveInstance
<1>1. s \notin discarded /\ LiveInstance = s /\ s # None
  BY LiveBefore DEF Discard, ensureCurrent
<1>2. Fresh \in States /\ Fresh > s /\ Fresh # s /\ Fresh \notin discarded
  BY <1>1, MaxStatesAssumption DEF IInv, TypeOK, HeldInv, States, Construct, Fresh
<1>3. Fresh \in held' \ discarded'
  BY <1>2 DEF Discard, MarkDiscarded
<1>4. LiveInstance' = Fresh
  BY <1>3, LiveIs DEF IInv, OneLiveInstance, LiveInstance
<1> QED
  BY <1>1, <1>2, <1>4

(* A finalization closes it. *)
LEMMA FinalizeClosesCell ==
  ASSUME IInv, NEW s \in held, Discard(s, None), held' = held
  PROVE  LiveInstance = s /\ LiveInstance # None /\ LiveInstance' = None
<1>1. s \notin discarded /\ LiveInstance = s /\ s # None
  BY LiveBefore DEF Discard, ensureCurrent
<1>2. held' \subseteq discarded'
  BY <1>1 DEF IInv, OneLiveInstance, Discard, MarkDiscarded
<1> QED
  BY <1>1, <1>2, LiveNone DEF LiveInstance

(* Initial states map to initial states. *)
LEMMA InitRefines == Init => Cell!Init
<1> SUFFICES ASSUME Init PROVE Cell!Init
  OBVIOUS
<1>1. IInv
  BY InitIInv
<1>2. LiveInstance = 1 /\ 1 \in States
  BY <1>1, LiveBefore DEF Init
<1>3. Seen = [c \in Callers |-> 0]
  BY DEF Init, Seen, Idle, None
<1>4. Verdict = [c \in Callers |-> "none"]
  BY VerdictValues DEF Init, Verdict
<1> QED
  BY <1>2, <1>3, <1>4 DEF Cell!Init, Cell!Closed, Cell!Versions, States, Seen, Verdict

(* Every step maps to a step or to a stutter. *)
LEMMA StepRefines ==
  ASSUME IInv, IInv', [Next]_vars
  PROVE  [Cell!Next]_Cell!vars
<1> USE DEF Cell!Closed, Cell!Versions, None, States
<1>1. TypeOK
  BY DEF IInv
<1>2. ASSUME NEW c \in Callers, op[c].kind = "idle"
      PROVE  Seen[c] = 0
  BY <1>2 DEF Seen, IInv, HeldInv
<1>3. ASSUME NEW c \in Callers, op[c].kind # "idle"
      PROVE  Seen[c] = op[c].current /\ op[c].current \in held /\ Seen[c] # 0
  BY <1>3 DEF Seen, IInv, HeldInv, TypeOK, States
<1>4. ASSUME NEW c \in Callers, NEW v, Seen' = [Seen EXCEPT ![c] = 0], Verdict' = [Verdict EXCEPT ![c] = v]
      PROVE  Cell!End(c, v)
  BY <1>4 DEF Cell!End, Seen, Verdict
<1>5. ASSUME NEW c \in Callers, NEW v, op[c].kind = "idle", op' = op, Verdict' = [Verdict EXCEPT ![c] = v]
      PROVE  Cell!End(c, v)
  <2>1. Seen' = Seen
    BY <1>5 DEF Seen
  <2>2. Seen' = [Seen EXCEPT ![c] = 0]
    BY <1>2, <1>5, <2>1 DEF Seen
  <2> QED
    BY <1>4, <1>5, <2>2
<1>6. ASSUME NEW c \in Callers, NEW h \in held, WithoutReplacement(c, h)
      PROVE  Cell!Refuse(c)
  <2>1. held \subseteq discarded
    BY <1>6 DEF WithoutReplacement, IInv, HandlesConverge
  <2>2. LiveInstance = 0 /\ LiveInstance' = LiveInstance
    BY <1>6, <2>1, LiveNone DEF WithoutReplacement, LiveInstance
  <2>3. Cell!End(c, "closed")
    BY <1>1, <1>5, <1>6, MappedReport, VerdictValues DEF WithoutReplacement
  <2> QED
    BY <1>2, <1>6, <2>2, <2>3 DEF Cell!Refuse, WithoutReplacement, Seen
<1>7. ASSUME NEW c \in Callers, NEW h \in held, NEW kind \in Kinds, Start(c, h, kind)
      PROVE  Cell!Begin(c)
  <2>1. PICK s \in CurrentState(h) : op' = [op EXCEPT ![c] = [kind |-> kind, current |-> s]]
    BY <1>7 DEF Start
  <2>2. s \in held /\ s \notin discarded
    BY <2>1 DEF IInv, HandlesConverge
  <2>3. LiveInstance = s /\ s # 0 /\ LiveInstance' = LiveInstance
    BY <1>7, <2>2, LiveBefore DEF Start, LiveInstance
  <2>4. Seen' = [Seen EXCEPT ![c] = s] /\ Verdict' = Verdict
    BY <1>1, <1>7, <2>1 DEF Start, Seen, Verdict, TypeOK
  <2> QED
    BY <1>2, <1>7, <2>3, <2>4 DEF Cell!Begin, Start, Seen, Verdict
<1>8. ASSUME NEW c \in Callers, NEW h \in held, SyncDiscardOnSuccess(c, h)
      PROVE  Cell!Swap(c) \/ Cell!Refuse(c)
  <2>1. PICK s \in CurrentState(h) :
          \/ Construct /\ Discard(s, Fresh) /\ held' = held \cup {Fresh} /\ Report(c, "resolved", "returned")
          \/ Report(c, "rejected", "threw") /\ UNCHANGED <<allocated, discarded, nextState, held>>
    BY <1>8 DEF SyncDiscardOnSuccess
  <2>2. s \in held
    BY <2>1 DEF IInv, HandlesConverge
  <2>3. CASE Construct /\ Discard(s, Fresh) /\ held' = held \cup {Fresh} /\ Report(c, "resolved", "returned")
    <3>1. Cell!Advance
      BY <2>2, <2>3, ReplaceMovesCell DEF Cell!Advance
    <3>2. Cell!End(c, "committed")
      BY <1>1, <1>5, <1>8, <2>3, MappedReport, VerdictValues DEF SyncDiscardOnSuccess
    <3> QED
      BY <1>2, <1>8, <3>1, <3>2 DEF Cell!Swap, SyncDiscardOnSuccess, Seen
  <2>4. CASE Report(c, "rejected", "threw") /\ UNCHANGED <<allocated, discarded, nextState, held>>
    <3>1. Cell!End(c, "aborted") /\ LiveInstance' = LiveInstance
      BY <1>1, <1>5, <1>8, <2>4, MappedReport, VerdictValues DEF SyncDiscardOnSuccess, LiveInstance
    <3> QED
      BY <1>2, <1>8, <3>1 DEF Cell!Refuse, SyncDiscardOnSuccess, Seen
  <2> QED
    BY <2>1, <2>3, <2>4
<1>9. ASSUME NEW c \in Callers, NEW h \in held, DirectDiscard(c, h)
      PROVE  Cell!Swap(c) \/ Cell!Refuse(c)
  <2>1. CASE Construct /\ Discard(h, Fresh) /\ held' = held \cup {Fresh} /\ Report(c, "resolved", "returned")
    <3>1. Cell!Advance
      BY <2>1, ReplaceMovesCell DEF Cell!Advance
    <3>2. Cell!End(c, "committed")
      BY <1>1, <1>5, <1>9, <2>1, MappedReport, VerdictValues DEF DirectDiscard
    <3> QED
      BY <1>2, <1>9, <3>1, <3>2 DEF Cell!Swap, DirectDiscard, Seen
  <2>2. CASE Discard(h, None) /\ Report(c, "resolved", "returned") /\ UNCHANGED <<allocated, held>>
    <3>1. LiveInstance # 0 /\ LiveInstance' = 0
      BY <2>2, FinalizeClosesCell
    <3>2. Cell!End(c, "committed")
      BY <1>1, <1>5, <1>9, <2>2, MappedReport, VerdictValues DEF DirectDiscard
    <3> QED
      BY <1>2, <1>9, <3>1, <3>2 DEF Cell!Swap, DirectDiscard, Seen
  <2>3. CASE Report(c, "rejected", "threw") /\ UNCHANGED <<allocated, discarded, nextState, held>>
    <3>1. Cell!End(c, "aborted") /\ LiveInstance' = LiveInstance
      BY <1>1, <1>5, <1>9, <2>3, MappedReport, VerdictValues DEF DirectDiscard, LiveInstance
    <3> QED
      BY <1>2, <1>9, <3>1 DEF Cell!Refuse, DirectDiscard, Seen
  <2> QED
    BY <1>9, <2>1, <2>2, <2>3 DEF DirectDiscard
<1>10. ASSUME NEW c \in Callers, DiscardOnSuccess(c)
       PROVE  Cell!Commit(c) \/ Cell!Conflict(c)
  <2> DEFINE s == op[c].current
  <2>1. Seen[c] = s /\ s \in held /\ Seen[c] # 0
    BY <1>3, <1>10 DEF DiscardOnSuccess
  <2>2. Seen' = [Seen EXCEPT ![c] = 0]
    BY <1>1, <1>10, MappedEnd DEF DiscardOnSuccess
  <2>3. CASE Construct /\ Discard(s, Fresh) /\ held' = held \cup {Fresh} /\ Report(c, "resolved", "returned")
    <3>1. Cell!Advance /\ LiveInstance = s
      BY <2>1, <2>3, ReplaceMovesCell DEF Cell!Advance
    <3>2. Verdict' = [Verdict EXCEPT ![c] = "committed"]
      BY <1>1, <2>3, MappedReport, VerdictValues
    <3>3. Cell!End(c, "committed")
      BY <1>4, <2>2, <3>2
    <3> QED
      BY <2>1, <3>1, <3>3 DEF Cell!Commit, Seen
  <2>4. CASE ~ensureCurrent(s) /\ Report(c, "resolved", "threw") /\ UNCHANGED <<discarded, nextState, held>>
    <3>1. LiveInstance # s
      <4>1. CASE held \subseteq discarded
        BY <2>1, <4>1, LiveNone DEF LiveInstance
      <4>2. CASE \E t \in held : t \notin discarded
        <5>1. PICK t \in held : t \notin discarded
          BY <4>2
        <5> QED
          BY <2>4, <5>1, LiveBefore DEF ensureCurrent
      <4> QED
        BY <4>1, <4>2
    <3>2. Verdict' = [Verdict EXCEPT ![c] = "conflict"] /\ LiveInstance' = LiveInstance
      BY <1>1, <2>4, MappedReport, VerdictValues DEF LiveInstance
    <3>3. Cell!End(c, "conflict")
      BY <1>4, <2>2, <3>2
    <3> QED
      BY <2>1, <3>1, <3>2, <3>3 DEF Cell!Conflict, Seen
  <2> QED
    BY <1>10, <2>3, <2>4 DEF DiscardOnSuccess
<1>11. ASSUME NEW c \in Callers, DiscardOnFailure(c)
       PROVE  Cell!Abort(c)
  <2>1. Seen[c] # 0 /\ Seen' = [Seen EXCEPT ![c] = 0] /\ LiveInstance' = LiveInstance
    BY <1>1, <1>3, <1>11, MappedEnd DEF DiscardOnFailure, LiveInstance
  <2>2. Verdict' = [Verdict EXCEPT ![c] = "aborted"]
    BY <1>1, <1>11, MappedReport, VerdictValues DEF DiscardOnFailure
  <2>3. Cell!End(c, "aborted")
    BY <1>4, <2>1, <2>2
  <2> QED
    BY <2>1, <2>3 DEF Cell!Abort, Seen
<1>12. ASSUME NEW c \in Callers, NEW action \in {"resolved", "rejected"}, FinalizeOnSuccess(c, action)
       PROVE  Cell!Close(c) \/ Cell!Conflict(c) \/ Cell!Abort(c)
  <2> DEFINE s == op[c].current
  <2>1. Seen[c] = s /\ s \in held /\ Seen[c] # 0
    BY <1>3, <1>12 DEF FinalizeOnSuccess
  <2>2. Seen' = [Seen EXCEPT ![c] = 0]
    BY <1>1, <1>12, MappedEnd DEF FinalizeOnSuccess
  <2>3. CASE /\ Discard(s, None)
             /\ Report(c, action, IF action = "resolved" THEN "returned" ELSE "threw")
    <3>1. LiveInstance = s /\ LiveInstance' = 0
      BY <1>12, <2>1, <2>3, FinalizeClosesCell DEF FinalizeOnSuccess
    <3>2. \E v \in {"committed", "aborted"} : Verdict' = [Verdict EXCEPT ![c] = v]
      <4>1. CASE action = "resolved"
        BY <1>1, <2>3, <4>1, MappedReport, VerdictValues
      <4>2. CASE action = "rejected"
        BY <1>1, <2>3, <4>2, MappedReport, VerdictValues
      <4> QED
        BY <4>1, <4>2
    <3>3. \E v \in {"committed", "aborted"} : Cell!End(c, v)
      BY <1>4, <2>2, <3>2
    <3> QED
      BY <2>1, <3>1, <3>3 DEF Cell!Close, Seen
  <2>4. CASE ~ensureCurrent(s) /\ Report(c, action, "threw") /\ UNCHANGED <<discarded, nextState>>
    <3>1. LiveInstance # s
      <4>1. CASE held \subseteq discarded
        BY <2>1, <4>1, LiveNone DEF LiveInstance
      <4>2. CASE \E t \in held : t \notin discarded
        <5>1. PICK t \in held : t \notin discarded
          BY <4>2
        <5> QED
          BY <2>4, <5>1, LiveBefore DEF ensureCurrent
      <4> QED
        BY <4>1, <4>2
    <3>2. LiveInstance' = LiveInstance
      BY <1>12, <2>4 DEF LiveInstance, FinalizeOnSuccess
    <3>3. CASE action = "resolved"
      <4>1. Verdict' = [Verdict EXCEPT ![c] = "conflict"]
        BY <1>1, <2>4, <3>3, MappedReport, VerdictValues
      <4>2. Cell!End(c, "conflict")
        BY <1>4, <2>2, <4>1
      <4> QED
        BY <2>1, <3>1, <3>2, <4>2 DEF Cell!Conflict, Seen
    <3>4. CASE action = "rejected"
      <4>1. Verdict' = [Verdict EXCEPT ![c] = "aborted"]
        BY <1>1, <2>4, <3>4, MappedReport, VerdictValues
      <4>2. Cell!End(c, "aborted")
        BY <1>4, <2>2, <4>1
      <4> QED
        BY <2>1, <3>2, <4>2 DEF Cell!Abort, Seen
    <3> QED
      BY <3>3, <3>4
  <2> QED
    BY <1>12, <2>3, <2>4 DEF FinalizeOnSuccess
<1>13. CASE UNCHANGED vars
  BY <1>13 DEF vars, Cell!vars, LiveInstance, Seen, Verdict
<1>14. CASE Next
  BY <1>6, <1>7, <1>8, <1>9, <1>10, <1>11, <1>12, <1>14 DEF Next, Cell!Next
<1> QED
  BY <1>13, <1>14

(* State.ts implements the compare-and-set cell for any callers and any    *)
(* number of instances.                                                    *)
THEOREM Refinement == Spec => ImplementsCompareAndSet
<1>1. Init => Cell!Init
  BY InitRefines
<1>2. IInv /\ IInv' /\ [Next]_vars => [Cell!Next]_Cell!vars
  BY StepRefines
<1> QED
  BY <1>1, <1>2, Invariance, PTL DEF Spec, Cell!Spec, ImplementsCompareAndSet
=============================================================================
