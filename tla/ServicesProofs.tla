---------------------------- MODULE ServicesProofs ----------------------------
(***************************************************************************)
(* Proofs about Services and Algorithms, whose parts share no state: no    *)
(* node is lost, a session survives, a workload is recent, votes lead to   *)
(* the list, estimates add up, terms are sound, and amounts are exact.  A  *)
(* part only moves in behaviours that are about it, and each has an        *)
(* inductive invariant of its own.                                         *)
(***************************************************************************)
EXTENDS Services, Algorithms, WellFoundedInduction, SequenceTheorems, FiniteSetTheorems, TLAPS

-----------------------------------------------------------------------------
(* The nodes. *)

Client ==
  [use : Uses \union {"none"}, of : Nat, from : SUBSET NodeSet, up : SUBSET NodeSet,
   down : SUBSET NodeSet, asked : [Fetches -> SUBSET NodeSet]]

NodesType ==
  /\ logion \in LogionClients
  /\ officers \in [LogionClients -> SUBSET NodeSet]
  /\ origins \in [LogionClients -> SUBSET LogionClients]
  /\ network \in [LogionClients -> [up : SUBSET NodeSet, down : SUBSET NodeSet]]
  /\ http \in [HttpClients -> Client]
  /\ untimely \subseteq LogionClients

(* A client has the nodes it began with, each of them once. *)
KeepsNodes(client) ==
  /\ client.up \union client.down \union client.asked[1] \union client.asked[2] = client.from
  /\ client.up \intersect client.down = {}
  /\ IF client.use = "any"
     THEN client.asked[1] \subseteq client.up /\ client.asked[2] = {}
     ELSE /\ (client.asked[1] \union client.asked[2]) \intersect (client.up \union client.down) = {}
          /\ client.asked[1] \intersect client.asked[2] = {}

(* Why the network states stay complete: a client knows the nodes of the   *)
(* LogionClient it was made for, and a LogionClient has no other legal     *)
(* officers than those it comes from.                                      *)
KnowsOfficers(client) ==
  client.use # "none" =>
    /\ client.of \in 1..logion
    /\ \/ client.use = "own"
       \/ client.use = "update" /\ client.of \notin untimely
       => officers[client.of] \subseteq client.from

FewerOfficers ==
  \A l \in 1..logion : \A k \in origins[l] : k <= logion /\ officers[l] \subseteq officers[k]

NetworkComplete ==
  \A l \in 1..logion :
    /\ network[l].up \intersect network[l].down = {}
    /\ l \notin untimely => officers[l] \subseteq network[l].up \union network[l].down

NodesInv ==
  /\ NodesType
  /\ \A c \in HttpClients : KeepsNodes(http[c]) /\ KnowsOfficers(http[c])
  /\ FewerOfficers
  /\ NetworkComplete

(* The nodes that a client is asking. *)
LEMMA AskedIs ==
  ASSUME NEW c \in HttpClients
  PROVE  Asked(c) = http[c].asked[1] \union http[c].asked[2]
BY DEF Asked, Fetches

(* A step of one client that leaves the LogionClients alone. *)
LEMMA ClientStep ==
  ASSUME NodesInv, NEW c \in HttpClients, NEW client \in Client,
         http' = [http EXCEPT ![c] = client], UNCHANGED logionVars,
         KeepsNodes(client), KnowsOfficers(client)
  PROVE  NodesInv'
<1>1. NodesType'
  BY DEF NodesInv, NodesType, logionVars
<1>2. http'[c] = client /\ \A d \in HttpClients \ {c} : http'[d] = http[d]
  BY DEF NodesInv, NodesType
<1>3. \A d \in HttpClients : KeepsNodes(http'[d]) /\ KnowsOfficers(http'[d])
  BY <1>2 DEF NodesInv
<1>4. \A d \in HttpClients : KeepsNodes(http'[d]) /\ KnowsOfficers(http[d])'
  BY <1>3 DEF KnowsOfficers, logionVars
<1>5. FewerOfficers' /\ NetworkComplete'
  BY DEF NodesInv, FewerOfficers, NetworkComplete, logionVars
<1> QED BY <1>1, <1>4, <1>5 DEF NodesInv, KeepsNodes

(* A client that was not made, or is not needed any more. *)
LEMMA UnusedClient ==
  /\ Unused \in Client /\ KeepsNodes(Unused) /\ KnowsOfficers(Unused)
  /\ Unused.up = {} /\ Unused.down = {} /\ Unused.asked = [f \in Fetches |-> {}]
BY DEF Unused, Client, KeepsNodes, KnowsOfficers, Fetches

(* A client is made, from a network state or from legal officers. *)
LEMMA BuildStep ==
  ASSUME NodesInv, NEW c \in HttpClients, NEW l \in 1..logion, NEW use \in Uses,
         BuildHttpClient(c, l, use)
  PROVE  NodesInv'
<1>1. PICK given \in IF use = "own" THEN {officers[l]}
                     ELSE IF use = "fetch" THEN {{}} \union SUBSET officers[l]
                     ELSE {{}} :
        http' = [http EXCEPT ![c] = [Unused EXCEPT !.use = use, !.of = l,
                   !.from = InitialState(l, given).up \union InitialState(l, given).down,
                   !.up = InitialState(l, given).up, !.down = InitialState(l, given).down]]
  BY DEF BuildHttpClient
<1> DEFINE state == InitialState(l, given)
           client == [Unused EXCEPT !.use = use, !.of = l, !.from = state.up \union state.down,
                                    !.up = state.up, !.down = state.down]
<1>2. l \in LogionClients /\ officers[l] \subseteq NodeSet
  BY NodesAssumption DEF NodesInv, NodesType, LogionClients
<1>3. given \subseteq NodeSet
  BY <1>2
<1>4. /\ state.up \subseteq NodeSet /\ state.down \subseteq NodeSet
      /\ state.up \intersect state.down = {}
  BY <1>2, <1>3 DEF InitialState, NodesInv, NodesType, NetworkComplete
<1>5. use = "own" \/ (use = "update" /\ l \notin untimely)
        => officers[l] \subseteq state.up \union state.down
  <2>1. CASE use = "own"
    BY <2>1 DEF InitialState
  <2>2. CASE use = "update" /\ l \notin untimely
    BY <2>2 DEF InitialState, NodesInv, NetworkComplete
  <2> QED BY <2>1, <2>2
<1> HIDE DEF state
<1>6. /\ client.use = use /\ client.of = l /\ client.from = state.up \union state.down
      /\ client.up = state.up /\ client.down = state.down
      /\ client.asked = [f \in Fetches |-> {}]
  BY DEF Unused
<1>7. client \in Client
  <2>1. [f \in Fetches |-> {}] \in [Fetches -> SUBSET NodeSet] /\ l \in Nat
    BY <1>2 DEF LogionClients
  <2> QED BY <1>4, <2>1 DEF Client, Unused
<1> HIDE DEF client
<1>8. KeepsNodes(client)
  BY <1>4, <1>6 DEF KeepsNodes, Fetches
<1>9. KnowsOfficers(client)
  BY <1>5, <1>6 DEF KnowsOfficers
<1>10. http' = [http EXCEPT ![c] = client] /\ UNCHANGED logionVars
  BY <1>1 DEF BuildHttpClient, client, state
<1> QED BY <1>7, <1>8, <1>9, <1>10, ClientStep

(* What is asked of a client's nodes stays theirs. *)
LEMMA AskedType ==
  ASSUME NodesInv, NEW c \in HttpClients
  PROVE  /\ http[c] \in Client /\ KeepsNodes(http[c]) /\ KnowsOfficers(http[c])
         /\ 1 \in Fetches /\ 2 \in Fetches
BY DEF NodesInv, NodesType, Fetches

(* A client asks, and is answered. *)
LEMMA FetchStep ==
  ASSUME NodesInv, NEW c \in HttpClients, NEW f \in Fetches,
         Fetch(c, f) \/ (http[c].use # "any" /\ AllSettled(c, f))
  PROVE  NodesInv'
<1> DEFINE old == http[c]
<1>1. old \in Client /\ KeepsNodes(old) /\ KnowsOfficers(old)
  BY AskedType
<1>2. /\ old.asked \in [Fetches -> SUBSET NodeSet] /\ old.use # "any"
      /\ http \in [HttpClients -> Client]
  BY <1>1 DEF Client, Fetch, NodesInv, NodesType
<1>3. CASE Fetch(c, f)
  <2> DEFINE new == [old EXCEPT !.asked = [old.asked EXCEPT ![f] = old.up], !.up = {}]
  <2>1. /\ old.asked[f] = {}
        /\ http' = [http EXCEPT ![c] = new] /\ UNCHANGED logionVars
    BY <1>1, <1>2, <1>3 DEF Fetch, Client
  <2>2. new \in Client
    BY <1>1, <1>2 DEF Client
  <2>3. /\ new.up = {} /\ new.down = old.down /\ new.from = old.from /\ new.use = old.use /\ new.of = old.of
        /\ new.asked[f] = old.up
        /\ \A g \in Fetches : g # f => new.asked[g] = old.asked[g]
    BY <1>1, <1>2 DEF Client
  <2> HIDE DEF new
  <2>4. KeepsNodes(new)
    <3>1. CASE f = 1
      BY <1>1, <1>2, <2>1, <2>3, <3>1 DEF KeepsNodes, Fetches
    <3>2. CASE f = 2
      BY <1>1, <1>2, <2>1, <2>3, <3>2 DEF KeepsNodes, Fetches
    <3> QED BY <3>1, <3>2 DEF Fetches
  <2>5. KnowsOfficers(new)
    BY <1>1, <2>3 DEF KnowsOfficers
  <2> QED BY <2>1, <2>2, <2>4, <2>5, ClientStep
<1>4. CASE AllSettled(c, f)
  <2>1. PICK failed \in SUBSET old.asked[f] : http' = [http EXCEPT ![c] = Settle(old, f, failed)]
    BY <1>4 DEF AllSettled
  <2> DEFINE new == Settle(old, f, failed)
  <2>2. new = [old EXCEPT !.asked = [old.asked EXCEPT ![f] = {}], !.up = old.up \union (old.asked[f] \ failed),
                          !.down = old.down \union failed]
    BY <1>1, <1>2 DEF Settle, Client
  <2>3. new \in Client
    <3>1. /\ old.asked[f] \subseteq NodeSet /\ failed \subseteq NodeSet
          /\ [old.asked EXCEPT ![f] = {}] \in [Fetches -> SUBSET NodeSet]
      BY <1>2, <2>1
    <3>2. old.up \subseteq NodeSet /\ old.down \subseteq NodeSet
      BY <1>1 DEF Client
    <3>3. old.up \union (old.asked[f] \ failed) \subseteq NodeSet /\ old.down \union failed \subseteq NodeSet
      BY <3>1, <3>2
    <3> QED BY <1>1, <2>2, <3>1, <3>3 DEF Client
  <2>4. /\ new.up = old.up \union (old.asked[f] \ failed) /\ new.down = old.down \union failed
        /\ new.from = old.from /\ new.use = old.use /\ new.of = old.of
        /\ new.asked[f] = {}
        /\ \A g \in Fetches : g # f => new.asked[g] = old.asked[g]
    BY <1>1, <1>2, <2>2 DEF Client
  <2> HIDE DEF new
  <2>5. KeepsNodes(new)
    <3>1. CASE f = 1
      BY <1>1, <1>2, <2>1, <2>4, <3>1 DEF KeepsNodes, Fetches
    <3>2. CASE f = 2
      BY <1>1, <1>2, <2>1, <2>4, <3>2 DEF KeepsNodes, Fetches
    <3> QED BY <3>1, <3>2 DEF Fetches
  <2>6. KnowsOfficers(new)
    BY <1>1, <2>4 DEF KnowsOfficers
  <2>7. http' = [http EXCEPT ![c] = new] /\ UNCHANGED logionVars
    BY <1>4, <2>1 DEF AllSettled, new
  <2> QED BY <2>3, <2>5, <2>6, <2>7, ClientStep
<1> QED BY <1>3, <1>4

(* One node is asked, and answers or not. *)
LEMMA AnyStep ==
  ASSUME NodesInv, NEW c \in HttpClients,
         \/ \E n \in NodeSet : AskAny(c, n)
         \/ \E ok \in BOOLEAN : AnyAnswers(c, ok)
  PROVE  NodesInv'
<1> DEFINE old == http[c]
<1>1. old \in Client /\ KeepsNodes(old) /\ KnowsOfficers(old) /\ 1 \in Fetches /\ 2 \in Fetches
  BY AskedType
<1>2. old.asked \in [Fetches -> SUBSET NodeSet] /\ old.use = "any" /\ http \in [HttpClients -> Client]
  BY <1>1 DEF Client, AskAny, AnyAnswers, NodesInv, NodesType
<1>3. ASSUME NEW n \in NodeSet, AskAny(c, n) PROVE NodesInv'
  <2> DEFINE new == [old EXCEPT !.asked = [old.asked EXCEPT ![1] = {n}]]
  <2>1. /\ n \in old.up /\ Asked(c) = {}
        /\ http' = [http EXCEPT ![c] = new] /\ UNCHANGED logionVars
    BY <1>1, <1>2, <1>3 DEF AskAny, Client
  <2>2. new \in Client
    BY <1>1, <1>2 DEF Client
  <2>3. /\ new.up = old.up /\ new.down = old.down /\ new.from = old.from /\ new.use = old.use
        /\ new.of = old.of /\ new.asked[1] = {n} /\ new.asked[2] = old.asked[2]
    BY <1>1, <1>2 DEF Client
  <2>4. old.asked[1] = {}
    BY <2>1, AskedIs
  <2> HIDE DEF new
  <2>5. KeepsNodes(new) /\ KnowsOfficers(new)
    BY <1>1, <1>2, <2>1, <2>3, <2>4 DEF KeepsNodes, KnowsOfficers
  <2> QED BY <2>1, <2>2, <2>5, ClientStep
<1>4. ASSUME NEW ok \in BOOLEAN, AnyAnswers(c, ok) PROVE NodesInv'
  <2>1. UNCHANGED logionVars /\ Asked(c) = old.asked[1]
    BY <1>1, <1>2, <1>4, AskedIs DEF AnyAnswers, KeepsNodes
  <2>2. CASE ok
    <3>1. http' = [http EXCEPT ![c] = Unused]
      BY <1>4, <2>2 DEF AnyAnswers
    <3> QED BY <2>1, <3>1, UnusedClient, ClientStep
  <2>3. CASE ~ok
    <3> DEFINE new == [old EXCEPT !.asked = [old.asked EXCEPT ![1] = {}], !.up = old.up \ old.asked[1],
                                  !.down = old.down \union old.asked[1]]
    <3>1. http' = [http EXCEPT ![c] = IF ok THEN Unused
                                       ELSE [http[c] EXCEPT !.asked[1] = {}, !.up = @ \ Asked(c),
                                                            !.down = @ \union Asked(c)]]
      BY <1>4 DEF AnyAnswers
    <3>2. http' = [http EXCEPT ![c] = new]
      BY <1>1, <1>2, <2>1, <2>3, <3>1 DEF Client
    <3>3. new \in Client
      BY <1>1, <1>2 DEF Client
    <3>4. /\ new.up = old.up \ old.asked[1] /\ new.down = old.down \union old.asked[1]
          /\ new.from = old.from /\ new.use = old.use
          /\ new.of = old.of /\ new.asked[1] = {} /\ new.asked[2] = old.asked[2]
      BY <1>1, <1>2 DEF Client
    <3> HIDE DEF new
    <3>5. KeepsNodes(new) /\ KnowsOfficers(new)
      BY <1>1, <1>2, <3>4 DEF KeepsNodes, KnowsOfficers
    <3> QED BY <2>1, <3>2, <3>3, <3>5, ClientStep
  <2> QED BY <2>2, <2>3
<1> QED BY <1>3, <1>4

(* VaultClient and RecoveryClient write the network state back. *)
LEMMA UpdateStep ==
  ASSUME NodesInv, NEW c \in HttpClients, UpdateNetwork(c)
  PROVE  NodesInv'
<1> DEFINE old == http[c]
           state == [up |-> old.up, down |-> old.down]
<1>1. old \in Client /\ KeepsNodes(old) /\ KnowsOfficers(old)
  BY AskedType
<1>2. /\ old.use = "update" /\ old.asked[1] = {} /\ old.asked[2] = {}
      /\ network' = [network EXCEPT ![old.of] = state]
      /\ http' = [http EXCEPT ![c] = Unused]
      /\ UNCHANGED <<logion, officers, origins, untimely>>
  BY AskedIs DEF UpdateNetwork
<1>3. state.up = old.up /\ state.down = old.down /\ state \in [up : SUBSET NodeSet, down : SUBSET NodeSet]
  BY <1>1 DEF Client
<1>4. old.of \in 1..logion /\ old.of \in LogionClients
  BY <1>1, <1>2, NodesAssumption DEF KnowsOfficers, NodesInv, NodesType, LogionClients
<1> HIDE DEF state
<1>5. NodesType'
  BY <1>2, <1>3, <1>4, UnusedClient DEF NodesInv, NodesType
<1>6. \A d \in HttpClients : KeepsNodes(http'[d]) /\ KnowsOfficers(http'[d])
  BY <1>2, UnusedClient DEF NodesInv, NodesType
<1>7. \A d \in HttpClients : KnowsOfficers(http[d])'
  BY <1>2, <1>6 DEF KnowsOfficers
<1>8. NetworkComplete'
  <2> SUFFICES ASSUME NEW l \in 1..logion
               PROVE  /\ network'[l].up \intersect network'[l].down = {}
                      /\ l \notin untimely => officers[l] \subseteq network'[l].up \union network'[l].down
    BY <1>2 DEF NetworkComplete
  <2>1. l \in LogionClients
    BY NodesAssumption DEF NodesInv, NodesType, LogionClients
  <2>2. CASE l # old.of
    BY <1>2, <2>1, <2>2 DEF NodesInv, NodesType, NetworkComplete
  <2>3. CASE l = old.of
    <3>1. network'[l] = state
      BY <1>2, <2>1, <2>3 DEF NodesInv, NodesType
    <3>2. old.up \union old.down = old.from /\ old.up \intersect old.down = {}
      BY <1>1, <1>2 DEF KeepsNodes
    <3> QED BY <1>1, <1>2, <1>3, <2>3, <3>1, <3>2 DEF KnowsOfficers
  <2> QED BY <2>2, <2>3
<1>9. FewerOfficers'
  BY <1>2 DEF NodesInv, FewerOfficers
<1> QED BY <1>5, <1>6, <1>7, <1>8, <1>9 DEF NodesInv, KeepsNodes

(* LogionClient.updateNetworkState makes another LogionClient. *)
LEMMA NewLogionStep ==
  ASSUME NodesInv, NEW c \in HttpClients, NEW l \in LogionClients, UpdateNetworkState(c, l)
  PROVE  NodesInv'
<1> DEFINE old == http[c]
           state == [up |-> old.up, down |-> old.down]
           new == logion + 1
<1>1. old \in Client /\ KeepsNodes(old) /\ KnowsOfficers(old)
  BY AskedType
<1>2. /\ old.use = "own" /\ l \in 1..logion /\ old.of \in origins[l]
      /\ new \in LogionClients /\ logion' = new /\ new \notin 1..logion
      /\ officers' = [officers EXCEPT ![new] = officers[l] \ old.down]
      /\ origins' = [origins EXCEPT ![new] = origins[l] \union {new}]
      /\ network' = [network EXCEPT ![l] = state, ![new] = state]
      /\ untimely' = IF Asked(c) = {} THEN untimely ELSE untimely \union {l, new}
      /\ UNCHANGED http
  BY NodesAssumption DEF UpdateNetworkState, LogionClients, NodesInv, NodesType
<1>3. state.up = old.up /\ state.down = old.down /\ state \in [up : SUBSET NodeSet, down : SUBSET NodeSet]
  BY <1>1 DEF Client
<1>4. 1..logion \subseteq LogionClients /\ 1..new = (1..logion) \union {new} /\ logion \in Nat
  BY <1>2, NodesAssumption DEF LogionClients, NodesInv, NodesType
<1> HIDE DEF state
<1>5. NodesType'
  BY <1>2, <1>3, <1>4 DEF NodesInv, NodesType
<1>6. /\ officers'[new] = officers[l] \ old.down
      /\ origins'[new] = origins[l] \union {new}
      /\ network'[new] = state /\ network'[l] = state
      /\ \A k \in 1..logion : officers'[k] = officers[k] /\ origins'[k] = origins[k]
      /\ \A k \in 1..logion : k # l => network'[k] = network[k]
  BY <1>2, <1>4 DEF NodesInv, NodesType
<1> HIDE DEF new
<1>7. FewerOfficers'
  <2>1. \A k \in origins[l] : k \in 1..logion /\ officers[l] \subseteq officers[k]
    BY <1>2, <1>4 DEF NodesInv, NodesType, FewerOfficers, LogionClients
  <2>2. \A j \in 1..logion : \A k \in origins[j] : k \in 1..logion /\ officers[j] \subseteq officers[k]
    BY <1>4 DEF NodesInv, NodesType, FewerOfficers, LogionClients
  <2>3. \A k \in origins'[new] : k <= new /\ officers'[new] \subseteq officers'[k]
    BY <1>2, <1>4, <1>6, <2>1 DEF new
  <2>4. \A j \in 1..logion : \A k \in origins'[j] : k <= new /\ officers'[j] \subseteq officers'[k]
    BY <1>4, <1>6, <2>2 DEF new
  <2> QED BY <1>2, <1>4, <2>3, <2>4 DEF FewerOfficers
<1>8. \A d \in HttpClients : KnowsOfficers(http[d])'
  <2> SUFFICES ASSUME NEW d \in HttpClients, http[d].use # "none"
               PROVE  /\ http[d].of \in 1..new
                      /\ \/ http[d].use = "own"
                         \/ http[d].use = "update" /\ http[d].of \notin untimely'
                         => officers'[http[d].of] \subseteq http[d].from
    BY <1>2 DEF KnowsOfficers
  <2>1. /\ http[d].of \in 1..logion
        /\ \/ http[d].use = "own"
           \/ http[d].use = "update" /\ http[d].of \notin untimely
           => officers[http[d].of] \subseteq http[d].from
    BY DEF NodesInv, KnowsOfficers
  <2> QED BY <1>2, <1>4, <1>6, <2>1
<1>9. NetworkComplete'
  <2>1. old.up \intersect old.down = {}
    BY <1>1 DEF KeepsNodes
  <2>2. Asked(c) = {} => officers[l] \subseteq state.up \union state.down
    <3>1. officers[l] \subseteq officers[old.of] /\ officers[old.of] \subseteq old.from
      BY <1>1, <1>2 DEF NodesInv, FewerOfficers, KnowsOfficers
    <3>2. Asked(c) = {} => old.from = old.up \union old.down
      BY <1>1, AskedIs DEF KeepsNodes
    <3> QED BY <1>3, <3>1, <3>2
  <2> SUFFICES ASSUME NEW k \in 1..new
               PROVE  /\ network'[k].up \intersect network'[k].down = {}
                      /\ k \notin untimely' => officers'[k] \subseteq network'[k].up \union network'[k].down
    BY <1>2 DEF NetworkComplete
  <2>3. CASE k \in {l, new}
    BY <1>2, <1>3, <1>6, <2>1, <2>2, <2>3
  <2>4. CASE k \in 1..logion /\ k # l
    <3>1. k \notin untimely' => k \notin untimely
      BY <1>2
    <3> QED BY <1>6, <2>4, <3>1 DEF NodesInv, NetworkComplete
  <2> QED BY <1>4, <2>3, <2>4
<1> QED BY <1>2, <1>5, <1>7, <1>8, <1>9 DEF NodesInv, KeepsNodes

(* Every step of the nodes keeps their invariant. *)
LEMMA NodesStep == NodesInv /\ NodesNext => NodesInv'
<1> SUFFICES ASSUME NodesInv, NEW c \in HttpClients,
                    \/ \E l \in 1..logion, use \in Uses : BuildHttpClient(c, l, use)
                    \/ \E f \in Fetches : Fetch(c, f) \/ (http[c].use # "any" /\ AllSettled(c, f))
                    \/ UpdateNetwork(c)
                    \/ \E l \in LogionClients : UpdateNetworkState(c, l)
                    \/ Drop(c)
                    \/ \E n \in NodeSet : AskAny(c, n)
                    \/ \E ok \in BOOLEAN : AnyAnswers(c, ok)
             PROVE  NodesInv'
  BY DEF NodesNext
<1>1. CASE Drop(c)
  BY <1>1, UnusedClient, ClientStep DEF Drop
<1> QED BY <1>1, BuildStep, FetchStep, AnyStep, UpdateStep, NewLogionStep

(* It holds initially. *)
LEMMA NodesInitially == NodesInit => NodesInv
<1> SUFFICES ASSUME NodesInit PROVE NodesInv
  OBVIOUS
<1>1. 1 \in LogionClients /\ logion = 1 /\ 1..logion = {1}
  BY NodesAssumption DEF NodesInit, LogionClients
<1>2. /\ officers[1] = NodeSet /\ origins[1] = {1}
      /\ network[1] = [up |-> NodeSet, down |-> {}]
  BY <1>1 DEF NodesInit
<1>3. NodesType
  BY <1>1, UnusedClient DEF NodesInit, NodesType
<1>4. FewerOfficers /\ NetworkComplete
  BY <1>1, <1>2 DEF FewerOfficers, NetworkComplete
<1>5. \A c \in HttpClients : http[c] = Unused
  BY DEF NodesInit
<1> QED BY <1>3, <1>4, <1>5, UnusedClient DEF NodesInv

(* For any number of clients, fetches and LogionClients, no client loses   *)
(* a node, whichever fail, and no network state an officer's.              *)
THEOREM NodesKept == Spec => []NoNodeIsLost
<1>1. ServicesInit => NodesInv
  BY NodesInitially DEF ServicesInit
<1>2. NodesInv /\ [ServicesNext]_servicesVars => NodesInv'
  <2> SUFFICES ASSUME NodesInv, [ServicesNext]_servicesVars PROVE NodesInv'
    OBVIOUS
  <2>1. CASE OnNodes
    BY <2>1, NodesStep DEF OnNodes
  <2>2. CASE UNCHANGED nodesVars
    BY <2>2 DEF nodesVars, logionVars, NodesInv, NodesType, KeepsNodes, KnowsOfficers, FewerOfficers,
                NetworkComplete
  <2> QED BY <2>1, <2>2 DEF ServicesNext, servicesVars, OnVotes, OnSession, OnWorkload
<1>3. NodesInv => NoNodeIsLost
  <2> SUFFICES ASSUME NodesInv PROVE NoNodeIsLost
    OBVIOUS
  <2>1. ASSUME NEW c \in HttpClients
        PROVE  LET client == http[c] IN
               /\ client.up \union client.down \union Asked(c) = client.from
               /\ client.up \intersect client.down = {}
               /\ client.use # "any" =>
                    /\ Asked(c) \intersect (client.up \union client.down) = {}
                    /\ client.asked[1] \intersect client.asked[2] = {}
    BY AskedIs DEF NodesInv, KeepsNodes
  <2> QED BY <2>1 DEF NodesInv, NetworkComplete, NoNodeIsLost
<1> QED BY <1>1, <1>2, <1>3, PTL DEF Spec

-----------------------------------------------------------------------------
(* The session. *)

SessionType ==
  /\ left \in [Addresses -> 0..Absent]
  /\ call \in [name : {"none", "authenticate", "refresh"}, for : SUBSET Addresses, since : 0..Latency]
  /\ call.name = "none" <=> call = NoCall
  /\ idle \in 0..Period
  /\ failures \in 0..MaxFailures

Refreshing == call.name = "refresh"

(* An upper bound of the time since refreshTokens was called last: idle    *)
(* does not go beyond Period, and an operation that began just before has  *)
(* Latency to end.                                                         *)
Elapsed ==
  IF Refreshing THEN call.since
  ELSE IF idle < Period THEN idle
  ELSE Period + IF call = NoCall THEN Latency ELSE call.since

(* The attempts to refresh that failed, or may. *)
Attempts == failures + IF Refreshing THEN 1 ELSE 0

(* What SessionSurvives rests on: a token was above the threshold when     *)
(* refreshTokens last did without a request or succeeded, and has aged for *)
(* a Period and a Latency per attempt since.                               *)
Ages == \A a \in Known : left[a] + Elapsed + Attempts * (Period + Latency) > Threshold

(* A refresh began when idle did. *)
Together == Refreshing /\ idle < Period => call.since <= idle

HeldIsCurrent == current \in Known => held = [of |-> current, left |-> left[current]]

SessionInv == SessionType /\ Ages /\ Together /\ HeldIsCurrent

(* A nonempty set of naturals has a least element. *)
LEMMA LeastNat ==
  ASSUME NEW S, S \subseteq Nat, S # {}
  PROVE  \E x \in S : \A y \in S : x <= y
<1> DEFINE Less == OpToRel(<, Nat)
<1>1. PICK x \in S : \A y \in S : <<y, x>> \notin Less
  <2>1. IsWellFoundedOn(Less, Nat)
    BY NatLessThanWellFounded
  <2> HIDE DEF Less
  <2> QED BY <2>1, WFMin
<1>2. \A y \in S : ~ (y < x)
  BY <1>1 DEF OpToRel
<1> QED BY <1>2

(* EarliestExpiration is the least of what is left of the tokens. *)
LEMMA Earliest ==
  ASSUME SessionType, Known # {}
  PROVE  \A a \in Known : EarliestExpiration(left) \in Nat /\ EarliestExpiration(left) <= left[a]
<1> DEFINE S == {left[a] : a \in Addresses} \ {Absent}
<1>1. Absent \in Nat /\ S \subseteq Nat /\ \A a \in Known : left[a] \in S
  BY SessionAssumption DEF Absent, SessionType, Known
<1>2. S # {}
  BY <1>1
<1> HIDE DEF S
<1>3. \E x \in S : \A y \in S : x <= y
  BY <1>1, <1>2, LeastNat
<1>4. Min(S) \in S /\ \A y \in S : Min(S) <= y
  BY <1>3 DEF Min
<1> QED BY <1>1, <1>4 DEF EarliestExpiration, S

(* The attempts add up, and never exceed what the threshold provides for. *)
LEMMA Attempted ==
  ASSUME NEW k \in 0..MaxFailures
  PROVE  LET gap == Period + Latency IN
         /\ gap \in Nat /\ k * gap \in Nat /\ 0 * gap = 0 /\ (k + 0) * gap = k * gap
         /\ (k + 1) * gap \in Nat /\ (k + 1) * gap = k * gap + gap
         /\ k * gap + gap + Latency <= Threshold
<1> DEFINE gap == Period + Latency
<1>1. gap \in Nat /\ Latency \in Nat /\ MaxFailures \in Nat /\ k \in Nat /\ MaxFailures - k \in Nat
  BY SessionAssumption
<1>2. (MaxFailures + 1) * gap + Latency <= Threshold /\ Threshold \in Nat
  BY SessionAssumption
<1> HIDE DEF gap
<1>3. k * gap \in Nat /\ (MaxFailures - k) * gap \in Nat /\ (k + 1) * gap \in Nat
  BY <1>1
<1>4. (k + 1) * gap = k * gap + gap /\ 0 * gap = 0
  BY <1>1
<1>5. (MaxFailures + 1) * gap = (MaxFailures - k) * gap + (k * gap + gap)
  BY <1>1
<1> QED BY <1>1, <1>2, <1>3, <1>4, <1>5 DEF gap

(* No token that is known has expired. *)
LEMMA Alive ==
  ASSUME SessionInv
  PROVE  /\ \A a \in Known : left[a] \in 1..Validity
         /\ Elapsed \in Nat /\ Attempts * (Period + Latency) \in Nat
         /\ Attempts = failures \/ Attempts = failures + 1
<1> DEFINE gap == Period + Latency
<1>1. /\ failures \in 0..MaxFailures /\ idle \in 0..Period /\ call.since \in 0..Latency
      /\ Period \in Nat /\ Latency \in Nat /\ Threshold \in Nat /\ Validity \in Nat
  BY SessionAssumption DEF SessionInv, SessionType
<1>2. /\ gap \in Nat /\ failures * gap \in Nat
      /\ (failures + 1) * gap \in Nat /\ (failures + 1) * gap = failures * gap + gap
      /\ failures * gap + gap + Latency <= Threshold
  BY <1>1, Attempted
<1>3. Elapsed \in Nat /\ Elapsed <= IF Refreshing THEN Latency ELSE gap
  BY <1>1 DEF Elapsed
<1>4. CASE Refreshing
  <2>1. Attempts = failures + 1
    BY <1>4 DEF Attempts
  <2> HIDE DEF gap
  <2>2. Elapsed + Attempts * gap <= Threshold
    BY <1>1, <1>2, <1>3, <1>4, <2>1
  <2>3. \A a \in Known : left[a] \in Nat /\ left[a] <= Validity
    BY <1>1 DEF SessionInv, SessionType, Known, Absent
  <2>4. \A a \in Known : left[a] + Elapsed + Attempts * gap > Threshold
    BY DEF SessionInv, Ages, gap
  <2> QED BY <1>1, <1>2, <1>3, <2>1, <2>2, <2>3, <2>4 DEF gap
<1>5. CASE ~Refreshing
  <2>1. Attempts = failures
    BY <1>1, <1>5 DEF Attempts
  <2> HIDE DEF gap
  <2>2. Elapsed + Attempts * gap <= Threshold
    BY <1>1, <1>2, <1>3, <1>5, <2>1
  <2>3. \A a \in Known : left[a] \in Nat /\ left[a] <= Validity
    BY <1>1 DEF SessionInv, SessionType, Known, Absent
  <2>4. \A a \in Known : left[a] + Elapsed + Attempts * gap > Threshold
    BY DEF SessionInv, Ages, gap
  <2> QED BY <1>1, <1>2, <1>3, <2>1, <2>2, <2>3, <2>4 DEF gap
<1> QED BY <1>4, <1>5

(* No attempt more, no time less: the tokens are as young as before. *)
LEMMA StillYoung ==
  ASSUME SessionInv, Attempts' = Attempts, Elapsed' \in Nat, Elapsed' >= Elapsed,
         \A a \in Known' : left'[a] = Validity \/ (a \in Known /\ left'[a] = left[a])
  PROVE  Ages'
<1> DEFINE debt == Attempts * (Period + Latency)
<1>1. /\ debt \in Nat /\ Elapsed \in Nat /\ Validity \in Nat /\ Threshold \in Nat /\ Validity > Threshold
      /\ \A a \in Known : left[a] \in Nat
  BY Alive, SessionAssumption
<1>2. \A a \in Known : left[a] + Elapsed + debt > Threshold
  BY DEF SessionInv, Ages
<1> HIDE DEF debt
<1>3. ASSUME NEW a \in Known' PROVE left'[a] + Elapsed' + debt > Threshold
  BY <1>1, <1>2, <1>3
<1> QED BY <1>3 DEF Ages, debt

LEMMA SessionStep == SessionInv /\ SessionNext => SessionInv'
<1> SUFFICES ASSUME SessionInv, SessionNext PROVE SessionInv'
  OBVIOUS
<1>a. /\ failures \in 0..MaxFailures /\ idle \in 0..Period /\ call.since \in 0..Latency
      /\ call.name \in {"none", "authenticate", "refresh"} /\ (call.name = "none" <=> call = NoCall)
      /\ left \in [Addresses -> 0..Absent] /\ call.for \subseteq Addresses
      /\ Period \in Nat \ {0} /\ Latency \in Nat /\ MaxFailures \in Nat
      /\ Threshold \in Nat /\ Validity \in Nat /\ Validity > Threshold /\ Absent = Validity + 1
  BY SessionAssumption DEF SessionInv, SessionType, Absent
<1>b. /\ NoCall.name = "none" /\ NoCall.since = 0 /\ NoCall.for = {}
      /\ NoCall \in [name : {"none", "authenticate", "refresh"}, for : SUBSET Addresses, since : 0..Latency]
  BY <1>a DEF NoCall
<1>c. /\ \A a \in Known : left[a] \in 1..Validity
      /\ Elapsed \in Nat /\ Attempts * (Period + Latency) \in Nat
  BY Alive
<1>1. ASSUME NEW addresses \in SUBSET Addresses, Authenticate(addresses) PROVE SessionInv'
  <2>1. /\ call = NoCall /\ idle < Period
        /\ call' = [name |-> "authenticate", for |-> addresses, since |-> 0]
        /\ UNCHANGED <<left, current, held, idle, failures>>
    BY <1>1 DEF Authenticate
  <2>2. call'.name = "authenticate" /\ call'.since = 0 /\ ~Refreshing /\ ~Refreshing'
    BY <1>b, <2>1 DEF Refreshing
  <2>3. SessionType'
    BY <1>a, <1>b, <2>1, <2>2 DEF SessionType
  <2>4. Ages'
    <3>1. Elapsed' = Elapsed /\ Attempts' = Attempts /\ Known' = Known
      BY <2>1, <2>2 DEF Elapsed, Attempts, Known
    <3> QED BY <1>a, <1>c, <2>1, <3>1, StillYoung
  <2> QED BY <2>1, <2>2, <2>3, <2>4 DEF SessionInv, Together, HeldIsCurrent, Known
<1>2. CASE Authenticated
  <2> DEFINE merged == [a \in Addresses |-> IF a \in call.for THEN Validity ELSE left[a]]
  <2>1. /\ call.name = "authenticate" /\ left' = merged /\ call' = NoCall
        /\ held' = TokenOf(merged, current')
        /\ UNCHANGED <<idle, failures>>
    BY <1>2 DEF Authenticated
  <2>2. ~Refreshing /\ ~Refreshing'
    BY <1>b, <2>1 DEF Refreshing
  <2>3. SessionType'
    BY <1>a, <1>b, <2>1 DEF SessionType
  <2>4. Ages'
    <3>1. Elapsed' \in Nat /\ Elapsed' >= Elapsed /\ Attempts' = Attempts
      BY <1>a, <1>b, <2>1, <2>2 DEF Elapsed, Attempts
    <3>2. \A a \in Known' : left'[a] = Validity \/ (a \in Known /\ left'[a] = left[a])
      BY <2>1 DEF Known
    <3> QED BY <3>1, <3>2, StillYoung
  <2>5. HeldIsCurrent'
    BY <2>1 DEF HeldIsCurrent, Known, TokenOf
  <2> QED BY <2>2, <2>3, <2>4, <2>5 DEF SessionInv, Together
<1>3. ASSUME NEW a \in Addresses, WithCurrentAddress(a) PROVE SessionInv'
  <2>1. /\ current' = a /\ held' = TokenOf(left, a) /\ UNCHANGED <<left, call, idle, failures>>
    BY <1>3 DEF WithCurrentAddress
  <2>2. Refreshing' = Refreshing /\ Elapsed' = Elapsed /\ Attempts' = Attempts /\ Known' = Known
    BY <2>1 DEF Refreshing, Elapsed, Attempts, Known
  <2>3. HeldIsCurrent'
    BY <2>1 DEF HeldIsCurrent, Known, TokenOf
  <2> QED BY <2>1, <2>2, <2>3 DEF SessionInv, SessionType, Ages, Together
<1>4. CASE Logout
  <2>1. /\ left' = [a \in Addresses |-> Absent] /\ UNCHANGED <<call, idle, failures>>
    BY <1>4 DEF Logout
  <2>2. Known' = {} /\ Refreshing' = Refreshing
    BY <2>1 DEF Known, Absent, Refreshing
  <2>3. SessionType'
    BY <1>a, <2>1 DEF SessionInv, SessionType, Absent
  <2> QED BY <2>1, <2>2, <2>3 DEF SessionInv, Ages, HeldIsCurrent, Together
<1>5. CASE RefreshTokens
  <2>1. /\ call = NoCall /\ idle >= Period /\ idle' = 0
        /\ UNCHANGED <<left, current, held, failures>>
    BY <1>5 DEF RefreshTokens
  <2>2. Known' = Known /\ HeldIsCurrent' /\ ~Refreshing
    BY <1>b, <2>1 DEF Known, HeldIsCurrent, SessionInv, Refreshing
  <2>3. Elapsed = Period + Latency /\ Attempts = failures
    BY <1>a, <2>1, <2>2 DEF Elapsed, Attempts
  <2>4. CASE Known = {} \/ EarliestExpiration(left) > Threshold
    <3>1. call' = NoCall /\ ~Refreshing'
      BY <1>5, <1>b, <2>4 DEF RefreshTokens, Refreshing
    <3>2. \A a \in Known : left[a] > Threshold
      BY <1>a, <1>c, <2>4, Earliest DEF SessionInv
    <3>3. Elapsed' = 0 /\ Attempts' = Attempts
      BY <1>a, <2>1, <2>2, <2>3, <3>1 DEF Elapsed, Attempts
    <3>4. Ages'
      <4> DEFINE debt == Attempts * (Period + Latency)
      <4>1. debt \in Nat
        BY <1>c
      <4> HIDE DEF debt
      <4>2. \A a \in Known : left[a] + 0 + debt > Threshold
        BY <1>a, <1>c, <3>2, <4>1
      <4> QED BY <2>1, <2>2, <3>3, <4>2 DEF Ages, debt
    <3>5. SessionType'
      BY <1>a, <1>b, <2>1, <3>1 DEF SessionType
    <3> QED BY <2>2, <3>1, <3>4, <3>5 DEF SessionInv, Together
  <2>5. CASE ~(Known = {} \/ EarliestExpiration(left) > Threshold)
    <3>1. call' = [name |-> "refresh", for |-> Known, since |-> 0]
      BY <1>5, <2>5 DEF RefreshTokens
    <3>2. call'.name = "refresh" /\ call'.since = 0 /\ Refreshing' /\ Known \subseteq Addresses
      BY <3>1 DEF Refreshing, Known
    <3>3. Elapsed' = 0 /\ Attempts' = failures + 1
      BY <2>1, <3>2 DEF Elapsed, Attempts
    <3>4. Ages'
      <4> DEFINE debt == failures * (Period + Latency)
                 more == (failures + 1) * (Period + Latency)
      <4>1. debt \in Nat /\ more \in Nat /\ more = debt + Period + Latency
        BY <1>a, Attempted
      <4>2. \A a \in Known : left[a] + (Period + Latency) + debt > Threshold
        BY <2>3 DEF SessionInv, Ages
      <4> HIDE DEF debt, more
      <4>3. \A a \in Known : left[a] + 0 + more > Threshold
        BY <1>a, <1>c, <4>1, <4>2
      <4> QED BY <2>1, <2>2, <3>3, <4>3 DEF Ages, more
    <3>5. SessionType'
      BY <1>a, <2>1, <3>1, <3>2, <1>b DEF SessionType
    <3> QED BY <2>1, <2>2, <3>2, <3>4, <3>5, <1>a DEF SessionInv, Together
  <2> QED BY <2>4, <2>5
<1>6. ASSUME NEW served \in SUBSET Addresses, Refreshed(served) PROVE SessionInv'
  <2> DEFINE renewed == [a \in Addresses |-> IF a \in served THEN Validity ELSE Absent]
  <2>1. /\ left' = renewed /\ held' = TokenOf(renewed, current) /\ call' = NoCall /\ failures' = 0
        /\ UNCHANGED <<current, idle>>
    BY <1>6 DEF Refreshed
  <2>2. ~Refreshing' /\ Elapsed' \in Nat /\ Attempts' = 0
    BY <1>a, <1>b, <2>1 DEF Refreshing, Elapsed, Attempts
  <2>3. \A a \in Known' : left'[a] = Validity
    BY <2>1 DEF Known
  <2>4. SessionType'
    BY <1>a, <1>b, <2>1 DEF SessionType
  <2>5. Ages'
    <3>1. 0 * (Period + Latency) = 0
      BY <1>a
    <3> QED BY <1>a, <2>2, <2>3, <3>1 DEF Ages
  <2>6. HeldIsCurrent'
    BY <2>1 DEF HeldIsCurrent, Known, TokenOf
  <2> QED BY <2>2, <2>4, <2>5, <2>6 DEF SessionInv, Together
<1>7. CASE CallFails
  <2>1. /\ call # NoCall /\ call' = NoCall
        /\ Refreshing => failures < MaxFailures /\ failures' = failures + 1
        /\ ~Refreshing => failures' = failures
        /\ UNCHANGED <<left, current, held, idle>>
    BY <1>7 DEF CallFails, Refreshing
  <2>2. ~Refreshing' /\ Attempts' = Attempts
    BY <1>a, <1>b, <2>1 DEF Refreshing, Attempts
  <2>3. Elapsed' \in Nat /\ Elapsed' >= Elapsed
    BY <1>a, <1>b, <2>1, <2>2 DEF SessionInv, Together, Elapsed
  <2>4. Ages'
    <3>1. \A a \in Known' : a \in Known /\ left'[a] = left[a]
      BY <2>1 DEF Known
    <3> QED BY <2>2, <2>3, <3>1, StillYoung
  <2>5. SessionType'
    BY <1>a, <1>b, <2>1 DEF SessionType
  <2> QED BY <2>1, <2>2, <2>4, <2>5 DEF SessionInv, Together, HeldIsCurrent, Known
<1>8. CASE TimePasses
  <2>1. /\ call = NoCall => idle < Period
        /\ call # NoCall => call.since < Latency
        /\ left' = [a \in Addresses |-> IF left[a] \in {0, Absent} THEN left[a] ELSE left[a] - 1]
        /\ held' = [held EXCEPT !.left = IF held.left = 0 THEN 0 ELSE held.left - 1]
        /\ idle' = IF idle < Period THEN idle + 1 ELSE idle
        /\ call' = IF call = NoCall THEN NoCall ELSE [call EXCEPT !.since = call.since + 1]
        /\ UNCHANGED <<current, failures>>
    BY <1>8 DEF TimePasses
  <2>2. /\ call = NoCall => call' = NoCall
        /\ call # NoCall => /\ call'.name = call.name /\ call'.for = call.for
                           /\ call'.since = call.since + 1
                           /\ call' \in [name : {"none", "authenticate", "refresh"}, for : SUBSET Addresses,
                                         since : 0..Latency]
    BY <1>a, <2>1 DEF SessionInv, SessionType
  <2>3. call'.name = call.name /\ (Refreshing' <=> Refreshing) /\ (call' = NoCall <=> call = NoCall)
    BY <1>a, <1>b, <2>2 DEF Refreshing
  <2>4. SessionType'
    <3>1. left' \in [Addresses -> 0..Absent]
      BY <1>a, <2>1
    <3>2. idle' \in 0..Period
      BY <1>a, <2>1
    <3> QED BY <1>a, <1>b, <2>1, <2>2, <2>3, <3>1, <3>2 DEF SessionType
  <2>5. /\ Known' = Known /\ \A a \in Known : left'[a] = left[a] - 1
    BY <1>a, <1>c, <2>1 DEF Known
  <2>6. Elapsed' \in Nat /\ Elapsed' >= Elapsed + 1 /\ Attempts' = Attempts
    BY <1>a, <1>b, <2>1, <2>2, <2>3 DEF Elapsed, Attempts, Refreshing
  <2>7. Ages'
    <3> DEFINE debt == Attempts * (Period + Latency)
    <3>1. debt \in Nat /\ \A a \in Known : left[a] + Elapsed + debt > Threshold
      BY <1>c DEF SessionInv, Ages
    <3> HIDE DEF debt
    <3>2. \A a \in Known : left'[a] + Elapsed' + debt > Threshold
      BY <1>a, <1>c, <2>5, <2>6, <3>1
    <3> QED BY <2>5, <2>6, <3>2 DEF Ages, debt
  <2>8. HeldIsCurrent'
    BY <1>c, <2>1, <2>5 DEF SessionInv, HeldIsCurrent
  <2>9. Together'
    BY <1>a, <1>b, <2>1, <2>2, <2>3 DEF SessionInv, Together, Refreshing
  <2> QED BY <2>4, <2>7, <2>8, <2>9 DEF SessionInv
<1> QED BY <1>1, <1>2, <1>3, <1>4, <1>5, <1>6, <1>7, <1>8 DEF SessionNext

(* Nobody is known at first. *)
LEMMA SessionInitially == SessionInit => SessionInv
<1> SUFFICES ASSUME SessionInit PROVE SessionInv
  OBVIOUS
<1>1. Known = {} /\ Absent \in Nat /\ 0 \in 0..Latency /\ 0 \in 0..Period /\ 0 \in 0..MaxFailures
  BY SessionAssumption DEF SessionInit, Known, Absent
<1>2. SessionType
  BY <1>1 DEF SessionInit, SessionType, NoCall
<1> QED BY <1>1, <1>2 DEF SessionInv, Ages, Together, HeldIsCurrent, SessionInit, Refreshing, NoCall

(* With a threshold of (MaxFailures + 1) times the period and the latency, *)
(* and the latency: whatever the number of addresses and the ages of their *)
(* tokens, none expires through MaxFailures failures in a row, and the     *)
(* token sent is the last one received for the current address.            *)
THEOREM SessionKept == Spec => []SessionSurvives
<1>1. ServicesInit => SessionInv
  BY SessionInitially DEF ServicesInit
<1>2. SessionInv /\ [ServicesNext]_servicesVars => SessionInv'
  <2> SUFFICES ASSUME SessionInv, [ServicesNext]_servicesVars PROVE SessionInv'
    OBVIOUS
  <2>1. CASE OnSession
    BY <2>1, SessionStep DEF OnSession
  <2>2. CASE UNCHANGED sessionVars
    BY <2>2 DEF sessionVars, SessionInv, SessionType, Ages, Together, HeldIsCurrent, Refreshing, Elapsed,
                Attempts, Known
  <2> QED BY <2>1, <2>2 DEF ServicesNext, servicesVars, OnVotes, OnNodes, OnWorkload
<1>3. SessionInv => SessionSurvives
  <2> SUFFICES ASSUME SessionInv PROVE SessionSurvives
    OBVIOUS
  <2>1. \A a \in Known : left[a] > 0
    BY Alive, SessionAssumption
  <2> QED BY <2>1 DEF SessionInv, HeldIsCurrent, SessionSurvives
<1> QED BY <1>1, <1>2, <1>3, PTL DEF Spec

-----------------------------------------------------------------------------
(* The workloads. *)

Reading ==
  [at : {"none", "sent", "served", "stored", "returned", "threw"},
   workload : Workloads \union {NoWorkload}, age : 0..Travel]

WorkloadType ==
  /\ workload \in Workloads
  /\ since \in [Workloads -> 0..Oldest]
  /\ entry \in [workload : Workloads \union {NoWorkload}, age : 0..Oldest]
  /\ entry # NoEntry => entry.workload \in Workloads
  /\ reading \in [Readers -> Reading]

(* What an answer or the entry says was so when the node served it: an     *)
(* answer ages while it travels, the entry after it was stored.            *)
ServedWhenSo(r) ==
  reading[r].at = "served" =>
    /\ reading[r].workload \in Workloads
    /\ since[reading[r].workload] <= reading[r].age

EntryWasSo == entry # NoEntry => since[entry.workload] <= entry.age + Travel

(* A caller reads the entry that it or another one just stored, unless the *)
(* cache was flushed in between.                                           *)
StoredIsThere(r) ==
  reading[r].at = "stored" => IF entry = NoEntry THEN r \in flushed ELSE entry.age = 0

ReturnedWasSo(r) ==
  reading[r].at = "returned" =>
    /\ reading[r].workload \in Workloads
    /\ since[reading[r].workload] <= Ttl + Travel

ThrewIfFlushed(r) == reading[r].at = "threw" => r \in flushed

WorkloadInv ==
  /\ WorkloadType /\ since[workload] = 0 /\ EntryWasSo
  /\ \A r \in Readers :
       ServedWhenSo(r) /\ StoredIsThere(r) /\ ReturnedWasSo(r) /\ ThrewIfFlushed(r)

(* A caller goes on, while the officer's workload and the entry stay. *)
LEMMA CallerStep ==
  ASSUME WorkloadInv, NEW r \in Readers, NEW next \in Reading,
         reading' = [reading EXCEPT ![r] = next],
         UNCHANGED <<workload, since, entry>>,
         \A q \in Readers \ {r} : q \in flushed => q \in flushed',
         next.at = "served" => next.workload \in Workloads /\ since[next.workload] <= next.age,
         next.at = "stored" => IF entry = NoEntry THEN r \in flushed' ELSE entry.age = 0,
         next.at = "returned" => next.workload \in Workloads /\ since[next.workload] <= Ttl + Travel,
         next.at = "threw" => r \in flushed'
  PROVE  WorkloadInv'
<1>1. WorkloadType' /\ since'[workload'] = 0 /\ EntryWasSo'
  BY DEF WorkloadInv, WorkloadType, EntryWasSo
<1>2. reading'[r] = next /\ \A q \in Readers \ {r} : reading'[q] = reading[q]
  BY DEF WorkloadInv, WorkloadType
<1>3. ASSUME NEW q \in Readers
      PROVE  ServedWhenSo(q)' /\ StoredIsThere(q)' /\ ReturnedWasSo(q)' /\ ThrewIfFlushed(q)'
  <2>1. CASE q = r
    BY <1>2, <2>1 DEF ServedWhenSo, StoredIsThere, ReturnedWasSo, ThrewIfFlushed
  <2>2. CASE q # r
    BY <1>2, <2>2 DEF WorkloadInv, ServedWhenSo, StoredIsThere, ReturnedWasSo, ThrewIfFlushed
  <2> QED BY <2>1, <2>2
<1> QED BY <1>1, <1>3 DEF WorkloadInv

(* A call that is told of a workload. *)
LEMMA Told ==
  ASSUME NEW at \in {"returned", "threw"}, NEW w \in Workloads \union {NoWorkload}
  PROVE  /\ [NotReading EXCEPT !.at = at, !.workload = w] \in Reading
         /\ [NotReading EXCEPT !.at = at, !.workload = w].at = at
         /\ [NotReading EXCEPT !.at = at, !.workload = w].workload = w
<1>1. NotReading \in Reading
  BY WorkloadAssumption DEF NotReading, Reading
<1> QED BY <1>1 DEF Reading

LEMMA WorkloadStep == WorkloadInv /\ WorkloadNext => WorkloadInv'
<1> SUFFICES ASSUME WorkloadInv, WorkloadNext PROVE WorkloadInv'
  OBVIOUS
<1>a. /\ Workloads \subseteq Nat \ {0} /\ Ttl \in Nat \ {0} /\ Travel \in Nat /\ 0 \notin Workloads
      /\ NoWorkload = 0 /\ Oldest = Ttl + Travel + 1 /\ Oldest \in Nat /\ 0 \in 0..Travel
  BY WorkloadAssumption DEF NoWorkload, Oldest
<1>b. /\ workload \in Workloads /\ since \in [Workloads -> 0..Oldest] /\ reading \in [Readers -> Reading]
      /\ entry \in [workload : Workloads \union {NoWorkload}, age : 0..Oldest]
      /\ entry # NoEntry => entry.workload \in Workloads
      /\ since[workload] = 0 /\ EntryWasSo
      /\ \A r \in Readers : ServedWhenSo(r) /\ StoredIsThere(r) /\ ReturnedWasSo(r) /\ ThrewIfFlushed(r)
  BY DEF WorkloadInv, WorkloadType
<1>c. /\ NoEntry.workload = NoWorkload /\ NoEntry.age = 0
      /\ NoEntry \in [workload : Workloads \union {NoWorkload}, age : 0..Oldest]
  BY <1>a DEF NoEntry
<1>d. NotReading \in Reading /\ NotReading.at = "none"
  BY <1>a DEF NotReading, Reading
<1>e. \A r \in Readers : /\ reading[r].age \in 0..Travel
                         /\ reading[r].at = "served" => /\ reading[r].workload \in Workloads
                                                        /\ since[reading[r].workload] <= reading[r].age
  BY <1>b DEF ServedWhenSo, Reading
<1>f. \A w \in Workloads : since[w] \in 0..Oldest
  BY <1>b
<1>1. ASSUME NEW r \in Readers, GetWorkload(r) PROVE WorkloadInv'
  <2>1. /\ reading' = [reading EXCEPT ![r] = IF Fresh
                        THEN [NotReading EXCEPT !.at = "returned", !.workload = entry.workload]
                        ELSE [NotReading EXCEPT !.at = "sent"]]
        /\ flushed' = flushed \ {r} /\ UNCHANGED <<workload, since, entry>>
    BY <1>1 DEF GetWorkload
  <2>2. CASE Fresh
    <3> DEFINE next == [NotReading EXCEPT !.at = "returned", !.workload = entry.workload]
    <3>1. /\ entry.workload \in Workloads /\ entry.age \in 0..Oldest /\ entry.age < Ttl
          /\ since[entry.workload] <= entry.age + Travel /\ since[entry.workload] \in 0..Oldest
      BY <1>b, <2>2 DEF Fresh, EntryWasSo
    <3>2. next \in Reading /\ next.at = "returned" /\ next.workload = entry.workload
      BY <3>1, Told
    <3>3. since[entry.workload] <= Ttl + Travel
      BY <1>a, <3>1
    <3> HIDE DEF next
    <3>4. reading' = [reading EXCEPT ![r] = next]
      BY <2>1, <2>2 DEF next
    <3> QED BY <2>1, <3>1, <3>2, <3>3, <3>4, CallerStep
  <2>3. CASE ~Fresh
    <3> DEFINE next == [NotReading EXCEPT !.at = "sent"]
    <3>1. next \in Reading /\ next.at = "sent"
      BY <1>a DEF NotReading, Reading
    <3> HIDE DEF next
    <3>2. reading' = [reading EXCEPT ![r] = next]
      BY <2>1, <2>3 DEF next
    <3> QED BY <2>1, <3>1, <3>2, CallerStep
  <2> QED BY <2>2, <2>3
<1>2. ASSUME NEW r \in Readers, Serve(r) PROVE WorkloadInv'
  <2> DEFINE next == [at |-> "served", workload |-> workload, age |-> 0]
  <2>1. next \in Reading /\ next.at = "served" /\ next.workload = workload /\ next.age = 0
    BY <1>a, <1>b DEF Reading
  <2>2. reading' = [reading EXCEPT ![r] = next] /\ UNCHANGED <<workload, since, entry, flushed>>
    BY <1>2 DEF Serve
  <2>3. next.workload \in Workloads /\ since[next.workload] <= next.age
    BY <1>a, <1>b, <2>1
  <2> HIDE DEF next
  <2> QED BY <2>1, <2>2, <2>3, CallerStep
<1>3. ASSUME NEW r \in Readers, StoreWorkload(r) PROVE WorkloadInv'
  <2> DEFINE new == [workload |-> reading[r].workload, age |-> 0]
             next == [NotReading EXCEPT !.at = "stored"]
  <2>1. /\ reading[r].at = "served" /\ entry' = new /\ reading' = [reading EXCEPT ![r] = next]
        /\ UNCHANGED <<workload, since, flushed>>
    BY <1>3 DEF StoreWorkload
  <2>2. next \in Reading /\ next.at = "stored"
    BY <1>d DEF NotReading, Reading
  <2>3. /\ reading[r].workload \in Workloads /\ since[reading[r].workload] <= reading[r].age
        /\ reading[r].age \in 0..Travel
    BY <1>b, <2>1 DEF ServedWhenSo, Reading
  <2>4. new.workload = reading[r].workload /\ new.age = 0 /\ new # NoEntry
        /\ new \in [workload : Workloads \union {NoWorkload}, age : 0..Oldest]
    BY <1>a, <1>c, <2>3
  <2> HIDE DEF new, next
  <2>5. WorkloadType'
    BY <1>b, <2>1, <2>2, <2>3, <2>4 DEF WorkloadType
  <2>6. EntryWasSo'
    <3>1. since[reading[r].workload] \in 0..Oldest /\ entry'.workload = reading[r].workload /\ entry'.age = 0
      BY <1>f, <2>1, <2>3, <2>4
    <3>2. since[reading[r].workload] <= 0 + Travel
      BY <1>a, <2>3, <3>1
    <3> QED BY <2>1, <3>1, <3>2 DEF EntryWasSo
  <2>7. reading'[r] = next /\ \A q \in Readers \ {r} : reading'[q] = reading[q]
    BY <1>b, <2>1
  <2>8. \A q \in Readers :
          ServedWhenSo(q)' /\ StoredIsThere(q)' /\ ReturnedWasSo(q)' /\ ThrewIfFlushed(q)'
    BY <1>b, <2>1, <2>2, <2>4, <2>7 DEF ServedWhenSo, StoredIsThere, ReturnedWasSo, ThrewIfFlushed
  <2> QED BY <1>b, <2>1, <2>5, <2>6, <2>8 DEF WorkloadInv
<1>4. ASSUME NEW r \in Readers, ReadWorkload(r) PROVE WorkloadInv'
  <2> DEFINE next == [NotReading EXCEPT !.at = IF entry = NoEntry THEN "threw" ELSE "returned",
                                        !.workload = entry.workload]
  <2>1. /\ reading[r].at = "stored" /\ reading' = [reading EXCEPT ![r] = next]
        /\ UNCHANGED <<workload, since, entry, flushed>>
    BY <1>4 DEF ReadWorkload
  <2>2. /\ next \in Reading /\ next.workload = entry.workload
        /\ next.at = IF entry = NoEntry THEN "threw" ELSE "returned"
    <3>1. entry.workload \in Workloads \union {NoWorkload}
      BY <1>b
    <3>2. CASE entry = NoEntry
      <4>1. next = [NotReading EXCEPT !.at = "threw", !.workload = entry.workload]
        BY <3>2
      <4> HIDE DEF next
      <4> QED BY <3>1, <3>2, <4>1, Told
    <3>3. CASE entry # NoEntry
      <4>1. next = [NotReading EXCEPT !.at = "returned", !.workload = entry.workload]
        BY <3>3
      <4> HIDE DEF next
      <4> QED BY <3>1, <3>3, <4>1, Told
    <3> QED BY <3>2, <3>3
  <2> HIDE DEF next
  <2>3. CASE entry = NoEntry
    BY <1>b, <2>1, <2>2, <2>3, CallerStep DEF StoredIsThere
  <2>4. CASE entry # NoEntry
    <3>1. entry.workload \in Workloads /\ entry.age = 0 /\ since[entry.workload] \in 0..Oldest
      BY <1>b, <2>1, <2>4 DEF StoredIsThere
    <3>2. since[entry.workload] <= Ttl + Travel
      BY <1>a, <1>b, <2>4, <3>1 DEF EntryWasSo
    <3> QED BY <1>b, <2>1, <2>2, <2>4, <3>1, <3>2, CallerStep
  <2> QED BY <2>3, <2>4
<1>5. ASSUME NEW r \in Readers, FetchFails(r) \/ Return(r) PROVE WorkloadInv'
  <2>1. reading' = [reading EXCEPT ![r] = NotReading] /\ UNCHANGED <<workload, since, entry, flushed>>
    BY <1>5 DEF FetchFails, Return
  <2> QED BY <1>d, <2>1, CallerStep
<1>6. CASE FlushCache
  <2>1. /\ entry' = NoEntry /\ UNCHANGED <<workload, since, reading>>
        /\ flushed' = flushed \union {r \in Readers : reading[r].at \notin {"none", "returned", "threw"}}
    BY <1>6 DEF FlushCache
  <2>2. WorkloadType' /\ EntryWasSo'
    BY <1>b, <1>c, <2>1 DEF WorkloadType, EntryWasSo
  <2>3. \A q \in Readers :
          ServedWhenSo(q)' /\ StoredIsThere(q)' /\ ReturnedWasSo(q)' /\ ThrewIfFlushed(q)'
    BY <1>b, <2>1 DEF ServedWhenSo, StoredIsThere, ReturnedWasSo, ThrewIfFlushed
  <2> QED BY <1>b, <2>1, <2>2, <2>3 DEF WorkloadInv
<1>7. CASE WorkloadMoves
  <2>1. PICK w \in Workloads \ {workload} : workload' = w /\ since' = [since EXCEPT ![w] = 0]
    BY <1>7 DEF WorkloadMoves
  <2>2. UNCHANGED <<entry, reading, flushed>>
    BY <1>7 DEF WorkloadMoves
  <2>3. /\ since'[w] = 0 /\ \A v \in Workloads \ {w} : since'[v] = since[v]
        /\ \A v \in Workloads : since[v] \in Nat /\ since'[v] \in Nat /\ since'[v] <= since[v]
    BY <1>a, <1>b, <2>1
  <2>4. WorkloadType'
    BY <1>a, <1>b, <2>1, <2>2 DEF WorkloadType
  <2>5. EntryWasSo'
    <3> SUFFICES ASSUME entry # NoEntry PROVE since'[entry.workload] <= entry.age + Travel
      BY <2>2 DEF EntryWasSo
    <3>1. entry.workload \in Workloads /\ since[entry.workload] <= entry.age + Travel /\ entry.age \in 0..Oldest
      BY <1>b DEF EntryWasSo
    <3>2. /\ since[entry.workload] \in Nat /\ since'[entry.workload] \in Nat
          /\ since'[entry.workload] <= since[entry.workload]
      BY <2>3, <3>1
    <3> QED BY <1>a, <3>1, <3>2
  <2>6. ASSUME NEW q \in Readers
        PROVE  ServedWhenSo(q)' /\ StoredIsThere(q)' /\ ReturnedWasSo(q)' /\ ThrewIfFlushed(q)'
    <3>1. ServedWhenSo(q)'
      <4> SUFFICES ASSUME reading[q].at = "served"
                   PROVE  /\ reading[q].workload \in Workloads
                          /\ since'[reading[q].workload] <= reading[q].age
        BY <2>2 DEF ServedWhenSo
      <4>1. reading[q].workload \in Workloads /\ since[reading[q].workload] <= reading[q].age
        BY <1>e
      <4>2. reading[q].age \in Nat
        BY <1>a, <1>e
      <4> QED BY <2>3, <4>1, <4>2
    <3>2. ReturnedWasSo(q)'
      <4> SUFFICES ASSUME reading[q].at = "returned"
                   PROVE  /\ reading[q].workload \in Workloads
                          /\ since'[reading[q].workload] <= Ttl + Travel
        BY <2>2 DEF ReturnedWasSo
      <4>1. reading[q].workload \in Workloads /\ since[reading[q].workload] <= Ttl + Travel
        BY <1>b DEF ReturnedWasSo
      <4>2. /\ since[reading[q].workload] \in Nat /\ since'[reading[q].workload] \in Nat
            /\ since'[reading[q].workload] <= since[reading[q].workload]
        BY <2>3, <4>1
      <4> QED BY <1>a, <4>1, <4>2
    <3>3. StoredIsThere(q)' /\ ThrewIfFlushed(q)'
      BY <1>b, <2>2 DEF StoredIsThere, ThrewIfFlushed
    <3> QED BY <3>1, <3>2, <3>3
  <2> QED BY <2>1, <2>3, <2>4, <2>5, <2>6 DEF WorkloadInv
<1>8. CASE WorkloadTick
  <2>1. /\ \A r \in Readers : \/ reading[r].at \in {"none", "sent"}
                              \/ reading[r].at = "served" /\ reading[r].age < Travel
        /\ since' = [w \in Workloads |-> IF w = workload THEN 0 ELSE Older(since[w])]
        /\ entry' = IF entry = NoEntry THEN NoEntry ELSE [entry EXCEPT !.age = Older(entry.age)]
        /\ reading' = [r \in Readers |-> IF reading[r].at = "served"
                                         THEN [reading[r] EXCEPT !.age = reading[r].age + 1] ELSE reading[r]]
        /\ UNCHANGED <<workload, flushed>>
    BY <1>8 DEF WorkloadTick
  <2>2. \A age \in 0..Oldest : Older(age) \in 0..Oldest
                             /\ Older(age) = IF age < Oldest THEN age + 1 ELSE age
    BY <1>a DEF Older
  <2>3. \A w \in Workloads : since[w] \in 0..Oldest /\ since'[w] \in 0..Oldest /\ since'[w] <= since[w] + 1
    BY <1>a, <1>b, <2>1, <2>2
  <2>4. /\ entry = NoEntry => entry' = NoEntry
        /\ entry # NoEntry => /\ entry'.workload = entry.workload /\ entry'.age = Older(entry.age)
                             /\ entry' \in [workload : Workloads \union {NoWorkload}, age : 0..Oldest]
    BY <1>a, <1>b, <2>1, <2>2
  <2>5. ASSUME NEW q \in Readers
        PROVE  /\ reading'[q] \in Reading /\ reading'[q].at = reading[q].at
               /\ reading'[q].workload = reading[q].workload
               /\ reading[q].at \in {"none", "sent", "served"}
               /\ reading[q].at = "served" => reading'[q].age = reading[q].age + 1
    BY <1>a, <1>b, <2>1 DEF Reading
  <2>6. WorkloadType'
    <3>1. reading' \in [Readers -> Reading]
      BY <2>1, <2>5
    <3>2. since' \in [Workloads -> 0..Oldest]
      BY <2>1, <2>3
    <3> QED BY <1>b, <1>c, <2>1, <2>4, <3>1, <3>2 DEF WorkloadType
  <2>7. EntryWasSo'
    <3> SUFFICES ASSUME entry # NoEntry PROVE since'[entry'.workload] <= entry'.age + Travel
      BY <2>4 DEF EntryWasSo
    <3>1. entry.workload \in Workloads /\ since[entry.workload] <= entry.age + Travel /\ entry.age \in 0..Oldest
      BY <1>b DEF EntryWasSo
    <3>2. since'[entry.workload] <= since[entry.workload] + 1 /\ since'[entry.workload] \in 0..Oldest
          /\ since[entry.workload] \in 0..Oldest
      BY <2>3, <3>1
    <3>3. entry'.workload = entry.workload /\ entry'.age = IF entry.age < Oldest THEN entry.age + 1 ELSE entry.age
      BY <2>2, <2>4, <3>1
    <3> QED BY <1>a, <3>1, <3>2, <3>3
  <2>8. ASSUME NEW q \in Readers
        PROVE  ServedWhenSo(q)' /\ StoredIsThere(q)' /\ ReturnedWasSo(q)' /\ ThrewIfFlushed(q)'
    <3>1. ServedWhenSo(q)'
      <4> SUFFICES ASSUME reading[q].at = "served"
                   PROVE  /\ reading[q].workload \in Workloads
                          /\ since'[reading[q].workload] <= reading'[q].age
        BY <2>5 DEF ServedWhenSo
      <4>1. /\ reading[q].workload \in Workloads /\ since[reading[q].workload] <= reading[q].age
            /\ reading[q].age \in 0..Travel /\ reading'[q].age = reading[q].age + 1
        BY <1>e, <2>5
      <4>2. /\ since'[reading[q].workload] <= since[reading[q].workload] + 1
            /\ since'[reading[q].workload] \in 0..Oldest /\ since[reading[q].workload] \in 0..Oldest
        BY <2>3, <4>1
      <4> QED BY <1>a, <4>1, <4>2
    <3> QED BY <2>5, <3>1 DEF StoredIsThere, ReturnedWasSo, ThrewIfFlushed
  <2>9. since'[workload'] = 0
    BY <1>b, <2>1
  <2> QED BY <2>6, <2>7, <2>8, <2>9 DEF WorkloadInv
<1> QED BY <1>1, <1>2, <1>3, <1>4, <1>5, <1>6, <1>7, <1>8 DEF WorkloadNext

(* Nobody reads, nothing is cached. *)
LEMMA WorkloadInitially == WorkloadInit => WorkloadInv
<1> SUFFICES ASSUME WorkloadInit PROVE WorkloadInv
  OBVIOUS
<1>1. Oldest \in Nat /\ Travel \in Nat
  BY WorkloadAssumption DEF Oldest
<1>2. NotReading \in Reading /\ NotReading.at = "none"
  BY <1>1 DEF NotReading, Reading
<1>3. WorkloadType
  BY <1>1, <1>2 DEF WorkloadInit, WorkloadType, NoEntry
<1>4. \A r \in Readers : reading[r].at = "none"
  BY <1>2 DEF WorkloadInit
<1>5. entry = NoEntry /\ since[workload] = 0
  BY DEF WorkloadInit
<1> QED BY <1>3, <1>4, <1>5
        DEF WorkloadInv, EntryWasSo, ServedWhenSo, StoredIsThere, ReturnedWasSo, ThrewIfFlushed

(* For any number of overlapping callers, any TTL and any travel time of   *)
(* an answer, however the answers overtake each other.                     *)
THEOREM WorkloadKept == Spec => []WorkloadIsRecent
<1>1. ServicesInit => WorkloadInv
  BY WorkloadInitially DEF ServicesInit
<1>2. WorkloadInv /\ [ServicesNext]_servicesVars => WorkloadInv'
  <2> SUFFICES ASSUME WorkloadInv, [ServicesNext]_servicesVars PROVE WorkloadInv'
    OBVIOUS
  <2>1. CASE OnWorkload
    BY <2>1, WorkloadStep DEF OnWorkload
  <2>2. CASE UNCHANGED workloadVars
    BY <2>2 DEF workloadVars, WorkloadInv, WorkloadType, EntryWasSo, ServedWhenSo, StoredIsThere, ReturnedWasSo,
                ThrewIfFlushed
  <2> QED BY <2>1, <2>2 DEF ServicesNext, servicesVars, OnVotes, OnNodes, OnSession
<1>3. WorkloadInv => WorkloadIsRecent
  BY DEF WorkloadInv, WorkloadIsRecent, ReturnedWasSo, ThrewIfFlushed
<1> QED BY <1>1, <1>2, <1>3, PTL DEF Spec

-----------------------------------------------------------------------------
(* The votes. *)

Reference == [to : {"live", "nothing", "vote", "votes"}, at : 0..MaxVotes]
Listing == [VoteIds -> VoteStatus \union {NoVote}]
Ballot == [name : {"idle", "cast", "accepted", "refresh", "fetched"}, base : 0..MaxVotes,
           vote : VoteIds \union {0}, read : Listing]

VotesType ==
  /\ official \in Listing
  /\ cast \subseteq VoteIds
  /\ made \in 1..MaxVotes /\ shared \subseteq 1..made
  /\ listed \in [Instances -> Listing]
  /\ votesNext \in [Instances -> 0..MaxVotes]
  /\ voteNext \in [Instances \X VoteIds -> Reference]
  /\ ballot \in [VoteCallers -> Ballot]

(* What is still to be made is live. *)
Unmade ==
  \A r \in Instances : r > made =>
    votesNext[r] = 0 /\ \A v \in VoteIds : voteNext[<<r, v>>] = Live

(* The current list, and what becomes of the votes of a former one. *)
IsCurrent(c) ==
  /\ votesNext[c] = 0
  /\ \A v \in In(listed[c]) : voteNext[<<c, v>>] = Live

Replaced(r, c) ==
  /\ votesNext[r] \in shared /\ votesNext[r] > r
  /\ \A v \in In(listed[r]) :
       \/ voteNext[<<r, v>>] = AVote(votesNext[r]) /\ v \in In(listed[votesNext[r]])
       \/ voteNext[<<r, v>>] = AVotes(votesNext[r]) /\ v \in cast
       \/ voteNext[<<r, v>>] = Nothing /\ v \notin In(listed[c])

(* A vote that is not listed any more never comes back: the backend does   *)
(* not return it again, and what a refresh read before is of no use to it  *)
(* once the list it began with was replaced.                               *)
GoneForGood(c) ==
  \A r \in shared : \A v \in In(listed[r]) : v \in In(listed[c]) \/ official[v] = NoVote

Continues(list, c) ==
  \A r \in shared : \A v \in In(listed[r]) :
    IF v \in In(list) THEN v \in In(listed[c]) ELSE official[v] = NoVote

BallotSound(b, c) ==
  /\ b.name \in {"cast", "accepted"} => b.base \in shared /\ b.vote \in In(listed[b.base])
  /\ b.name = "accepted" => b.vote \in cast
  /\ b.name \in {"refresh", "fetched"} => b.base \in shared
  /\ b.name = "fetched" /\ b.base = c => Continues(b.read, c)

VotesAt(c) ==
  /\ IsCurrent(c)
  /\ \A r \in shared \ {c} : Replaced(r, c)
  /\ GoneForGood(c)
  /\ \A o \in VoteCallers : BallotSound(ballot[o], c)

VotesInv == VotesType /\ Unmade /\ \E c \in shared : VotesAt(c)

(* The two loops of getCurrentState, with n iterations left. *)
VotesIterate(f, n) ==
  f[n] = [r \in Instances |->
            IF votesNext[r] = 0 \/ n = 0 THEN r ELSE f[n - 1][votesNext[r]]]

VoteIterates(f, n) ==
  f[n] = [h \in Instances \X VoteIds |->
            LET next == voteNext[h] IN
            CASE next.to = "live" -> AVote(h[1])
              [] next.to = "vote" /\ n > 0 -> f[n - 1][<<next.at, h[2]>>]
              [] next.to = "votes" -> AVotes(VotesOf(next.at))
              [] OTHER -> Nothing]

LEMMA VotesLoop == \A n \in 0..MaxVotes : VotesIterate(CurrentVotes, n)
<1> DEFINE After(f, n) == [r \in Instances |->
                            IF votesNext[r] = 0 \/ n = 0 THEN r ELSE f[n - 1][votesNext[r]]]
           Unsolved == {k \in Nat : ~ \E f : \A n \in 0..k : VotesIterate(f, n)}
<1>m. MaxVotes \in Nat
  BY VotesAssumption
<1>1. Unsolved = {}
  <2> SUFFICES ASSUME Unsolved # {} PROVE FALSE
    OBVIOUS
  <2>1. PICK k \in Unsolved : \A j \in Unsolved : k <= j
    <3>1. Unsolved \subseteq Nat
      OBVIOUS
    <3> HIDE DEF Unsolved
    <3> QED BY <3>1, LeastNat
  <2>2. PICK f : \A n \in 0..k : n < k => VotesIterate(f, n)
    <3>1. CASE k = 0
      BY <3>1
    <3>2. CASE k # 0
      <4>1. k - 1 \in Nat /\ ~(k <= k - 1)
        BY <2>1, <3>2
      <4>2. \E f : \A n \in 0..(k - 1) : VotesIterate(f, n)
        BY <2>1, <4>1
      <4>3. \A n \in 0..k : n < k => n \in 0..(k - 1)
        BY <2>1
      <4> QED BY <4>2, <4>3
    <3> QED BY <3>1, <3>2
  <2> DEFINE g == [n \in 0..k |-> IF n = k THEN After(f, k) ELSE f[n]]
  <2>3. ASSUME NEW n \in 0..k PROVE VotesIterate(g, n)
    <3>1. n = 0 \/ (n - 1 \in 0..k /\ n - 1 # k)
      BY <2>1
    <3>2. n # 0 => g[n - 1] = f[n - 1]
      BY <3>1
    <3>3. After(g, n) = After(f, n)
      BY <3>2
    <3>4. g[n] = After(f, n)
      <4>1. CASE n = k
        BY <4>1
      <4>2. CASE n # k
        <5>1. n < k
          BY <2>1, <4>2
        <5> QED BY <2>2, <4>2, <5>1 DEF VotesIterate
      <4> QED BY <4>1, <4>2
    <3> HIDE DEF g
    <3> QED BY <3>3, <3>4 DEF VotesIterate
  <2> HIDE DEF g
  <2> QED BY <2>1, <2>3
<1>2. PICK f : \A n \in 0..MaxVotes : VotesIterate(f, n)
  BY <1>m, <1>1
<1> DEFINE g == [n \in 0..MaxVotes |-> f[n]]
<1>3. ASSUME NEW n \in 0..MaxVotes PROVE g[n] = After(g, n)
  <2>1. n = 0 \/ n - 1 \in 0..MaxVotes
    BY <1>m
  <2>2. After(g, n) = After(f, n)
    BY <2>1
  <2> QED BY <1>2, <2>2 DEF VotesIterate
<1>4. g = [n \in 0..MaxVotes |-> After(g, n)]
  BY <1>3
<1>5. \E h : h = [n \in 0..MaxVotes |-> After(h, n)]
  <2> HIDE DEF g
  <2> QED BY <1>4
<1>6. CurrentVotes = [n \in 0..MaxVotes |-> After(CurrentVotes, n)]
  BY <1>5 DEF CurrentVotes
<1> QED BY <1>6 DEF VotesIterate

LEMMA VoteLoop == \A n \in 0..MaxVotes : VoteIterates(CurrentVote, n)
<1> DEFINE After(f, n) == [h \in Instances \X VoteIds |->
                            LET next == voteNext[h] IN
                            CASE next.to = "live" -> AVote(h[1])
                              [] next.to = "vote" /\ n > 0 -> f[n - 1][<<next.at, h[2]>>]
                              [] next.to = "votes" -> AVotes(VotesOf(next.at))
                              [] OTHER -> Nothing]
           Unsolved == {k \in Nat : ~ \E f : \A n \in 0..k : VoteIterates(f, n)}
<1>m. MaxVotes \in Nat
  BY VotesAssumption
<1>a. ASSUME NEW f, NEW g, NEW n \in Nat, n > 0 => g[n - 1] = f[n - 1]
      PROVE  After(g, n) = After(f, n)
  <2>1. CASE n > 0
    BY <1>a, <2>1
  <2>2. CASE ~(n > 0)
    BY <2>2
  <2> QED BY <2>1, <2>2
<1>1. Unsolved = {}
  <2> SUFFICES ASSUME Unsolved # {} PROVE FALSE
    OBVIOUS
  <2>1. PICK k \in Unsolved : \A j \in Unsolved : k <= j
    <3>1. Unsolved \subseteq Nat
      OBVIOUS
    <3> HIDE DEF Unsolved
    <3> QED BY <3>1, LeastNat
  <2>2. PICK f : \A n \in 0..k : n < k => VoteIterates(f, n)
    <3>1. CASE k = 0
      BY <3>1
    <3>2. CASE k # 0
      <4>1. k - 1 \in Nat /\ ~(k <= k - 1)
        BY <2>1, <3>2
      <4>2. \E f : \A n \in 0..(k - 1) : VoteIterates(f, n)
        BY <2>1, <4>1
      <4>3. \A n \in 0..k : n < k => n \in 0..(k - 1)
        BY <2>1
      <4> QED BY <4>2, <4>3
    <3> QED BY <3>1, <3>2
  <2> DEFINE g == [n \in 0..k |-> IF n = k THEN After(f, k) ELSE f[n]]
  <2>3. ASSUME NEW n \in 0..k PROVE VoteIterates(g, n)
    <3>1. n \in Nat /\ (n > 0 => n - 1 \in 0..k /\ n - 1 # k)
      BY <2>1
    <3>2. n > 0 => g[n - 1] = f[n - 1]
      <4> HIDE DEF After
      <4> QED BY <3>1
    <3>3. After(g, n) = After(f, n)
      <4> HIDE DEF g, After
      <4> QED BY <1>a, <3>1, <3>2
    <3>4. g[n] = After(f, n)
      <4>1. CASE n = k
        <5> HIDE DEF After
        <5> QED BY <4>1
      <4>2. CASE n # k
        <5>1. n < k
          BY <2>1, <4>2
        <5>2. g[n] = f[n]
          <6> HIDE DEF After
          <6> QED BY <4>2
        <5>3. VoteIterates(f, n)
          BY <2>2, <5>1
        <5> QED BY <5>2, <5>3 DEF VoteIterates
      <4> QED BY <4>1, <4>2
    <3> HIDE DEF g
    <3> QED BY <3>3, <3>4 DEF VoteIterates
  <2> HIDE DEF g
  <2> QED BY <2>1, <2>3
<1>2. PICK f : \A n \in 0..MaxVotes : VoteIterates(f, n)
  BY <1>m, <1>1
<1> DEFINE g == [n \in 0..MaxVotes |-> f[n]]
<1>3. ASSUME NEW n \in 0..MaxVotes PROVE g[n] = After(g, n)
  <2>1. n \in Nat /\ (n > 0 => g[n - 1] = f[n - 1])
    BY <1>m
  <2>2. After(g, n) = After(f, n)
    <3> HIDE DEF g, After
    <3> QED BY <1>a, <2>1
  <2>3. g[n] = f[n] /\ VoteIterates(f, n)
    BY <1>2
  <2> HIDE DEF g
  <2> QED BY <2>2, <2>3 DEF VoteIterates
<1>4. g = [n \in 0..MaxVotes |-> After(g, n)]
  <2> HIDE DEF After
  <2>1. g = [n \in 0..MaxVotes |-> g[n]]
    OBVIOUS
  <2> HIDE DEF g
  <2> QED BY <1>3, <2>1
<1>5. \E h : h = [n \in 0..MaxVotes |-> After(h, n)]
  <2> HIDE DEF g
  <2> QED BY <1>4
<1>6. CurrentVote = [n \in 0..MaxVotes |-> After(CurrentVote, n)]
  BY <1>5 DEF CurrentVote
<1> QED BY <1>6 DEF VoteIterates

(* The loops follow the replacements: lists lead to the current list, and  *)
(* votes to what became of them.                                           *)
BecameOf(now, v, c) ==
  \/ now = AVote(c) /\ v \in In(listed[c])
  \/ now = AVotes(c) /\ v \in cast
  \/ now = Nothing /\ v \notin In(listed[c])

LEMMA Shared ==
  ASSUME VotesType
  PROVE  shared \subseteq Instances /\ MaxVotes \in Nat /\ \A r \in Instances : r \in Nat /\ r <= MaxVotes
BY VotesAssumption DEF VotesType, Instances

LEMMA Later ==
  ASSUME VotesType, NEW r \in Instances, NEW s \in Instances, s > r, NEW n \in 0..MaxVotes, r + n >= MaxVotes
  PROVE  n # 0 /\ n > 0 /\ n - 1 \in 0..MaxVotes /\ s + (n - 1) >= MaxVotes /\ ~(n <= n - 1)
<1>1. r \in Int /\ s \in Int /\ n \in Int /\ MaxVotes \in Int /\ s <= MaxVotes /\ n >= 0 /\ n <= MaxVotes
  BY Shared
<1>2. ASSUME NEW a \in Int, NEW b \in Int, NEW k \in Int, NEW m \in Int,
             b > a, a + k >= m, b <= m, k >= 0, k <= m
      PROVE  k # 0 /\ k > 0 /\ k - 1 \in 0..m /\ b + (k - 1) >= m /\ ~(k <= k - 1)
  BY <1>2
<1> QED BY <1>1, <1>2

LEMMA VotesFollow ==
  ASSUME VotesType, NEW c \in shared, VotesAt(c)
  PROVE  \A n \in 0..MaxVotes : \A r \in shared : r + n >= MaxVotes => CurrentVotes[n][r] = c
<1> DEFINE Stuck == {n \in 0..MaxVotes : \E r \in shared : r + n >= MaxVotes /\ CurrentVotes[n][r] # c}
<1> SUFFICES ASSUME Stuck # {} PROVE FALSE
  OBVIOUS
<1>1. PICK n \in Stuck : \A j \in Stuck : n <= j
  <2>1. Stuck \subseteq Nat
    BY Shared
  <2> HIDE DEF Stuck
  <2> QED BY <2>1, LeastNat
<1>2. PICK r \in shared : r + n >= MaxVotes /\ CurrentVotes[n][r] # c
  BY <1>1
<1>3. CurrentVotes[n][r] = IF votesNext[r] = 0 \/ n = 0 THEN r ELSE CurrentVotes[n - 1][votesNext[r]]
  <2>1. VotesIterate(CurrentVotes, n) /\ r \in Instances
    BY <1>1, Shared, VotesLoop
  <2> QED BY <2>1 DEF VotesIterate
<1>4. CASE r = c
  BY <1>2, <1>3, <1>4 DEF VotesAt, IsCurrent
<1>5. CASE r # c
  <2>1. votesNext[r] \in shared /\ votesNext[r] > r
    BY <1>5 DEF VotesAt, Replaced
  <2>2. n # 0 /\ n - 1 \in 0..MaxVotes /\ votesNext[r] + (n - 1) >= MaxVotes /\ ~(n <= n - 1)
    BY <1>1, <1>2, <2>1, Later, Shared
  <2>3. CurrentVotes[n - 1][votesNext[r]] = c
    BY <1>1, <2>1, <2>2
  <2>4. votesNext[r] # 0
    BY <2>1, Shared DEF Instances
  <2> QED BY <1>2, <1>3, <2>2, <2>3, <2>4
<1> QED BY <1>4, <1>5

LEMMA ListsFollow ==
  ASSUME VotesType, NEW c \in shared, VotesAt(c), NEW r \in shared
  PROVE  VotesOf(r) = c
<1>1. MaxVotes \in 0..MaxVotes /\ r + MaxVotes >= MaxVotes
  BY Shared
<1> QED BY <1>1, VotesFollow DEF VotesOf

LEMMA VotesFollowed ==
  ASSUME VotesType, NEW c \in shared, VotesAt(c)
  PROVE  \A n \in 0..MaxVotes : \A r \in shared : \A v \in In(listed[r]) :
           r + n >= MaxVotes => BecameOf(CurrentVote[n][<<r, v>>], v, c)
<1> DEFINE Stuck == {n \in 0..MaxVotes : \E r \in shared : \E v \in In(listed[r]) :
                       r + n >= MaxVotes /\ ~BecameOf(CurrentVote[n][<<r, v>>], v, c)}
<1> SUFFICES ASSUME Stuck # {} PROVE FALSE
  OBVIOUS
<1>1. PICK n \in Stuck : \A j \in Stuck : n <= j
  <2>1. Stuck \subseteq Nat
    BY Shared
  <2> HIDE DEF Stuck
  <2> QED BY <2>1, LeastNat
<1>r. PICK r \in shared : \E v \in In(listed[r]) : r + n >= MaxVotes /\ ~BecameOf(CurrentVote[n][<<r, v>>], v, c)
  BY <1>1
<1>2. PICK v \in In(listed[r]) : r + n >= MaxVotes /\ ~BecameOf(CurrentVote[n][<<r, v>>], v, c)
  BY <1>r
<1>3. v \in VoteIds /\ r \in Instances /\ <<r, v>> \in Instances \X VoteIds /\ n \in 0..MaxVotes
  BY <1>1, <1>2, Shared DEF In
<1>4. CurrentVote[n][<<r, v>>] =
        LET next == voteNext[<<r, v>>] IN
        CASE next.to = "live" -> AVote(r)
          [] next.to = "vote" /\ n > 0 -> CurrentVote[n - 1][<<next.at, v>>]
          [] next.to = "votes" -> AVotes(VotesOf(next.at))
          [] OTHER -> Nothing
  <2>1. VoteIterates(CurrentVote, n)
    BY <1>3, VoteLoop
  <2> QED BY <1>3, <2>1 DEF VoteIterates
<1>5. CASE r = c
  <2>1. voteNext[<<r, v>>] = Live
    BY <1>2, <1>5 DEF VotesAt, IsCurrent
  <2> QED BY <1>2, <1>4, <1>5, <2>1 DEF Live, BecameOf
<1>6. CASE r # c
  <2>1. Replaced(r, c)
    BY <1>6 DEF VotesAt
  <2>2. votesNext[r] \in shared /\ votesNext[r] > r
    BY <2>1 DEF Replaced
  <2>3. n > 0 /\ n - 1 \in 0..MaxVotes /\ votesNext[r] + (n - 1) >= MaxVotes /\ ~(n <= n - 1)
    BY <1>2, <1>3, <2>2, Later, Shared
  <2>4. CASE voteNext[<<r, v>>] = AVote(votesNext[r]) /\ v \in In(listed[votesNext[r]])
    <3>1. BecameOf(CurrentVote[n - 1][<<votesNext[r], v>>], v, c)
      BY <1>1, <2>2, <2>3, <2>4
    <3> QED BY <1>2, <1>4, <2>3, <2>4, <3>1 DEF AVote
  <2>5. CASE voteNext[<<r, v>>] = AVotes(votesNext[r]) /\ v \in cast
    <3>1. VotesOf(votesNext[r]) = c
      BY <2>2, ListsFollow
    <3> QED BY <1>2, <1>4, <2>5, <3>1 DEF AVotes, BecameOf
  <2>6. CASE voteNext[<<r, v>>] = Nothing /\ v \notin In(listed[c])
    BY <1>2, <1>4, <2>6 DEF Nothing, BecameOf
  <2> QED BY <1>2, <2>1, <2>4, <2>5, <2>6 DEF Replaced
<1> QED BY <1>5, <1>6

LEMMA VoteFollows ==
  ASSUME VotesType, NEW c \in shared, VotesAt(c), NEW r \in shared, NEW v \in In(listed[r])
  PROVE  BecameOf(VoteOf(r, v), v, c)
<1>1. MaxVotes \in 0..MaxVotes /\ r + MaxVotes >= MaxVotes
  BY Shared
<1> QED BY <1>1, VotesFollowed DEF VoteOf

(* A step of one operation that makes no list. *)
LEMMA BallotStep ==
  ASSUME VotesType, Unmade, NEW c \in shared, VotesAt(c), NEW o \in VoteCallers, NEW b \in Ballot,
         ballot' = [ballot EXCEPT ![o] = b], cast \subseteq cast', cast' \subseteq VoteIds, BallotSound(b, c)',
         UNCHANGED <<official, made, shared, listed, votesNext, voteNext>>
  PROVE  VotesInv'
<1>1. VotesType'
  BY DEF VotesType
<1>2. Unmade'
  BY DEF Unmade
<1>3. IsCurrent(c)' /\ GoneForGood(c)'
  BY DEF VotesAt, IsCurrent, GoneForGood, In
<1>4. ASSUME NEW r \in shared \ {c} PROVE Replaced(r, c)'
  <2>1. Replaced(r, c)
    BY DEF VotesAt
  <2> QED BY <2>1 DEF Replaced, In
<1>5. ASSUME NEW p \in VoteCallers PROVE BallotSound(ballot[p], c)'
  <2>1. CASE p = o
    <3>1. ballot'[p] = b
      BY <2>1 DEF VotesType
    <3> QED BY <3>1 DEF BallotSound, Continues, In
  <2>2. CASE p # o
    <3>1. ballot'[p] = ballot[p] /\ BallotSound(ballot[p], c)
      BY <2>2 DEF VotesType, VotesAt
    <3> QED BY <3>1 DEF BallotSound, Continues, In
  <2> QED BY <2>1, <2>2
<1>6. VotesAt(c)'
  BY <1>3, <1>4, <1>5 DEF VotesAt
<1> QED BY <1>1, <1>2, <1>6 DEF VotesInv

LEMMA IdleBallot ==
  NoBallot \in Ballot /\ NoBallot.name = "idle" /\ \A c : BallotSound(NoBallot, c) /\ BallotSound(NoBallot, c)'
<1>1. MaxVotes \in Nat
  BY VotesAssumption
<1>2. NoBallot \in Ballot
  BY <1>1 DEF NoBallot, Ballot, Listing
<1> QED BY <1>2 DEF NoBallot, BallotSound

(* An operation replaces the current list. *)
LEMMA ListStep ==
  ASSUME VotesType, Unmade, NEW c \in shared, VotesAt(c), NEW o \in VoteCallers, NEW list \in Listing,
         Make(list), Finishes(o), Continues(list, c),
         shared' = shared \union {made + 1}, votesNext' = [votesNext EXCEPT ![c] = made + 1],
         voteNext' \in [Instances \X VoteIds -> Reference],
         \A r \in Instances \ {c} : \A v \in VoteIds : voteNext'[<<r, v>>] = voteNext[<<r, v>>],
         \A v \in In(listed[c]) :
           \/ voteNext'[<<c, v>>] = AVote(made + 1) /\ v \in In(list)
           \/ voteNext'[<<c, v>>] = AVotes(made + 1) /\ v \in cast
           \/ voteNext'[<<c, v>>] = Nothing /\ v \notin In(list),
         UNCHANGED <<official, cast>>
  PROVE  VotesInv'
<1>n. PICK new : new = made + 1
  OBVIOUS
<1>1. /\ new \in Instances /\ new \in 1..MaxVotes /\ new > made /\ made' = new /\ new \notin shared
      /\ c \in Instances /\ c # new /\ new # 0 /\ new > c
      /\ \A r \in shared : r \in Instances /\ r # new
      /\ \A r \in Instances : r > new => r > made
  BY <1>n, VotesAssumption DEF VotesType, Make, Instances
<1>2. /\ listed'[new] = list /\ \A r \in Instances \ {new} : listed'[r] = listed[r]
      /\ votesNext'[c] = new /\ \A r \in Instances \ {c} : votesNext'[r] = votesNext[r]
      /\ shared' = shared \union {new}
  BY <1>n, <1>1 DEF VotesType, Make
<1>3. ballot'[o] = NoBallot /\ \A p \in VoteCallers \ {o} : ballot'[p] = ballot[p]
  BY DEF VotesType, Finishes
<1>4. VotesType'
  <2>1. shared' \subseteq 1..made'
    BY <1>1, <1>2 DEF VotesType
  <2>2. votesNext' \in [Instances -> 0..MaxVotes]
    BY <1>n, <1>1 DEF VotesType
  <2>3. listed' \in [Instances -> Listing]
    BY DEF VotesType, Make
  <2>4. ballot' \in [VoteCallers -> Ballot]
    BY IdleBallot DEF VotesType, Finishes
  <2>5. made' \in 1..MaxVotes
    BY <1>1
  <2> QED BY <2>1, <2>2, <2>3, <2>4, <2>5 DEF VotesType
<1>5. Unmade'
  <2> SUFFICES ASSUME NEW r \in Instances, r > new, NEW v \in VoteIds
               PROVE  votesNext'[r] = 0 /\ voteNext'[<<r, v>>] = Live
    BY <1>1, <1>2 DEF Unmade
  <2>1. r > made /\ r # c
    BY <1>1 DEF Instances
  <2> QED BY <1>2, <2>1 DEF Unmade
<1>6. IsCurrent(new)'
  <2>1. votesNext'[new] = 0
    BY <1>1, <1>2 DEF Unmade
  <2>2. \A v \in VoteIds : voteNext'[<<new, v>>] = Live
    BY <1>1, <1>n DEF Unmade
  <2> QED BY <2>1, <2>2 DEF IsCurrent, In
<1>7. ASSUME NEW r \in shared' \ {new} PROVE Replaced(r, new)'
  <2>r. r \in shared /\ r \in Instances /\ r # new
    BY <1>1, <1>2
  <2>1. In(listed'[r]) = In(listed[r])
    BY <1>2, <2>r DEF In
  <2>2. CASE r = c
    <3>1. votesNext'[r] = new /\ new \in shared' /\ new > r
      BY <1>1, <1>2, <2>2
    <3>2. In(listed'[new]) = In(list)
      BY <1>2 DEF In
    <3> QED BY <1>n, <2>1, <2>2, <3>1, <3>2 DEF Replaced
  <2>3. CASE r # c
    <3>1. Replaced(r, c)
      BY <2>r, <2>3 DEF VotesAt
    <3>2. votesNext'[r] = votesNext[r] /\ votesNext[r] \in shared /\ votesNext[r] > r
      BY <1>2, <2>r, <2>3, <3>1 DEF Replaced
    <3>3. In(listed'[votesNext[r]]) = In(listed[votesNext[r]])
      BY <1>1, <1>2, <3>2 DEF In
    <3>4. In(listed'[new]) = In(list)
      BY <1>2 DEF In
    <3>5. ASSUME NEW v \in In(listed[r])
          PROVE  /\ voteNext'[<<r, v>>] = voteNext[<<r, v>>]
                 /\ v \notin In(listed[c]) => v \notin In(list)
      BY <2>r, <2>3 DEF In, Continues
    <3>6. In(listed'[votesNext'[r]]) = In(listed[votesNext[r]])
      BY <3>2, <3>3
    <3> QED BY <1>2, <2>1, <3>1, <3>2, <3>4, <3>5, <3>6 DEF Replaced
  <2> QED BY <2>2, <2>3
<1>8. GoneForGood(new)'
  <2> SUFFICES ASSUME NEW r \in shared', NEW v \in In(listed'[r])
               PROVE  v \in In(listed'[new]) \/ official[v] = NoVote
    BY DEF GoneForGood
  <2>1. CASE r = new
    BY <2>1
  <2>2. CASE r # new
    <3>1. r \in shared /\ listed'[r] = listed[r]
      BY <1>1, <1>2, <2>2
    <3> QED BY <1>2, <3>1 DEF Continues
  <2> QED BY <2>1, <2>2
<1>9. ASSUME NEW p \in VoteCallers PROVE BallotSound(ballot[p], new)'
  <2>1. CASE p = o
    BY <1>3, <2>1, IdleBallot DEF BallotSound
  <2>2. CASE p # o
    <3>1. ballot'[p] = ballot[p] /\ BallotSound(ballot[p], c)
      BY <1>3, <2>2 DEF VotesAt
    <3> DEFINE b == ballot[p]
    <3>2. b.base \in shared => listed'[b.base] = listed[b.base] /\ b.base # new /\ b.base \in shared'
      BY <1>1, <1>2
    <3> QED BY <3>1, <3>2 DEF BallotSound, In
  <2> QED BY <2>1, <2>2
<1>10. VotesAt(new)'
  BY <1>6, <1>7, <1>8, <1>9 DEF VotesAt
<1> QED BY <1>2, <1>4, <1>5, <1>10 DEF VotesInv

(* A list is made that no caller gets hold of, because a vote or the list  *)
(* it was to replace had been discarded.                                   *)
LEMMA StrayListStep ==
  ASSUME VotesType, Unmade, NEW c \in shared, VotesAt(c), NEW o \in VoteCallers, NEW list \in Listing,
         Make(list), Finishes(o), UNCHANGED <<official, cast, shared, votesNext, voteNext>>
  PROVE  VotesInv'
<1>1. /\ made' = made + 1 /\ made + 1 \in Instances /\ made' \in 1..MaxVotes
      /\ \A r \in shared : r \in Instances /\ r # made + 1 /\ r \in 1..(made + 1)
      /\ \A r \in Instances : r > made + 1 => r > made
  BY VotesAssumption DEF VotesType, Make, Instances
<1>2. \A r \in shared : listed'[r] = listed[r]
  BY <1>1 DEF VotesType, Make
<1>3. ballot'[o] = NoBallot /\ \A p \in VoteCallers \ {o} : ballot'[p] = ballot[p]
  BY DEF VotesType, Finishes
<1>4. VotesType'
  <2>1. listed' \in [Instances -> Listing]
    BY DEF VotesType, Make
  <2>2. ballot' \in [VoteCallers -> Ballot]
    BY IdleBallot DEF VotesType, Finishes
  <2> QED BY <1>1, <2>1, <2>2 DEF VotesType
<1>5. Unmade'
  BY <1>1 DEF Unmade
<1>6. IsCurrent(c)' /\ GoneForGood(c)'
  BY <1>2 DEF VotesAt, IsCurrent, GoneForGood, In
<1>7. ASSUME NEW r \in shared \ {c} PROVE Replaced(r, c)'
  <2>1. Replaced(r, c)
    BY DEF VotesAt
  <2>2. votesNext'[r] = votesNext[r] /\ votesNext[r] \in shared
    BY <2>1 DEF Replaced
  <2> QED BY <1>2, <2>1, <2>2 DEF Replaced, In
<1>8. ASSUME NEW p \in VoteCallers PROVE BallotSound(ballot[p], c)'
  <2>1. CASE p = o
    BY <1>3, <2>1, IdleBallot DEF BallotSound
  <2>2. CASE p # o
    <3>1. ballot'[p] = ballot[p] /\ BallotSound(ballot[p], c)
      BY <1>3, <2>2 DEF VotesAt
    <3> QED BY <1>2, <3>1 DEF BallotSound, Continues, In
  <2> QED BY <2>1, <2>2
<1>9. VotesAt(c)'
  BY <1>6, <1>7, <1>8 DEF VotesAt
<1> QED BY <1>4, <1>5, <1>9 DEF VotesInv

LEMMA CastVoteStep ==
  ASSUME VotesType, Unmade, NEW c \in shared, VotesAt(c), NEW o \in VoteCallers,
         NEW r \in Instances, NEW v \in VoteIds, CastVote(o, r, v)
  PROVE  VotesInv'
<1>1. r \in shared /\ v \in In(listed[r])
  BY DEF CastVote
<1>2. VoteOf(r, v) = AVote(c) /\ v \in In(listed[c])
  <2>1. BecameOf(VoteOf(r, v), v, c) /\ VoteOf(r, v).to = "vote"
    BY <1>1, VoteFollows DEF CastVote
  <2> QED BY <2>1 DEF BecameOf, AVote, AVotes, Nothing
<1>3. PICK b : b = [NoBallot EXCEPT !.name = "cast", !.base = VoteOf(r, v).at, !.vote = v]
  OBVIOUS
<1>4. b.name = "cast" /\ b.base = c /\ b.vote = v /\ b.read = NoBallot.read
  BY <1>2, <1>3 DEF AVote, NoBallot
<1>5. b \in Ballot
  <2>1. c \in 0..MaxVotes
    BY Shared DEF Instances
  <2>2. b = [name |-> "cast", base |-> c, vote |-> v, read |-> NoBallot.read]
    <3>1. VoteOf(r, v).at = c
      BY <1>2 DEF AVote
    <3> QED BY <1>3, <3>1 DEF NoBallot
  <2>3. NoBallot.read \in Listing
    BY DEF NoBallot, Listing
  <2> QED BY <2>1, <2>2, <2>3 DEF Ballot
<1>6. BallotSound(b, c)'
  BY <1>2, <1>4 DEF BallotSound, CastVote, In
<1>7. cast \subseteq cast' /\ cast' \subseteq VoteIds /\ ballot' = [ballot EXCEPT ![o] = b]
  BY <1>3 DEF CastVote, VotesType
<1> QED BY <1>5, <1>6, <1>7, BallotStep DEF CastVote

LEMMA SettledStep ==
  ASSUME VotesType, Unmade, NEW c \in shared, VotesAt(c), NEW o \in VoteCallers,
         NEW accepted \in BOOLEAN, Settled(o, accepted)
  PROVE  VotesInv'
<1>1. BallotSound(ballot[o], c) /\ ballot[o] \in Ballot
  BY DEF VotesAt, VotesType
<1>2. CASE accepted
  <2>1. PICK b : b = [ballot[o] EXCEPT !.name = "accepted"]
    OBVIOUS
  <2>2. b.name = "accepted" /\ b.base = ballot[o].base /\ b.vote = ballot[o].vote /\ b \in Ballot
    BY <1>1, <2>1 DEF Ballot
  <2>3. ballot[o].base \in shared /\ ballot[o].vote \in In(listed[ballot[o].base])
    BY <1>1 DEF BallotSound, Settled
  <2>4. ballot' = [ballot EXCEPT ![o] = b] /\ cast' = cast \union {ballot[o].vote}
    BY <1>2, <2>1 DEF Settled, VotesType
  <2>5. BallotSound(b, c)'
    BY <2>2, <2>3, <2>4 DEF BallotSound, Settled, In
  <2>6. cast \subseteq cast' /\ cast' \subseteq VoteIds
    BY <2>3, <2>4 DEF VotesType, In
  <2> QED BY <2>2, <2>4, <2>5, <2>6, BallotStep DEF Settled
<1>3. CASE ~accepted
  <2>1. ballot' = [ballot EXCEPT ![o] = NoBallot] /\ cast' = cast
    BY <1>3 DEF Settled, Finishes
  <2>2. cast \subseteq cast' /\ cast' \subseteq VoteIds
    BY <2>1 DEF VotesType
  <2> QED BY <2>1, <2>2, IdleBallot, BallotStep DEF Settled
<1> QED BY <1>2, <1>3

LEMMA RefreshVotesStep ==
  ASSUME VotesType, Unmade, NEW c \in shared, VotesAt(c), NEW o \in VoteCallers,
         NEW r \in Instances, RefreshVotes(o, r)
  PROVE  VotesInv'
<1>1. VotesOf(r) = c
  BY ListsFollow DEF RefreshVotes
<1>2. PICK b : b = [NoBallot EXCEPT !.name = "refresh", !.base = VotesOf(r)]
  OBVIOUS
<1>3. b.name = "refresh" /\ b.base = c
  BY <1>1, <1>2 DEF NoBallot
<1>4. b \in Ballot
  <2>1. c \in 0..MaxVotes
    BY Shared DEF Instances
  <2> QED BY <1>1, <1>2, <2>1, IdleBallot DEF Ballot
<1>5. BallotSound(b, c)'
  BY <1>3 DEF BallotSound, RefreshVotes
<1>6. cast \subseteq cast' /\ cast' \subseteq VoteIds /\ ballot' = [ballot EXCEPT ![o] = b]
  BY <1>2 DEF RefreshVotes, VotesType
<1> QED BY <1>4, <1>5, <1>6, BallotStep DEF RefreshVotes

LEMMA FetchDataStep ==
  ASSUME VotesType, Unmade, NEW c \in shared, VotesAt(c), NEW o \in VoteCallers, FetchData(o)
  PROVE  VotesInv'
<1>1. cast \subseteq cast' /\ cast' \subseteq VoteIds
  BY DEF FetchData, VotesType
<1>2. CASE Finishes(o)
  BY <1>1, <1>2, IdleBallot, BallotStep DEF FetchData, Finishes
<1>3. CASE ballot' = [ballot EXCEPT ![o].name = "fetched", ![o].read = official]
  <2>1. PICK b : b = [ballot[o] EXCEPT !.name = "fetched", !.read = official]
    OBVIOUS
  <2>2. ballot[o] \in Ballot /\ official \in Listing /\ ballot[o].base \in shared
    BY DEF VotesType, VotesAt, BallotSound, FetchData
  <2>3. b \in Ballot /\ b.name = "fetched" /\ b.base = ballot[o].base /\ b.read = official
    BY <2>1, <2>2 DEF Ballot
  <2>4. ballot' = [ballot EXCEPT ![o] = b]
    BY <1>3, <2>1 DEF VotesType
  <2>5. BallotSound(b, c)'
    <3>1. Continues(official, c)
      BY DEF Continues, VotesAt, GoneForGood, In
    <3> QED BY <2>2, <2>3, <3>1 DEF BallotSound, Continues, FetchData, In
  <2> QED BY <1>1, <2>3, <2>4, <2>5, BallotStep DEF FetchData
<1> QED BY <1>2, <1>3 DEF FetchData

LEMMA CastVoteDoneStep ==
  ASSUME VotesType, Unmade, NEW c \in shared, VotesAt(c), NEW o \in VoteCallers, CastVoteDone(o)
  PROVE  VotesInv'
<1>1. PICK base : base = ballot[o].base
  OBVIOUS
<1>2. PICK v : v = ballot[o].vote
  OBVIOUS
<1>3. PICK now : now = VoteOf(base, v)
  OBVIOUS
<1>4. base \in shared /\ v \in In(listed[base]) /\ v \in cast
  BY <1>1, <1>2 DEF CastVoteDone, VotesAt, BallotSound
<1>5. BecameOf(now, v, c)
  BY <1>3, <1>4, VoteFollows
<1>6. CASE now.to = "vote" /\ v \in In(listed[VotesOf(now.at)])
  <2>1. now.at = c
    BY <1>5, <1>6 DEF BecameOf, AVote, AVotes, Nothing
  <2>2. VotesOf(c) = c
    BY ListsFollow
  <2>3. PICK list : list = [listed[c] EXCEPT ![v] = listed[base][v]]
    OBVIOUS
  <2>4. /\ Make(list) /\ Finishes(o)
        /\ votesNext' = [votesNext EXCEPT ![c] = made + 1]
        /\ voteNext' = [Rebound(c, v) EXCEPT ![<<c, v>>] = AVotes(made + 1)]
        /\ shared' = shared \union {made + 1}
    BY <1>1, <1>2, <1>3, <1>6, <2>1, <2>2, <2>3 DEF CastVoteDone
  <2>5. v \in VoteIds /\ c \in Instances /\ base \in Instances /\ v \in In(listed[c])
    BY <1>4, <1>6, <2>1, <2>2, Shared DEF In
  <2>6. list \in Listing /\ In(list) = In(listed[c])
    <3>1. listed[c] \in Listing /\ listed[base] \in Listing
      BY <2>5 DEF VotesType
    <3>2. listed[base][v] # NoVote /\ listed[c][v] # NoVote
      BY <1>4, <2>5 DEF In
    <3> QED BY <2>3, <2>5, <3>1, <3>2 DEF Listing, In
  <2>7. Continues(list, c)
    <3>1. GoneForGood(c)
      BY DEF VotesAt
    <3> QED BY <2>6, <3>1 DEF GoneForGood, Continues
  <2>8. made + 1 \in 0..MaxVotes
    BY <2>4, VotesAssumption DEF VotesType, Make
  <2>9. AVote(made + 1) \in Reference /\ AVotes(made + 1) \in Reference
    BY <2>8 DEF Reference, AVote, AVotes
  <2>10. Rebound(c, v) \in [Instances \X VoteIds -> Reference]
    BY <2>9 DEF Rebound, VotesType
  <2>11. voteNext' \in [Instances \X VoteIds -> Reference]
    BY <2>4, <2>9, <2>10
  <2>12. voteNext'[<<c, v>>] = AVotes(made + 1)
    <3>1. <<c, v>> \in Instances \X VoteIds
      BY <2>5
    <3> QED BY <2>4, <2>10, <3>1
  <2>13. \A h \in Instances \X VoteIds : h # <<c, v>> => voteNext'[h] = Rebound(c, v)[h]
    BY <2>4, <2>10
  <2>14. \A r \in Instances \ {c} : \A w \in VoteIds : voteNext'[<<r, w>>] = voteNext[<<r, w>>]
    BY <2>13 DEF Rebound
  <2>15. ASSUME NEW w \in In(listed[c]), w # v PROVE voteNext'[<<c, w>>] = AVote(made + 1) /\ w \in In(list)
    <3>1. <<c, w>> \in Instances \X VoteIds /\ <<c, w>> # <<c, v>>
      BY <2>5, <2>15 DEF In
    <3> QED BY <2>6, <2>13, <2>15, <3>1 DEF Rebound
  <2>16. UNCHANGED <<official, cast>>
    BY DEF CastVoteDone
  <2> QED BY <1>4, <2>4, <2>6, <2>7, <2>11, <2>12, <2>14, <2>15, <2>16, ListStep
<1>7. CASE ~(now.to = "vote" /\ v \in In(listed[VotesOf(now.at)]))
  <2>1. Fails(o) /\ UNCHANGED <<official, cast>>
    BY <1>1, <1>2, <1>3, <1>7 DEF CastVoteDone
  <2>2. cast \subseteq cast' /\ cast' \subseteq VoteIds
    BY <2>1 DEF VotesType
  <2> QED BY <2>1, <2>2, IdleBallot, BallotStep DEF Fails, Finishes
<1> QED BY <1>6, <1>7

(* The votes of a list that was replaced are all discarded, so a refresh   *)
(* that comes too late discards none.                                      *)
LEMMA RefreshVotesDoneStep ==
  ASSUME VotesType, Unmade, NEW c \in shared, VotesAt(c), NEW o \in VoteCallers, RefreshVotesDone(o)
  PROVE  VotesInv'
<1>1. PICK base : base = ballot[o].base
  OBVIOUS
<1>2. PICK read : read = ballot[o].read
  OBVIOUS
<1>3. base \in shared /\ read \in Listing /\ base \in Instances
  BY <1>1, <1>2, Shared DEF RefreshVotesDone, VotesAt, BallotSound, VotesType, Ballot
<1>4. /\ Make(read) /\ Finishes(o) /\ UNCHANGED <<official, cast>>
      /\ voteNext' = [h \in Instances \X VoteIds |->
                        IF h[1] = base /\ h[2] \in Previous(base, read)
                        THEN IF h[2] \in In(read) THEN AVote(made + 1) ELSE Nothing
                        ELSE voteNext[h]]
      /\ \/ /\ Discarded(base) = {} /\ votesNext[base] = 0
            /\ votesNext' = [votesNext EXCEPT ![base] = made + 1]
            /\ shared' = shared \union {made + 1}
         \/ /\ Discarded(base) # {} \/ votesNext[base] # 0
            /\ UNCHANGED <<votesNext, shared>>
  BY <1>1, <1>2 DEF RefreshVotesDone
<1>5. CASE base = c
  <2>1. Discarded(c) = {} /\ votesNext[c] = 0
    BY DEF Discarded, VotesAt, IsCurrent
  <2>2. Previous(c, read) = In(listed[c])
    BY <2>1 DEF Previous
  <2>3. Continues(read, c)
    BY <1>1, <1>2, <1>5 DEF RefreshVotesDone, VotesAt, BallotSound
  <2>4. made + 1 \in 0..MaxVotes /\ 0 \in 0..MaxVotes
    BY <1>4, VotesAssumption DEF VotesType, Make
  <2>5. AVote(made + 1) \in Reference /\ Nothing \in Reference
    BY <2>4 DEF Reference, AVote, Nothing
  <2>6. voteNext' \in [Instances \X VoteIds -> Reference]
    BY <1>4, <2>5 DEF VotesType
  <2>7. \A r \in Instances \ {c} : \A v \in VoteIds : voteNext'[<<r, v>>] = voteNext[<<r, v>>]
    BY <1>4, <1>5
  <2>8. \A v \in In(listed[c]) :
          \/ voteNext'[<<c, v>>] = AVote(made + 1) /\ v \in In(read)
          \/ voteNext'[<<c, v>>] = Nothing /\ v \notin In(read)
    BY <1>3, <1>4, <1>5, <2>2 DEF In
  <2> QED BY <1>3, <1>4, <1>5, <2>1, <2>3, <2>6, <2>7, <2>8, ListStep
<1>6. CASE base # c
  <2>1. Replaced(base, c)
    BY <1>3, <1>6 DEF VotesAt
  <2>2. Discarded(base) = In(listed[base]) /\ votesNext[base] # 0
    BY <1>3, <2>1 DEF Replaced, Discarded, Live, AVote, AVotes, Nothing, VotesType, Instances
  <2>3. Previous(base, read) = {}
    <3>1. \A v \in In(listed[base]) : ~(v > v)
      BY VotesAssumption DEF In
    <3> QED BY <2>2, <3>1 DEF Previous
  <2>4. voteNext' = voteNext
    BY <1>4, <2>3 DEF VotesType
  <2> QED BY <1>3, <1>4, <2>2, <2>4, StrayListStep
<1> QED BY <1>5, <1>6

LEMMA VotesMoveStep ==
  ASSUME VotesType, Unmade, NEW c \in shared, VotesAt(c), VotesMove
  PROVE  VotesInv'
<1>1. official' \in Listing
  BY DEF VotesMove, VotesType, Listing, VoteStatus
<1>2. ASSUME NEW r \in shared, NEW v \in In(listed[r]), official[v] = NoVote
      PROVE  official'[v] = NoVote
  <2>1. r \in 1..made
    BY DEF VotesType
  <2> QED BY <1>2, <2>1 DEF VotesMove, VotesType, Listing, VoteStatus, NoVote, In
<1>3. VotesType' /\ Unmade' /\ IsCurrent(c)'
  BY <1>1 DEF VotesMove, VotesType, Unmade, VotesAt, IsCurrent, In
<1>4. ASSUME NEW r \in shared \ {c} PROVE Replaced(r, c)'
  <2>1. Replaced(r, c)
    BY DEF VotesAt
  <2> QED BY <2>1 DEF Replaced, In, VotesMove
<1>5. GoneForGood(c)'
  BY <1>2 DEF VotesAt, GoneForGood, VotesMove
<1>6. ASSUME NEW p \in VoteCallers PROVE BallotSound(ballot[p], c)'
  <2>1. BallotSound(ballot[p], c)
    BY DEF VotesAt
  <2> QED BY <1>2, <2>1 DEF BallotSound, Continues, VotesMove
<1>7. VotesAt(c)'
  BY <1>3, <1>4, <1>5, <1>6 DEF VotesAt, VotesMove
<1> QED BY <1>3, <1>7 DEF VotesInv, VotesMove

LEMMA VotesStep == VotesInv /\ VotesNext => VotesInv'
<1> SUFFICES ASSUME VotesInv, VotesNext PROVE VotesInv'
  OBVIOUS
<1>1. VotesType /\ Unmade
  BY DEF VotesInv
<1>2. PICK c \in shared : VotesAt(c)
  BY DEF VotesInv
<1>3. CASE VotesMove
  BY <1>1, <1>2, <1>3, VotesMoveStep
<1>4. ASSUME NEW o \in VoteCallers, NEW r \in Instances, NEW v \in VoteIds, CastVote(o, r, v) PROVE VotesInv'
  BY <1>1, <1>2, <1>4, CastVoteStep
<1>5. ASSUME NEW o \in VoteCallers, NEW accepted \in BOOLEAN, Settled(o, accepted) PROVE VotesInv'
  BY <1>1, <1>2, <1>5, SettledStep
<1>6. ASSUME NEW o \in VoteCallers, CastVoteDone(o) PROVE VotesInv'
  BY <1>1, <1>2, <1>6, CastVoteDoneStep
<1>7. ASSUME NEW o \in VoteCallers, NEW r \in Instances, RefreshVotes(o, r) PROVE VotesInv'
  BY <1>1, <1>2, <1>7, RefreshVotesStep
<1>8. ASSUME NEW o \in VoteCallers, FetchData(o) PROVE VotesInv'
  BY <1>1, <1>2, <1>8, FetchDataStep
<1>9. ASSUME NEW o \in VoteCallers, RefreshVotesDone(o) PROVE VotesInv'
  BY <1>1, <1>2, <1>9, RefreshVotesDoneStep
<1> QED BY <1>3, <1>4, <1>5, <1>6, <1>7, <1>8, <1>9 DEF VotesNext

LEMMA VotesInitially == VotesInit => VotesInv
<1> SUFFICES ASSUME VotesInit PROVE VotesInv
  OBVIOUS
<1>1. 1 \in Instances /\ 1..1 = {1} /\ 0 \in 0..MaxVotes /\ 1 \in 1..MaxVotes
  BY VotesAssumption DEF Instances
<1>2. official \in Listing /\ [v \in VoteIds |-> NoVote] \in Listing
  BY DEF VotesInit, Listing, VoteStatus
<1>3. Live \in Reference
  BY <1>1 DEF Live, Reference
<1>4. VotesType
  BY <1>1, <1>2, <1>3, IdleBallot DEF VotesInit, VotesType
<1>5. Unmade
  BY DEF VotesInit, Unmade
<1>6. shared = {1} /\ listed[1] = official /\ votesNext[1] = 0
  BY <1>1 DEF VotesInit
<1>7. \A v \in VoteIds : voteNext[<<1, v>>] = Live
  BY <1>1 DEF VotesInit
<1>8. VotesAt(1)
  <2>1. IsCurrent(1) /\ GoneForGood(1)
    BY <1>6, <1>7 DEF IsCurrent, GoneForGood, In
  <2>2. \A o \in VoteCallers : ballot[o] = NoBallot
    BY DEF VotesInit
  <2> QED BY <1>6, <2>1, <2>2, IdleBallot DEF VotesAt
<1> QED BY <1>4, <1>5, <1>6, <1>8 DEF VotesInv

(* For any number of votes, of Votes objects and of overlapping            *)
(* operations, one list is current, its votes are the live ones, and       *)
(* however old a vote is, it leads to what became of it.                   *)
THEOREM VotesLead == Spec => []VotesLeadToListed
<1>1. ServicesInit => VotesInv
  BY VotesInitially DEF ServicesInit
<1>2. VotesInv /\ [ServicesNext]_servicesVars => VotesInv'
  <2> SUFFICES ASSUME VotesInv, [ServicesNext]_servicesVars PROVE VotesInv'
    OBVIOUS
  <2>1. CASE OnVotes
    BY <2>1, VotesStep DEF OnVotes
  <2>2. CASE UNCHANGED votesVars
    <3>1. PICK c \in shared : VotesAt(c)
      BY DEF VotesInv
    <3>2. VotesType' /\ Unmade' /\ shared' = shared
      BY <2>2 DEF VotesInv, VotesType, Unmade, votesVars
    <3>3. VotesAt(c)'
      BY <2>2, <3>1 DEF VotesAt, IsCurrent, Replaced, GoneForGood, BallotSound, Continues, votesVars
    <3> QED BY <3>2, <3>3 DEF VotesInv
  <2> QED BY <2>1, <2>2 DEF ServicesNext, servicesVars, OnNodes, OnSession, OnWorkload
<1>3. VotesInv => VotesLeadToListed
  <2> SUFFICES ASSUME VotesInv PROVE VotesLeadToListed
    OBVIOUS
  <2>1. PICK c \in shared : VotesAt(c)
    BY DEF VotesInv
  <2>2. VotesType
    BY DEF VotesInv
  <2>3. ASSUME NEW r \in shared
        PROVE  /\ votesNext[r] = 0 <=> r = c
               /\ \A v \in In(listed[r]) : voteNext[<<r, v>>] = Live <=> r = c
    <3>1. CASE r = c
      BY <2>1, <3>1 DEF VotesAt, IsCurrent
    <3>2. CASE r # c
      <4>1. Replaced(r, c) /\ r \in Instances
        BY <2>1, <2>2, <3>2, Shared DEF VotesAt
      <4> QED BY <2>2, <3>2, <4>1 DEF Replaced, Live, AVote, AVotes, Nothing, VotesType, Instances
    <3> QED BY <3>1, <3>2
  <2>4. ASSUME NEW r \in shared, NEW v \in In(listed[r]), NEW now, now = VoteOf(r, v)
        PROVE  \/ now.to = "vote" /\ now.at = VotesOf(r) /\ v \in In(listed[now.at])
               \/ now.to = "nothing" /\ v \notin In(listed[VotesOf(r)])
               \/ now.to = "votes" /\ now.at = VotesOf(r) /\ v \in cast
    <3>1. BecameOf(now, v, c) /\ VotesOf(r) = c
      BY <2>1, <2>2, <2>4, VoteFollows, ListsFollow
    <3> QED BY <3>1 DEF BecameOf, AVote, AVotes, Nothing
  <2> QED BY <2>3, <2>4 DEF VotesLeadToListed
<1> QED BY <1>1, <1>2, <1>3, PTL DEF Spec

-----------------------------------------------------------------------------
(* The estimates. *)

(* The fees of some kinds, and how many kinds they are. *)
Part(s, k, n) == IF k \in s THEN n ELSE 0

SumOver(a, s) ==
  Part(s, "inclusion", a["inclusion"].amount) + Part(s, "storage", a["storage"].amount)
    + Part(s, "legal", a["legal"].amount) + Part(s, "certificate", a["certificate"].amount)
    + Part(s, "value", a["value"].amount) + Part(s, "collectionItem", a["collectionItem"].amount)
    + Part(s, "tokensRecord", a["tokensRecord"].amount)

HowMany(s) ==
  Part(s, "inclusion", 1) + Part(s, "storage", 1) + Part(s, "legal", 1) + Part(s, "certificate", 1)
    + Part(s, "value", 1) + Part(s, "collectionItem", 1) + Part(s, "tokensRecord", 1)

Amounts == [FeeKinds -> [amount : Int, any : BOOLEAN]]

(* What MapThenSumSet computes, taking the kinds one after the other. *)
OneByOne(a, f) ==
  f = [s \in SUBSET FeeKinds |->
         IF s = {} THEN 0
         ELSE LET x == CHOOSE k \in s : TRUE IN a[x].amount + f[s \ {x}]]

LEMMA TakeOne ==
  ASSUME NEW a \in Amounts, NEW s \in SUBSET FeeKinds, NEW x \in s
  PROVE  /\ SumOver(a, s) = a[x].amount + SumOver(a, s \ {x})
         /\ HowMany(s) = 1 + HowMany(s \ {x})
         /\ SumOver(a, s) \in Int /\ HowMany(s) \in Nat /\ HowMany(s \ {x}) \in Nat
<1>1. \A k \in FeeKinds : a[k].amount \in Int
  BY DEF Amounts
<1>2. x \in FeeKinds
  OBVIOUS
<1>3. \A k : \A n \in Int : k # x => Part(s \ {x}, k, n) = Part(s, k, n) /\ Part(s, k, n) \in Int
  BY DEF Part
<1>4. \A n \in Int : Part(s \ {x}, x, n) = 0 /\ Part(s, x, n) = n
  BY DEF Part
<1>5. ASSUME NEW k, k # x, NEW n \in {0, 1} PROVE Part(s, k, n) \in Nat
  BY <1>5 DEF Part
<1>6. Part(s, x, 1) = 1 /\ Part(s \ {x}, x, 1) = 0
  BY <1>4
<1>k0. CASE x = "inclusion"
  <2>1. \A k \in FeeKinds : k # x => Part(s \ {x}, k, a[k].amount) = Part(s, k, a[k].amount) /\ Part(s, k, a[k].amount) \in Int
    BY <1>1, <1>3
  <2>2. \A k \in FeeKinds : k # x => Part(s \ {x}, k, 1) = Part(s, k, 1) /\ Part(s, k, 1) \in Nat
    BY <1>3, <1>5
  <2>3. Part(s \ {x}, x, a[x].amount) = 0 /\ Part(s, x, a[x].amount) = a[x].amount /\ a[x].amount \in Int
    BY <1>1, <1>2, <1>4
  <2> QED BY <1>6, <1>k0, <2>1, <2>2, <2>3 DEF SumOver, HowMany, FeeKinds
<1>k1. CASE x = "storage"
  <2>1. \A k \in FeeKinds : k # x => Part(s \ {x}, k, a[k].amount) = Part(s, k, a[k].amount) /\ Part(s, k, a[k].amount) \in Int
    BY <1>1, <1>3
  <2>2. \A k \in FeeKinds : k # x => Part(s \ {x}, k, 1) = Part(s, k, 1) /\ Part(s, k, 1) \in Nat
    BY <1>3, <1>5
  <2>3. Part(s \ {x}, x, a[x].amount) = 0 /\ Part(s, x, a[x].amount) = a[x].amount /\ a[x].amount \in Int
    BY <1>1, <1>2, <1>4
  <2> QED BY <1>6, <1>k1, <2>1, <2>2, <2>3 DEF SumOver, HowMany, FeeKinds
<1>k2. CASE x = "legal"
  <2>1. \A k \in FeeKinds : k # x => Part(s \ {x}, k, a[k].amount) = Part(s, k, a[k].amount) /\ Part(s, k, a[k].amount) \in Int
    BY <1>1, <1>3
  <2>2. \A k \in FeeKinds : k # x => Part(s \ {x}, k, 1) = Part(s, k, 1) /\ Part(s, k, 1) \in Nat
    BY <1>3, <1>5
  <2>3. Part(s \ {x}, x, a[x].amount) = 0 /\ Part(s, x, a[x].amount) = a[x].amount /\ a[x].amount \in Int
    BY <1>1, <1>2, <1>4
  <2> QED BY <1>6, <1>k2, <2>1, <2>2, <2>3 DEF SumOver, HowMany, FeeKinds
<1>k3. CASE x = "certificate"
  <2>1. \A k \in FeeKinds : k # x => Part(s \ {x}, k, a[k].amount) = Part(s, k, a[k].amount) /\ Part(s, k, a[k].amount) \in Int
    BY <1>1, <1>3
  <2>2. \A k \in FeeKinds : k # x => Part(s \ {x}, k, 1) = Part(s, k, 1) /\ Part(s, k, 1) \in Nat
    BY <1>3, <1>5
  <2>3. Part(s \ {x}, x, a[x].amount) = 0 /\ Part(s, x, a[x].amount) = a[x].amount /\ a[x].amount \in Int
    BY <1>1, <1>2, <1>4
  <2> QED BY <1>6, <1>k3, <2>1, <2>2, <2>3 DEF SumOver, HowMany, FeeKinds
<1>k4. CASE x = "value"
  <2>1. \A k \in FeeKinds : k # x => Part(s \ {x}, k, a[k].amount) = Part(s, k, a[k].amount) /\ Part(s, k, a[k].amount) \in Int
    BY <1>1, <1>3
  <2>2. \A k \in FeeKinds : k # x => Part(s \ {x}, k, 1) = Part(s, k, 1) /\ Part(s, k, 1) \in Nat
    BY <1>3, <1>5
  <2>3. Part(s \ {x}, x, a[x].amount) = 0 /\ Part(s, x, a[x].amount) = a[x].amount /\ a[x].amount \in Int
    BY <1>1, <1>2, <1>4
  <2> QED BY <1>6, <1>k4, <2>1, <2>2, <2>3 DEF SumOver, HowMany, FeeKinds
<1>k5. CASE x = "collectionItem"
  <2>1. \A k \in FeeKinds : k # x => Part(s \ {x}, k, a[k].amount) = Part(s, k, a[k].amount) /\ Part(s, k, a[k].amount) \in Int
    BY <1>1, <1>3
  <2>2. \A k \in FeeKinds : k # x => Part(s \ {x}, k, 1) = Part(s, k, 1) /\ Part(s, k, 1) \in Nat
    BY <1>3, <1>5
  <2>3. Part(s \ {x}, x, a[x].amount) = 0 /\ Part(s, x, a[x].amount) = a[x].amount /\ a[x].amount \in Int
    BY <1>1, <1>2, <1>4
  <2> QED BY <1>6, <1>k5, <2>1, <2>2, <2>3 DEF SumOver, HowMany, FeeKinds
<1>k6. CASE x = "tokensRecord"
  <2>1. \A k \in FeeKinds : k # x => Part(s \ {x}, k, a[k].amount) = Part(s, k, a[k].amount) /\ Part(s, k, a[k].amount) \in Int
    BY <1>1, <1>3
  <2>2. \A k \in FeeKinds : k # x => Part(s \ {x}, k, 1) = Part(s, k, 1) /\ Part(s, k, 1) \in Nat
    BY <1>3, <1>5
  <2>3. Part(s \ {x}, x, a[x].amount) = 0 /\ Part(s, x, a[x].amount) = a[x].amount /\ a[x].amount \in Int
    BY <1>1, <1>2, <1>4
  <2> QED BY <1>6, <1>k6, <2>1, <2>2, <2>3 DEF SumOver, HowMany, FeeKinds
<1> QED BY <1>2, <1>k0, <1>k1, <1>k2, <1>k3, <1>k4, <1>k5, <1>k6 DEF FeeKinds

LEMMA SumIs ==
  ASSUME NEW a \in Amounts
  PROVE  Sum(a) = SumOver(a, FeeKinds)
<1>1. Sum(a) = (CHOOSE f : OneByOne(a, f))[FeeKinds]
  BY DEF Sum, MapThenSumSet, MapThenFoldSet, OneByOne
<1>2. OneByOne(a, [s \in SUBSET FeeKinds |-> SumOver(a, s)])
  <2>1. ASSUME NEW s \in SUBSET FeeKinds
        PROVE  SumOver(a, s) = IF s = {} THEN 0
                               ELSE LET x == CHOOSE k \in s : TRUE IN a[x].amount + SumOver(a, s \ {x})
    <3>1. CASE s = {}
      BY <3>1 DEF SumOver, Part
    <3>2. CASE s # {}
      <4>1. PICK x : x = CHOOSE k \in s : TRUE
        OBVIOUS
      <4>2. x \in s
        BY <3>2, <4>1
      <4> QED BY <3>2, <4>1, <4>2, TakeOne
    <3> QED BY <3>1, <3>2
  <2> QED BY <2>1 DEF OneByOne
<1>3. PICK f : f = (CHOOSE g : OneByOne(a, g)) /\ OneByOne(a, f)
  BY <1>2
<1>4. \A s \in SUBSET FeeKinds : f[s] = SumOver(a, s)
  <2> DEFINE Wrong == {n \in Nat : \E s \in SUBSET FeeKinds : HowMany(s) = n /\ f[s] # SumOver(a, s)}
  <2>1. ASSUME NEW s \in SUBSET FeeKinds, s # {}
        PROVE  \E x \in s : f[s] = a[x].amount + f[s \ {x}]
    <3>1. PICK x : x = CHOOSE k \in s : TRUE
      OBVIOUS
    <3>2. x \in s
      BY <2>1, <3>1
    <3> QED BY <1>3, <2>1, <3>1, <3>2 DEF OneByOne
  <2>2. HowMany({}) = 0 /\ SumOver(a, {}) = 0 /\ f[{}] = 0
    <3>1. {} \in SUBSET FeeKinds
      OBVIOUS
    <3>2. f[{}] = 0
      BY <1>3, <3>1 DEF OneByOne
    <3>3. HowMany({}) = 0 /\ SumOver(a, {}) = 0
      BY DEF HowMany, SumOver, Part
    <3> QED BY <3>2, <3>3
  <2>3. Wrong = {}
    <3> SUFFICES ASSUME Wrong # {} PROVE FALSE
      OBVIOUS
    <3>1. PICK n \in Wrong : \A m \in Wrong : n <= m
      <4>1. Wrong \subseteq Nat
        OBVIOUS
      <4> HIDE DEF Wrong
      <4> QED BY <4>1, LeastNat
    <3>2. PICK s \in SUBSET FeeKinds : HowMany(s) = n /\ f[s] # SumOver(a, s)
      BY <3>1
    <3>3. s # {}
      BY <2>2, <3>2
    <3>4. PICK x \in s : f[s] = a[x].amount + f[s \ {x}]
      BY <2>1, <3>3
    <3>5. HowMany(s \ {x}) \in Nat /\ ~(n <= HowMany(s \ {x}))
      <4>1. HowMany(s) = 1 + HowMany(s \ {x}) /\ HowMany(s \ {x}) \in Nat
        BY TakeOne
      <4>2. \A i \in Nat : ~(1 + i <= i)
        OBVIOUS
      <4> QED BY <3>2, <4>1, <4>2
    <3>6. f[s \ {x}] = SumOver(a, s \ {x})
      BY <3>1, <3>5
    <3>7. SumOver(a, s) = a[x].amount + SumOver(a, s \ {x})
      BY TakeOne
    <3> QED BY <3>2, <3>4, <3>6, <3>7
  <2>4. ASSUME NEW s \in SUBSET FeeKinds PROVE HowMany(s) \in Nat
    <3>1. CASE s = {}
      BY <2>2, <3>1
    <3>2. CASE s # {}
      <4>1. PICK x : x \in s
        BY <3>2
      <4> QED BY <4>1, TakeOne
    <3> QED BY <3>1, <3>2
  <2> QED BY <2>3, <2>4
<1> QED BY <1>1, <1>3, <1>4

Fees == [FeeKinds -> Nat \union {Undefined}]
Owed == [FeeKinds -> [amount : Nat, any : BOOLEAN]]

EstimatesType ==
  /\ fees \in Fees /\ due \in Owed
  /\ time \in Int /\ block \in Int
  /\ hops \in [dates : Nat, all : Nat]

(* Kind by kind, the fees are what is due; what no estimate had is zero.   *)
FeesAreDue(f, owed) ==
  /\ owed["inclusion"].any
  /\ \A k \in FeeKinds :
       IF owed[k].any THEN f[k] = owed[k].amount ELSE f[k] = Undefined /\ owed[k].amount = 0

(* A time and its block, that n dates led to. *)
Near(t, b, n) ==
  /\ t - b * BlockTime <= n * (BlockTime - 1)
  /\ b * BlockTime - t <= n * (BlockTime - 1)

EstimatesInv == EstimatesType /\ FeesAreDue(fees, due) /\ Near(time, block, hops.dates)

LEMMA TotalIsDue ==
  ASSUME NEW f \in Fees, NEW owed \in Owed, FeesAreDue(f, owed)
  PROVE  TotalFee(f) = Sum(owed) /\ Sum(owed) \in Nat
<1>1. owed \in Amounts
  BY DEF Owed, Amounts
<1>2. Sum(owed) = owed["inclusion"].amount + owed["storage"].amount + owed["legal"].amount
                    + owed["certificate"].amount + owed["value"].amount
                    + owed["collectionItem"].amount + owed["tokensRecord"].amount
  BY <1>1, SumIs DEF SumOver, Part, FeeKinds
<1>3. \A k \in FeeKinds : OrZero(f[k]) = owed[k].amount /\ owed[k].amount \in Nat
  BY DEF FeesAreDue, Owed, OrZero, Undefined
<1>4. f["inclusion"] = owed["inclusion"].amount
  BY DEF FeesAreDue, FeeKinds
<1> QED BY <1>2, <1>3, <1>4 DEF TotalFee, FeeKinds

LEMMA EstimatedIsFees == \A f \in Estimated \union Charged : f \in Fees
<1>1. \A kinds : OfKinds(kinds) \in Fees
  BY EstimatesAssumption DEF OfKinds, Fees
<1>2. ASSUME NEW f \in Charged PROVE f \in Fees
  BY EstimatesAssumption DEF Charged, Fees
<1>3. ASSUME NEW stored, NEW legal \in Given \union {Undefined}, NEW value \in Given \union {Undefined}
      PROVE  [OfKinds({"inclusion", "legal"} \union stored) EXCEPT
                !["legal"] = IF legal = Undefined THEN @ ELSE legal, !["value"] = value] \in Fees
  <2>1. legal \in Nat \union {Undefined} /\ value \in Nat \union {Undefined}
    BY EstimatesAssumption
  <2>2. ASSUME NEW g \in Fees
        PROVE  [g EXCEPT !["legal"] = IF legal = Undefined THEN @ ELSE legal, !["value"] = value] \in Fees
    BY <2>1 DEF Fees, FeeKinds
  <2>3. OfKinds({"inclusion", "legal"} \union stored) \in Fees
    BY <1>1
  <2> QED BY <2>2, <2>3
<1>4. ASSUME NEW f \in Estimated PROVE f \in Fees
  <2>1. CASE f \in {OfKinds({"inclusion"}), OfKinds({"inclusion", "storage"}),
                    OfKinds({"inclusion", "storage", "certificate", "collectionItem"}),
                    OfKinds({"inclusion", "storage", "tokensRecord"})}
    BY <1>1, <2>1
  <2>2. CASE \E stored \in {{}, {"storage"}} : \E legal \in Given \union {Undefined} :
             \E value \in Given \union {Undefined} :
               f = [OfKinds({"inclusion", "legal"} \union stored) EXCEPT
                      !["legal"] = IF legal = Undefined THEN @ ELSE legal, !["value"] = value]
    <3>1. PICK stored \in {{}, {"storage"}}, legal \in Given \union {Undefined}, value \in Given \union {Undefined} :
               f = [OfKinds({"inclusion", "legal"} \union stored) EXCEPT
                      !["legal"] = IF legal = Undefined THEN @ ELSE legal, !["value"] = value]
      BY <2>2, Zenon
    <3>2. [OfKinds({"inclusion", "legal"} \union stored) EXCEPT
             !["legal"] = IF legal = Undefined THEN @ ELSE legal, !["value"] = value] \in Fees
      BY <1>3
    <3> QED BY <3>1, <3>2, Zenon
  <2> QED BY <2>1, <2>2 DEF Estimated
<1> QED BY <1>2, <1>4

LEMMA AddFeesStep ==
  ASSUME EstimatesInv, NEW f \in Estimated \union Charged, AddFees(f)
  PROVE  EstimatesInv'
<1>1. f \in Fees
  BY EstimatedIsFees
<1>2. ASSUME NEW k \in FeeKinds
      PROVE  /\ fees'[k] = AddFee(fees[k], f[k])
             /\ due'[k].amount = due[k].amount + OrZero(f[k])
             /\ due'[k].any = (due[k].any \/ f[k] # Undefined)
             /\ due'[k] = [amount |-> due'[k].amount, any |-> due'[k].any]
  <2>1. due'[k] = [amount |-> due[k].amount + OrZero(f[k]), any |-> due[k].any \/ f[k] # Undefined]
    BY DEF AddFees, Put
  <2>2. fees'[k] = AddFee(fees[k], f[k])
    BY DEF AddFees
  <2> QED BY <2>1, <2>2
<1>3. ASSUME NEW k \in FeeKinds
      PROVE  /\ fees'[k] \in Nat \union {Undefined}
             /\ due'[k].amount \in Nat
             /\ IF due[k].any \/ f[k] # Undefined THEN fees'[k] = due'[k].amount
                ELSE fees'[k] = Undefined /\ due'[k].amount = 0
  <2>1. /\ due[k].any => fees[k] = due[k].amount
        /\ ~due[k].any => fees[k] = Undefined /\ due[k].amount = 0
    BY DEF EstimatesInv, FeesAreDue
  <2>2. fees[k] \in Nat \union {Undefined} /\ f[k] \in Nat \union {Undefined} /\ due[k].amount \in Nat
    BY <1>1 DEF Fees, EstimatesInv, EstimatesType, Owed
  <2>3. due'[k].amount = due[k].amount + OrZero(f[k]) /\ fees'[k] = AddFee(fees[k], f[k])
    BY <1>2
  <2>4. CASE f[k] = Undefined
    <3>1. due'[k].amount = due[k].amount /\ fees'[k] = fees[k]
      BY <2>2, <2>3, <2>4 DEF OrZero, AddFee
    <3> QED BY <2>1, <2>2, <2>4, <3>1
  <2>5. CASE f[k] # Undefined /\ due[k].any
    <3>1. fees[k] # Undefined
      BY <2>1, <2>2, <2>5 DEF Undefined
    <3>2. due'[k].amount = due[k].amount + f[k] /\ fees'[k] = fees[k] + f[k]
      BY <2>3, <2>5, <3>1 DEF OrZero, AddFee
    <3> QED BY <2>1, <2>2, <2>5, <3>1, <3>2
  <2>6. CASE f[k] # Undefined /\ ~due[k].any
    <3>1. due'[k].amount = due[k].amount + f[k] /\ fees'[k] = f[k]
      BY <2>1, <2>3, <2>6 DEF OrZero, AddFee
    <3> QED BY <2>1, <2>2, <2>6, <3>1
  <2> QED BY <2>4, <2>5, <2>6
<1>4. fees' \in Fees /\ due' \in Owed
  <2>1. fees' = [k \in FeeKinds |-> fees'[k]] /\ due' = [k \in FeeKinds |-> due'[k]]
    BY DEF AddFees, Put
  <2>2. \A k \in FeeKinds : due'[k] \in [amount : Nat, any : BOOLEAN]
    <3> SUFFICES ASSUME NEW k \in FeeKinds PROVE due'[k] \in [amount : Nat, any : BOOLEAN]
      OBVIOUS
    <3>1. due'[k].amount \in Nat
      BY <1>3
    <3>2. due'[k].any \in BOOLEAN
      BY <1>2
    <3>3. due'[k] = [amount |-> due'[k].amount, any |-> due'[k].any]
      BY <1>2
    <3> QED BY <3>1, <3>2, <3>3
  <2> QED BY <1>3, <2>1, <2>2 DEF Fees, Owed
<1>5. FeesAreDue(fees', due')
  <2>1. due'["inclusion"].any
    BY <1>2 DEF EstimatesInv, FeesAreDue, FeeKinds
  <2>2. ASSUME NEW k \in FeeKinds
        PROVE  IF due'[k].any THEN fees'[k] = due'[k].amount ELSE fees'[k] = Undefined /\ due'[k].amount = 0
    <3>1. due'[k].any = (due[k].any \/ f[k] # Undefined)
      BY <1>2
    <3> QED BY <1>3, <3>1
  <2> QED BY <2>1, <2>2 DEF FeesAreDue
<1> QED BY <1>4, <1>5 DEF EstimatesInv, EstimatesType, AddFees, FeesAreDue, Near

LEMMA MultiplyFeesStep ==
  ASSUME EstimatesInv, NEW times \in 0..3, MultiplyFees(times)
  PROVE  EstimatesInv'
<1>1. ASSUME NEW n \in Nat PROVE n * times \in Nat
  OBVIOUS
<1>2. ASSUME NEW k \in FeeKinds
      PROVE  /\ fees'[k] = MultiplyFee(fees[k], times)
             /\ due'[k] = [due[k] EXCEPT !.amount = @ * times]
             /\ due[k] \in [amount : Nat, any : BOOLEAN]
  BY DEF MultiplyFees, EstimatesInv, EstimatesType, Owed
<1>3. ASSUME NEW k \in FeeKinds
      PROVE  /\ due'[k].amount = due[k].amount * times /\ due'[k].any = due[k].any
             /\ due'[k] \in [amount : Nat, any : BOOLEAN]
  <2>1. due[k].amount * times \in Nat
    BY <1>1, <1>2
  <2> QED BY <1>2, <2>1
<1>4. ASSUME NEW k \in FeeKinds
      PROVE  /\ fees'[k] \in Nat \union {Undefined}
             /\ IF due[k].any THEN fees'[k] = due'[k].amount
                ELSE fees'[k] = Undefined /\ due'[k].amount = 0
  <2>1. /\ due[k].any => fees[k] = due[k].amount
        /\ ~due[k].any => fees[k] = Undefined /\ due[k].amount = 0
    BY DEF EstimatesInv, FeesAreDue
  <2>2. due[k].amount \in Nat /\ due[k].amount # Undefined
    BY DEF EstimatesInv, EstimatesType, Owed, Undefined
  <2>3. 0 * times = 0
    OBVIOUS
  <2>4. CASE due[k].any
    <3>1. fees[k] = due[k].amount /\ fees[k] # Undefined
      BY <2>1, <2>2, <2>4
    <3>2. fees'[k] = due[k].amount * times
      BY <1>2, <3>1 DEF MultiplyFee
    <3>3. due[k].amount * times \in Nat
      BY <1>1, <2>2
    <3> QED BY <1>3, <2>4, <3>2, <3>3
  <2>5. CASE ~due[k].any
    BY <1>2, <1>3, <2>1, <2>3, <2>5 DEF MultiplyFee
  <2> QED BY <2>4, <2>5
<1>5. fees' \in Fees /\ due' \in Owed
  <2>1. fees' = [k \in FeeKinds |-> fees'[k]] /\ due' = [k \in FeeKinds |-> due'[k]]
    BY DEF MultiplyFees
  <2> QED BY <1>3, <1>4, <2>1 DEF Fees, Owed
<1>6. FeesAreDue(fees', due')
  <2>1. due'["inclusion"].any
    BY <1>3 DEF EstimatesInv, FeesAreDue, FeeKinds
  <2>2. ASSUME NEW k \in FeeKinds
        PROVE  IF due'[k].any THEN fees'[k] = due'[k].amount ELSE fees'[k] = Undefined /\ due'[k].amount = 0
    <3>1. due'[k].any = due[k].any
      BY <1>3
    <3> QED BY <1>4, <3>1
  <2> QED BY <2>1, <2>2 DEF FeesAreDue
<1> QED BY <1>5, <1>6 DEF EstimatesInv, EstimatesType, MultiplyFees, FeesAreDue, Near

(* A division cuts less than one block off. *)
LEMMA DivisionCuts ==
  ASSUME NEW n \in Int, NEW by \in Nat \ {0}
  PROVE  /\ DividedBy(n, by) \in Int
         /\ n - DividedBy(n, by) * by <= by - 1
         /\ DividedBy(n, by) * by - n <= by - 1
<1>1. ASSUME NEW m \in Nat
      PROVE  m \div by \in Int /\ m = by * (m \div by) + (m % by) /\ m % by \in Nat /\ m % by <= by - 1
  <2>1. m % by \in Nat
    OBVIOUS
  <2>2. m % by <= by - 1
    OBVIOUS
  <2>3. m \div by \in Int
    OBVIOUS
  <2>4. m = by * (m \div by) + (m % by)
    OBVIOUS
  <2> QED BY <2>1, <2>2, <2>3, <2>4
<1>2. ASSUME NEW q \in Int PROVE q * by = by * q /\ (-q) * by = -(by * q)
  OBVIOUS
<1>3. CASE n >= 0
  <2>1. PICK q \in Int : q = n \div by
    BY <1>1, <1>3
  <2>2. n - by * q \in Nat /\ n - by * q <= by - 1
    BY <1>1, <1>3, <2>1
  <2> QED BY <1>2, <1>3, <2>1, <2>2 DEF DividedBy
<1>4. CASE ~(n >= 0)
  <2>0. -n \in Nat
    BY <1>4
  <2>1. PICK q \in Int : q = (-n) \div by
    BY <1>1, <2>0
  <2>2. (-n) - by * q \in Nat /\ (-n) - by * q <= by - 1
    BY <1>1, <2>0, <2>1
  <2> QED BY <1>2, <1>4, <2>1, <2>2 DEF DividedBy
<1> QED BY <1>3, <1>4

LEMMA AtDateStep ==
  ASSUME EstimatesInv, NEW date \in Int, AtDate(date)
  PROVE  EstimatesInv'
<1>1. BlockTime \in Nat \ {0} /\ BlockTime \in Int
  BY EstimatesAssumption
<1>2. time \in Int /\ block \in Int /\ hops.dates \in Nat /\ hops.all \in Nat
  BY DEF EstimatesInv, EstimatesType
<1>3. PICK q : q = DividedBy(date - time, BlockTime)
  OBVIOUS
<1>4. /\ q \in Int
      /\ (date - time) - q * BlockTime <= BlockTime - 1
      /\ q * BlockTime - (date - time) <= BlockTime - 1
  BY <1>1, <1>2, <1>3, DivisionCuts
<1>5. block' = block + q /\ time' = date /\ hops'.dates = hops.dates + 1 /\ hops' \in [dates : Nat, all : Nat]
  BY <1>2, <1>3 DEF AtDate
<1>6. ASSUME NEW a \in Int, NEW b \in Int, NEW c \in Int
      PROVE  (a + b) * c = a * c + b * c /\ (a + 1) * c = a * c + c /\ a * c \in Int
  OBVIOUS
<1>7. Near(date, block + q, hops.dates + 1)
  <2>1. (block + q) * BlockTime = block * BlockTime + q * BlockTime
    BY <1>1, <1>2, <1>4, <1>6
  <2>2. (hops.dates + 1) * (BlockTime - 1) = hops.dates * (BlockTime - 1) + (BlockTime - 1)
    BY <1>1, <1>2, <1>6
  <2>3. PICK b \in Int : b = block * BlockTime
    BY <1>1, <1>2
  <2>4. PICK r \in Int : r = q * BlockTime
    BY <1>1, <1>4
  <2>5. PICK h \in Int : h = hops.dates * (BlockTime - 1)
    BY <1>1, <1>2
  <2>6. time - b <= h /\ b - time <= h
    BY <2>3, <2>5 DEF EstimatesInv, Near
  <2>7. date - (b + r) <= h + (BlockTime - 1) /\ (b + r) - date <= h + (BlockTime - 1)
    BY <1>1, <1>2, <1>4, <2>4, <2>6
  <2> QED BY <2>1, <2>2, <2>3, <2>4, <2>5, <2>7 DEF Near
<1>8. EstimatesType'
  BY <1>2, <1>4, <1>5 DEF EstimatesInv, EstimatesType, AtDate
<1> QED BY <1>5, <1>7, <1>8 DEF EstimatesInv, FeesAreDue, AtDate, Near

LEMMA AtBlockStep ==
  ASSUME EstimatesInv, NEW number \in Int, AtBlock(number)
  PROVE  EstimatesInv'
<1>1. BlockTime \in Int
  BY EstimatesAssumption
<1>2. time \in Int /\ block \in Int /\ hops.dates \in Nat /\ hops.all \in Nat
  BY DEF EstimatesInv, EstimatesType
<1>3. /\ block' = number /\ time' = time + (number - block) * BlockTime /\ hops'.dates = hops.dates
      /\ hops' \in [dates : Nat, all : Nat]
  BY <1>2 DEF AtBlock, EstimatesInv, EstimatesType
<1>4. (number - block) * BlockTime = number * BlockTime - block * BlockTime
  BY <1>1, <1>2
<1>5. PICK n \in Int : n = number * BlockTime
  BY <1>1
<1>6. PICK b \in Int : b = block * BlockTime
  BY <1>1, <1>2
<1>7. time' = time + (n - b)
  BY <1>3, <1>4, <1>5, <1>6
<1>8. (time + (n - b)) - n = time - b /\ n - (time + (n - b)) = b - time
  BY <1>2
<1>9. Near(time', number, hops.dates)
  BY <1>5, <1>6, <1>7, <1>8 DEF EstimatesInv, Near
<1>10. time' \in Int
  BY <1>2, <1>7
<1> QED BY <1>3, <1>9, <1>10 DEF EstimatesInv, EstimatesType, FeesAreDue, AtBlock, Near

LEMMA EstimatesInitially == EstimatesInit => EstimatesInv
<1> SUFFICES ASSUME EstimatesInit PROVE EstimatesInv
  OBVIOUS
<1>1. EstimatesType
  BY DEF EstimatesInit, EstimatesType, NothingDue, Fees, Owed
<1>2. FeesAreDue(fees, due)
  BY DEF EstimatesInit, FeesAreDue, NothingDue, FeeKinds
<1>3. Near(0, 0, 0)
  BY EstimatesAssumption DEF Near
<1> QED BY <1>1, <1>2, <1>3 DEF EstimatesInv, EstimatesInit

(* For any fees, balances and block time, any number of estimates put      *)
(* together and of times derived from each other.                          *)
THEOREM EstimatesAreRight == AlgorithmsSpec => []EstimatesHold
<1>1. AlgorithmsInit => EstimatesInv
  BY EstimatesInitially DEF AlgorithmsInit
<1>2. EstimatesInv /\ [AlgorithmsNext]_algorithmsVars => EstimatesInv'
  <2> SUFFICES ASSUME EstimatesInv, [AlgorithmsNext]_algorithmsVars PROVE EstimatesInv'
    OBVIOUS
  <2>1. CASE OnEstimates
    <3>1. Dates \subseteq Int /\ Blocks \subseteq Int
      BY EstimatesAssumption
    <3> QED BY <2>1, <3>1, AddFeesStep, MultiplyFeesStep, AtDateStep, AtBlockStep DEF OnEstimates, EstimatesNext
  <2>2. CASE UNCHANGED estimatesVars
    BY <2>2 DEF estimatesVars, EstimatesInv, EstimatesType, FeesAreDue, Near
  <2> QED BY <2>1, <2>2 DEF AlgorithmsNext, algorithmsVars, OnNumbers, OnTerms
<1>3. EstimatesInv => EstimatesHold
  <2> SUFFICES ASSUME EstimatesInv PROVE EstimatesHold
    OBVIOUS
  <2>1. \A k \in FeeKinds : fees[k] = IF due[k].any THEN due[k].amount ELSE Undefined
    BY DEF EstimatesInv, FeesAreDue
  <2>2. TotalFee(fees) = Sum(due) /\ Sum(due) \in Nat
    BY TotalIsDue DEF EstimatesInv, EstimatesType
  <2>3. \A free \in Balances : EnoughFunds(free) <=> free - Sum(due) >= Existential
    <3>1. Balances \subseteq Nat /\ Existential \in Nat
      BY EstimatesAssumption
    <3> QED BY <2>2, <3>1 DEF EnoughFunds
  <2>4. BlockTime \in Int /\ time \in Int /\ block \in Int /\ block * BlockTime \in Int
    BY EstimatesAssumption DEF EstimatesInv, EstimatesType
  <2>5. -(time - block * BlockTime) = block * BlockTime - time
    BY <2>4
  <2> QED BY <2>1, <2>2, <2>3, <2>5 DEF EstimatesHold, EstimatesInv, Near
<1> QED BY <1>1, <1>2, <1>3, PTL DEF AlgorithmsSpec

-----------------------------------------------------------------------------
(* The terms.  A token type of one, two or three words. *)
LEMMA WordsAre ==
  /\ \A a, w : Head(<<a>>) = a /\ (Includes(<<a>>, w) <=> w = a)
  /\ \A a, b, w : Head(<<a, b>>) = a /\ Last(<<a, b>>) = b /\ <<a, b>> # <<"owner">>
                  /\ (Includes(<<a, b>>, w) <=> w = a \/ w = b)
  /\ \A a, b, c, w : Head(<<a, b, c>>) = a /\ Last(<<a, b, c>>) = c /\ <<a, b, c>> # <<"owner">>
                     /\ <<a, b, c>> # <<"singular", "kusama">>
                     /\ (Includes(<<a, b, c>>, w) <=> w = a \/ w = b \/ w = c)
<1>1. ASSUME NEW a, NEW w PROVE Head(<<a>>) = a /\ (Includes(<<a>>, w) <=> w = a)
  BY DEF Includes, Range
<1>2. ASSUME NEW a, NEW b, NEW w
      PROVE  Head(<<a, b>>) = a /\ Last(<<a, b>>) = b /\ <<a, b>> # <<"owner">>
             /\ (Includes(<<a, b>>, w) <=> w = a \/ w = b)
  <2>1. Len(<<a, b>>) = 2 /\ Len(<<"owner">>) = 1
    OBVIOUS
  <2>2. Includes(<<a, b>>, w) <=> w = a \/ w = b
    BY DEF Includes, Range
  <2> QED BY <2>1, <2>2 DEF Last
<1>3. ASSUME NEW a, NEW b, NEW c, NEW w
      PROVE  Head(<<a, b, c>>) = a /\ Last(<<a, b, c>>) = c /\ <<a, b, c>> # <<"owner">>
             /\ <<a, b, c>> # <<"singular", "kusama">>
             /\ (Includes(<<a, b, c>>, w) <=> w = a \/ w = b \/ w = c)
  <2>1. Len(<<a, b, c>>) = 3 /\ Len(<<"owner">>) = 1 /\ Len(<<"singular", "kusama">>) = 2
    OBVIOUS
  <2>2. Includes(<<a, b, c>>, w) <=> w = a \/ w = b \/ w = c
    BY DEF Includes, Range
  <2> QED BY <2>1, <2>2 DEF Last
<1> QED BY <1>1, <1>2, <1>3

(* The families of types, and the network of each. *)
OnEthereum(type) ==
  /\ Networks(type) = {"ETHEREUM"} /\ Last(type) \in Erc
  /\ type # <<"owner">> /\ type # <<"singular", "kusama">>
  /\ (IsErcNft(type) <=> Last(type) # "erc20") /\ (Includes(type, "erc20") <=> Last(type) = "erc20")

WithoutErc(type) == ~IsErcNft(type) /\ ~Includes(type, "erc20") /\ Last(type) \notin Erc

OnMultiversx(type) ==
  /\ Networks(type) = {"MULTIVERSX"} /\ WithoutErc(type) /\ StartsWith(type, "multiversx")
  /\ type # <<"owner">> /\ type # <<"singular", "kusama">>

OnAstar(type) ==
  /\ Networks(type) = {"POLKADOT"} /\ WithoutErc(type) /\ Includes(type, "psp34")
  /\ type # <<"owner">> /\ type # <<"singular", "kusama">> /\ ~StartsWith(type, "multiversx")

OnKusama(type) ==
  /\ Networks(type) = {"POLKADOT"} /\ WithoutErc(type)
  /\ type = <<"singular", "kusama">> /\ type # <<"owner">>

OfOwner(type) == Networks(type) = NetworkTypes /\ WithoutErc(type) /\ type = <<"owner">>

(* The network of a type, by its first word. *)
LEMMA NetworkIs ==
  ASSUME NEW type, NEW word, StartsWith(type, word), type # <<"owner">>, type # <<"singular", "kusama">>
  PROVE  /\ word \in {"ethereum", "goerli", "polygon"} => Networks(type) = {"ETHEREUM"}
         /\ word = "multiversx" => Networks(type) = {"MULTIVERSX"}
         /\ word = "astar" => Networks(type) = {"POLKADOT"}
  BY DEF StartsWith, Networks, IsTokenCompatibleWith, NetworkTypes

LEMMA TypesAre ==
  ASSUME NEW type \in TokenTypes
  PROVE  OnEthereum(type) \/ OnMultiversx(type) \/ OnAstar(type) \/ OnKusama(type) \/ OfOwner(type)
<1>1. ASSUME NEW chain \in {"ethereum", "goerli", "polygon"}, NEW erc \in Erc, type = <<chain, erc>>
      PROVE  OnEthereum(type)
  <2>1. Head(type) = chain /\ Last(type) = erc /\ type # <<"owner">> /\ \A w : Includes(type, w) <=> w = chain \/ w = erc
    BY <1>1, WordsAre
  <2>2. type # <<"singular", "kusama">>
    <3>1. Head(<<"singular", "kusama">>) = "singular"
      BY WordsAre
    <3> QED BY <2>1, <3>1
  <2>3. Networks(type) = {"ETHEREUM"}
    BY <2>1, <2>2, NetworkIs DEF StartsWith
  <2> QED BY <2>1, <2>2, <2>3 DEF OnEthereum, IsErcNft, Erc
<1>2. ASSUME NEW erc \in Erc, type = <<"polygon", "mumbai", erc>> PROVE OnEthereum(type)
  <2>1. Head(type) = "polygon" /\ Last(type) = erc /\ type # <<"owner">> /\ type # <<"singular", "kusama">>
        /\ \A w : Includes(type, w) <=> w = "polygon" \/ w = "mumbai" \/ w = erc
    BY <1>2, WordsAre
  <2>2. Networks(type) = {"ETHEREUM"}
    BY <2>1, NetworkIs DEF StartsWith
  <2> QED BY <2>1, <2>2 DEF OnEthereum, IsErcNft, Erc
<1>3. ASSUME type \in {<<"multiversx", "devnet", "esdt">>, <<"multiversx", "testnet", "esdt">>, <<"multiversx", "esdt">>}
      PROVE  OnMultiversx(type)
  <2>1. Head(type) = "multiversx" /\ Last(type) = "esdt" /\ type # <<"owner">>
        /\ \A w : Includes(type, w) => w \in {"multiversx", "devnet", "testnet", "esdt"}
    BY <1>3, WordsAre
  <2>2. type # <<"singular", "kusama">>
    <3>1. Head(<<"singular", "kusama">>) = "singular"
      BY WordsAre
    <3> QED BY <2>1, <3>1
  <2>3. Networks(type) = {"MULTIVERSX"}
    BY <2>1, <2>2, NetworkIs DEF StartsWith
  <2> QED BY <2>1, <2>2, <2>3 DEF OnMultiversx, WithoutErc, IsErcNft, Erc, StartsWith
<1>4. ASSUME type \in {<<"astar", "psp34">>, <<"astar", "shiden", "psp34">>, <<"astar", "shibuya", "psp34">>}
      PROVE  OnAstar(type)
  <2>1. Head(type) = "astar" /\ Last(type) = "psp34" /\ type # <<"owner">> /\ Includes(type, "psp34")
        /\ \A w : Includes(type, w) => w \in {"astar", "shiden", "shibuya", "psp34"}
    BY <1>4, WordsAre
  <2>2. type # <<"singular", "kusama">>
    <3>1. Head(<<"singular", "kusama">>) = "singular"
      BY WordsAre
    <3> QED BY <2>1, <3>1
  <2>3. Networks(type) = {"POLKADOT"}
    BY <2>1, <2>2, NetworkIs DEF StartsWith
  <2> QED BY <2>1, <2>2, <2>3 DEF OnAstar, WithoutErc, IsErcNft, Erc, StartsWith
<1>5. ASSUME type = <<"singular", "kusama">> PROVE OnKusama(type)
  <2>1. Head(type) = "singular" /\ Last(type) = "kusama" /\ type # <<"owner">>
        /\ \A w : Includes(type, w) <=> w = "singular" \/ w = "kusama"
    BY <1>5, WordsAre
  <2>2. Networks(type) = {"POLKADOT"}
    BY <1>5, <2>1 DEF StartsWith, Networks, IsTokenCompatibleWith, NetworkTypes
  <2> QED BY <1>5, <2>1, <2>2 DEF OnKusama, WithoutErc, IsErcNft, Erc
<1>6. ASSUME type = <<"owner">> PROVE OfOwner(type)
  <2>1. \A w : Includes(type, w) <=> w = "owner"
    BY <1>6, WordsAre
  <2>2. Last(type) = "owner"
    BY <1>6 DEF Last
  <2>3. Networks(type) = NetworkTypes
    BY <1>6 DEF Networks, IsTokenCompatibleWith
  <2> QED BY <1>6, <2>1, <2>2, <2>3 DEF OfOwner, WithoutErc, IsErcNft, Erc
<1> QED BY <1>1, <1>2, <1>3, <1>4, <1>5, <1>6 DEF TokenTypes

-----------------------------------------------------------------------------
(* The IDs of tokens. *)
LEMMA IdsAre ==
  ASSUME NEW id \in TokenIds
  PROVE  /\ id.is \in {"text", "null", "scalar", "object"}
         /\ id.is # "object" => id.contract = "none" /\ id.id = "none"
         /\ id.is = "object" => id.format = "other"
         /\ id.id = "object" => id.is = "object" /\ id.fields \in Psp34Ids
<1>1. NoJson = [is |-> "text", format |-> "other", contract |-> "none", id |-> "none", fields |-> <<>>]
  BY DEF NoJson
<1>2. CASE id \in {[NoJson EXCEPT !.format = f] : f \in Formats}
  BY <1>1, <1>2
<1>3. CASE id \in {[NoJson EXCEPT !.is = "null"]}
  BY <1>1, <1>3
<1>4. CASE id \in {[NoJson EXCEPT !.is = "scalar", !.format = f] : f \in {"kusama id", "other"}}
  BY <1>1, <1>4
<1>5. CASE id \in {JsonObject(c, i, <<>>) : c \in Fields, i \in Fields}
  <2>1. PICK c \in Fields, i \in Fields : id = JsonObject(c, i, <<>>)
    BY <1>5
  <2>2. id.is = "object" /\ id.format = "other" /\ id.id = i /\ i # "object"
    BY <2>1 DEF Fields, JsonObject
  <2> QED BY <2>2
<1>6. CASE id \in {JsonObject(c, "object", f) : c \in Fields, f \in Psp34Ids}
  <2>1. PICK c \in Fields, f \in Psp34Ids : id = JsonObject(c, "object", f)
    BY <1>6
  <2>2. id.is = "object" /\ id.format = "other" /\ id.id = "object" /\ id.fields = f
    BY <2>1 DEF JsonObject
  <2> QED BY <2>1, <2>2
<1> QED BY <1>2, <1>3, <1>4, <1>5, <1>6 DEF TokenIds

(* A PSP34 ID has one field, that says a number or bytes. *)
LEMMA Psp34Is ==
  ASSUME NEW fields \in Psp34Ids
  PROVE  (/\ Cardinality(DOMAIN fields) = 1
          /\ \/ \E key \in IntegerKeys \intersect DOMAIN fields : IsAnyNumber(fields[key])
             \/ "Bytes" \in DOMAIN fields /\ fields["Bytes"] = "hex")
         <=> \E key \in IntegerKeys \union {"Bytes"}, value \in Psp34Values :
               /\ fields = [k \in {key} |-> value]
               /\ value = "hex" \/ (key # "Bytes" /\ value # "word")
<1> DEFINE Says(key, value) ==
             key \in IntegerKeys \union {"Bytes"} /\ (value = "hex" \/ (key # "Bytes" /\ value # "word"))
<1>1. PICK keys : /\ keys \in {{}, {"U8"}, {"U128"}, {"Bytes"}, {"other"}, {"U8", "Bytes"}}
                  /\ fields \in [keys -> Psp34Values] /\ DOMAIN fields = keys
  BY DEF Psp34Ids
<1>2. IsFiniteSet(keys)
  <2>1. IsFiniteSet({}) /\ \A x : IsFiniteSet({x})
    BY FS_EmptySet, FS_Singleton
  <2>2. IsFiniteSet({"U8"} \union {"Bytes"})
    BY <2>1, FS_AddElement
  <2>3. {"U8"} \union {"Bytes"} = {"U8", "Bytes"}
    OBVIOUS
  <2> QED BY <1>1, <2>1, <2>2, <2>3
<1>3. CASE \E key : keys = {key}
  <2>1. PICK key : keys = {key}
    BY <1>3
  <2>2. PICK value \in Psp34Values : value = fields[key] /\ fields = [k \in {key} |-> value]
    BY <1>1, <2>1
  <2>3. Cardinality(DOMAIN fields) = 1
    BY <1>1, <2>1, FS_Singleton
  <2>4. (\/ \E k \in IntegerKeys \intersect DOMAIN fields : IsAnyNumber(fields[k])
         \/ "Bytes" \in DOMAIN fields /\ fields["Bytes"] = "hex") <=> Says(key, value)
    BY <1>1, <2>1, <2>2 DEF IntegerKeys, IsAnyNumber, Psp34Values
  <2>5. (\E k \in IntegerKeys \union {"Bytes"}, v \in Psp34Values :
           /\ fields = [x \in {k} |-> v]
           /\ v = "hex" \/ (k # "Bytes" /\ v # "word")) <=> Says(key, value)
    <3>1. ASSUME NEW k, NEW v, fields = [x \in {k} |-> v] PROVE k = key /\ v = value
      <4>1. {k} = {key}
        BY <1>1, <2>1, <3>1
      <4>2. k = key
        BY <4>1
      <4>3. fields[k] = v
        BY <3>1
      <4> QED BY <2>2, <4>2, <4>3
    <3> QED BY <2>2, <3>1
  <2> QED BY <2>3, <2>4, <2>5
<1>4. CASE ~ \E key : keys = {key}
  <2>1. ~(Cardinality(DOMAIN fields) = 1)
    BY <1>1, <1>2, <1>4, FS_Singleton
  <2>2. ~ \E k, v : fields = [x \in {k} |-> v]
    <3> SUFFICES ASSUME NEW k, NEW v, fields = [x \in {k} |-> v] PROVE FALSE
      OBVIOUS
    <3>1. keys = {k}
      BY <1>1
    <3> QED BY <1>4, <3>1
  <2> QED BY <2>1, <2>2
<1> QED BY <1>3, <1>4

(* A token is checked for what its type designates. *)
LEMMA TokensAreSound ==
  ASSUME NEW type \in TokenTypes, NEW id \in TokenIds
  PROVE  /\ type # <<"owner">> => Cardinality(Networks(type)) = 1
         /\ ValidateToken(type, id) = "valid" <=> Designates(type, id)
         /\ ValidateToken(type, id) = "throws" <=> Last(type) \in Erc /\ id.is = "null"
         /\ ValidateToken(type, id) # "unsupported"
<1> DEFINE contract == id.is = "object" /\ id.contract = "text"
<1>1. /\ id.is \in {"text", "null", "scalar", "object"}
      /\ id.is # "object" => id.contract = "none" /\ id.id = "none"
      /\ id.id = "object" => id.is = "object" /\ id.fields \in Psp34Ids
  BY IdsAre
<1>2. \A x : Cardinality({x}) = 1
  BY FS_Singleton
<1>3. {"ETHEREUM"} # NetworkTypes /\ {"MULTIVERSX"} # NetworkTypes /\ {"POLKADOT"} # NetworkTypes
      /\ {"ETHEREUM"} # {"MULTIVERSX"} /\ {"POLKADOT"} # {"MULTIVERSX"} /\ {"POLKADOT"} # {"ETHEREUM"}
  BY DEF NetworkTypes
<1>v. \A valid \in BOOLEAN : (Verdict(valid) = "valid" <=> valid) /\ Verdict(valid) \in {"valid", "invalid"}
  BY DEF Verdict
<1>4. CASE OnEthereum(type)
  <2>1. Designates(type, id) <=> contract /\ (Last(type) # "erc20" => id.id = "text")
    BY <1>3, <1>4 DEF OnEthereum, Designates
  <2>2. /\ ValidateErcToken(id) = "valid" <=> contract
        /\ ValidateErcToken(id) = "throws" <=> id.is = "null"
        /\ ValidateErcToken(id) # "unsupported"
    BY <1>1 DEF ValidateErcToken, Verdict
  <2>3. ValidateToken(type, id) =
          IF Last(type) # "erc20" THEN IF ValidateErcToken(id) = "valid" THEN Verdict(id.id = "text") ELSE ValidateErcToken(id)
          ELSE ValidateErcToken(id)
    BY <1>4 DEF ValidateToken, OnEthereum
  <2>4. Verdict(id.id = "text") \in {"valid", "invalid"} /\ (Verdict(id.id = "text") = "valid" <=> id.id = "text")
    BY <1>v
  <2> QED BY <1>2, <1>4, <2>1, <2>2, <2>3, <2>4 DEF OnEthereum
<1>5. CASE OnMultiversx(type)
  <2>1. Designates(type, id) <=> id.format = "esdt id"
    BY <1>3, <1>5 DEF OnMultiversx, Designates
  <2>2. ValidateToken(type, id) = Verdict(id.format = "esdt id")
    BY <1>5 DEF ValidateToken, OnMultiversx, WithoutErc
  <2> QED BY <1>2, <1>5, <1>v, <2>1, <2>2 DEF OnMultiversx, WithoutErc
<1>6. CASE OnAstar(type)
  <2> DEFINE read == \E key \in IntegerKeys \union {"Bytes"}, value \in Psp34Values :
                       /\ id.fields = [k \in {key} |-> value]
                       /\ value = "hex" \/ (key # "Bytes" /\ value # "word")
  <2>1. Designates(type, id) <=> contract /\ id.id = "object" /\ read
    BY <1>3, <1>6 DEF OnAstar, Designates
  <2>2. ValidateToken(type, id) = ValidatePsp34TokenId(id)
    BY <1>6 DEF ValidateToken, OnAstar, WithoutErc
  <2>3. ValidatePsp34TokenId(id) = Verdict(contract /\ id.id = "object" /\ read)
    <3>1. id.id = "object" =>
            ((/\ Cardinality(DOMAIN id.fields) = 1
              /\ \/ \E key \in IntegerKeys \intersect DOMAIN id.fields : IsAnyNumber(id.fields[key])
                 \/ "Bytes" \in DOMAIN id.fields /\ id.fields["Bytes"] = "hex") <=> read)
      BY <1>1, Psp34Is
    <3> HIDE DEF read
    <3> QED BY <3>1 DEF ValidatePsp34TokenId, Verdict
  <2> HIDE DEF read
  <2> QED BY <1>2, <1>6, <1>v, <2>1, <2>2, <2>3 DEF OnAstar, WithoutErc
<1>7. CASE OnKusama(type)
  <2>1. Designates(type, id) <=> id.format = "kusama id"
    BY <1>3, <1>7 DEF OnKusama, Designates
  <2>2. ValidateToken(type, id) = Verdict(id.format = "kusama id")
    BY <1>7 DEF ValidateToken, OnKusama, WithoutErc
  <2> QED BY <1>2, <1>7, <1>v, <2>1, <2>2 DEF OnKusama, WithoutErc
<1>8. CASE OfOwner(type)
  <2> DEFINE address == id.format \in {"ethereum address", "bech32 address", "account"}
  <2>1. Designates(type, id) <=> address
    BY <1>3, <1>8 DEF OfOwner, Designates
  <2>2. ValidateToken(type, id) = Verdict(address)
    BY <1>8 DEF ValidateToken, OfOwner, WithoutErc
  <2>3. address \in BOOLEAN
    OBVIOUS
  <2> QED BY <1>8, <1>v, <2>1, <2>2, <2>3 DEF OfOwner, WithoutErc
<1> QED BY <1>4, <1>5, <1>6, <1>7, <1>8, TypesAre

-----------------------------------------------------------------------------
(* The classifications: what is asked of the rights, apart from their code *)
(* being known, is that they have one meaning.                             *)
LEMMA OneOfIs == \A codes, rights : IsFiniteSet(codes) =>
                   (OneOf(codes, rights) <=> \E code : codes \intersect rights = {code})
<1> SUFFICES ASSUME NEW codes, NEW rights, IsFiniteSet(codes)
             PROVE  OneOf(codes, rights) <=> \E code : codes \intersect rights = {code}
  OBVIOUS
<1>1. IsFiniteSet(codes \intersect rights)
  BY FS_Subset
<1> QED BY <1>1, FS_Singleton DEF OneOf

LEMMA CodesAreFinite == IsFiniteSet(Usages) /\ IsFiniteSet({"REG", "WW"}) /\ IsFiniteSet({"TIME", "NOTIME"})
<1>1. \A a : IsFiniteSet({a})
  BY FS_Singleton
<1>2. ASSUME NEW S, NEW a, IsFiniteSet(S) PROVE IsFiniteSet(S \union {a})
  BY <1>2, FS_AddElement
<1>3. \A a, b : IsFiniteSet({a, b})
  <2> SUFFICES ASSUME NEW a, NEW b PROVE IsFiniteSet({a, b})
    OBVIOUS
  <2>1. {a, b} = {a} \union {b}
    OBVIOUS
  <2>2. IsFiniteSet({a} \union {b})
    BY <1>1, <1>2
  <2> QED BY <2>1, <2>2
<1>4. IsFiniteSet(Usages)
  <2>1. Usages = ({"PER-PRIV", "PER-PUB"} \union {"COM-NOMOD"}) \union {"COM-MOD"}
    BY DEF Usages
  <2>2. IsFiniteSet({"PER-PRIV", "PER-PUB"} \union {"COM-NOMOD"})
    BY <1>2, <1>3
  <2> QED BY <1>2, <2>1, <2>2
<1> QED BY <1>3, <1>4

(* The rights answer each question at most once. *)
Answered(rights, usage, exclusive, where, when) ==
  /\ usage \in Usages /\ exclusive \in {{}, {"EX"}, {"NOEX"}}
  /\ where \in {{}, {"WW"}, {"REG"}} /\ when \in {{}, {"NOTIME"}, {"TIME"}}
  /\ rights = {usage} \union exclusive \union where \union when

LEMMA AnswersAre ==
  ASSUME NEW rights \in SUBSET RightCodes
  PROVE  (/\ \E code : Usages \intersect rights = {code}
          /\ MutuallyExclusive("EX", "NOEX", rights)
          /\ MutuallyExclusive("REG", "WW", rights)
          /\ MutuallyExclusive("TIME", "NOTIME", rights))
         <=> \E usage, exclusive, where, when : Answered(rights, usage, exclusive, where, when)
<1>1. ASSUME NEW code, Usages \intersect rights = {code}, MutuallyExclusive("EX", "NOEX", rights),
             MutuallyExclusive("REG", "WW", rights), MutuallyExclusive("TIME", "NOTIME", rights)
      PROVE  \E usage, exclusive, where, when : Answered(rights, usage, exclusive, where, when)
  <2> DEFINE exclusive == rights \intersect {"EX", "NOEX"}
             where == rights \intersect {"WW", "REG"}
             when == rights \intersect {"NOTIME", "TIME"}
  <2>1. exclusive \in {{}, {"EX"}, {"NOEX"}}
    BY <1>1 DEF MutuallyExclusive
  <2>2. where \in {{}, {"WW"}, {"REG"}}
    BY <1>1 DEF MutuallyExclusive
  <2>3. when \in {{}, {"NOTIME"}, {"TIME"}}
    BY <1>1 DEF MutuallyExclusive
  <2>4. rights = (Usages \intersect rights) \union exclusive \union where \union when
    BY DEF RightCodes
  <2>5. code \in Usages
    BY <1>1
  <2>6. Answered(rights, code, exclusive, where, when)
    <3> HIDE DEF exclusive, where, when
    <3> QED BY <1>1, <2>1, <2>2, <2>3, <2>4, <2>5 DEF Answered
  <2> QED BY <2>6
<1>2. ASSUME NEW usage, NEW exclusive, NEW where, NEW when, Answered(rights, usage, exclusive, where, when)
      PROVE  /\ Usages \intersect rights = {usage}
             /\ MutuallyExclusive("EX", "NOEX", rights)
             /\ MutuallyExclusive("REG", "WW", rights)
             /\ MutuallyExclusive("TIME", "NOTIME", rights)
  <2>1. /\ usage \notin {"EX", "NOEX", "WW", "REG", "NOTIME", "TIME"}
        /\ exclusive \subseteq {"EX", "NOEX"} /\ where \subseteq {"WW", "REG"} /\ when \subseteq {"NOTIME", "TIME"}
        /\ ~({"EX", "NOEX"} \subseteq exclusive) /\ ~({"WW", "REG"} \subseteq where) /\ ~({"NOTIME", "TIME"} \subseteq when)
    BY <1>2 DEF Answered, Usages
  <2>2. usage \in Usages /\ rights = {usage} \union exclusive \union where \union when
    BY <1>2 DEF Answered
  <2>3. Usages \intersect rights = {usage}
    BY <2>1, <2>2 DEF Usages
  <2> QED BY <2>1, <2>2, <2>3 DEF MutuallyExclusive
<1> QED BY <1>1, <1>2

(* What is joined is empty when all that is in the list is seen as known,  *)
(* or nothing of it is read.                                               *)
LEMMA NothingJoinedIs ==
  ASSUME NEW codes, \A i \in DOMAIN codes : codes[i] \in {"country", "", "unknown", "inherited"}
  PROVE  NothingJoined(codes) <=> Unseen(codes)
<1>1. ASSUME NothingJoined(codes) PROVE Unseen(codes)
  <2> SUFFICES ASSUME NEW i \in DOMAIN codes
               PROVE  /\ codes[i] # "unknown"
                      /\ codes[i] = "" => \A j \in DOMAIN codes \ {i} : codes[j] # ""
    BY DEF Unseen
  <2>1. \A k \in DOMAIN codes : codes[k] \in {"", "unknown"} => UnknownAt(codes) = {k} /\ codes[k] = ""
    BY <1>1 DEF NothingJoined, UnknownAt
  <2>2. \A k \in DOMAIN codes : codes[k] = "" => k \in UnknownAt(codes)
    BY DEF UnknownAt
  <2> QED BY <2>1, <2>2
<1>2. ASSUME Unseen(codes) PROVE NothingJoined(codes)
  <2> SUFFICES ASSUME NEW i \in UnknownAt(codes) PROVE UnknownAt(codes) = {i} /\ codes[i] = ""
    BY DEF NothingJoined
  <2>1. i \in DOMAIN codes /\ codes[i] = ""
    BY <1>2 DEF UnknownAt, Unseen
  <2>2. \A k \in UnknownAt(codes) : k = i
    BY <1>2, <2>1 DEF UnknownAt, Unseen
  <2> QED BY <2>1, <2>2
<1> QED BY <1>1, <1>2

LEMMA ListsAreRead ==
  ASSUME NEW c \in Classifications
  PROVE  /\ c.rights \in SUBSET RightCodes
         /\ c.expiration \in {"none", "date", "invalid"}
         /\ AllCodesValid(c.others) <=> Unseen(c.others)
         /\ AllCountryCodesValid(c.limit) <=> Unseen(c.limit)
<1>1. /\ c.rights \in SUBSET RightCodes
      /\ c.others \in Lists({"", "unknown", "inherited"})
      /\ c.limit \in Lists({"country", "", "unknown", "inherited"})
      /\ c.expiration \in {"none", "date", "invalid"}
  BY DEF Classifications
<1>2. ASSUME NEW known, NEW codes \in Lists(known) PROVE \A i \in DOMAIN codes : codes[i] \in known
  <2>1. PICK n \in 0..2 : codes \in [1..n -> known]
    BY <1>2 DEF Lists
  <2> QED BY <2>1
<1>3. \A i \in DOMAIN c.others : c.others[i] \in {"country", "", "unknown", "inherited"}
  BY <1>1, <1>2
<1>4. \A i \in DOMAIN c.limit : c.limit[i] \in {"country", "", "unknown", "inherited"}
  BY <1>1, <1>2
<1> QED BY <1>1, <1>3, <1>4, NothingJoinedIs DEF AllCodesValid, AllCountryCodesValid

LEMMA ClassificationsAreSound ==
  ASSUME NEW c \in Classifications
  PROVE  CheckValidity(c) = "valid" <=> Meaningful(c)
<1> DEFINE rights == c.rights
           HasMeaning == \E usage, exclusive, where, when : Answered(rights, usage, exclusive, where, when)
           Announced == /\ "REG" \in rights <=> c.limit # <<>>
                        /\ c.expiration = IF "TIME" \in rights THEN "date" ELSE "none"
           Complete == rights \intersect {"COM-MOD", "COM-NOMOD"} # {} =>
                         rights \intersect {"WW", "REG"} # {} /\ rights \intersect {"TIME", "NOTIME"} # {}
           AllUnseen == Unseen(c.others) /\ Unseen(c.limit)
           Exclusive == MutuallyExclusive("EX", "NOEX", rights) /\ MutuallyExclusive("REG", "WW", rights)
                          /\ MutuallyExclusive("TIME", "NOTIME", rights)
           Conditions == /\ CodePresentForCondition("TIME", rights, c.expiration # "none")
                         /\ CodePresentForCondition("REG", rights, c.limit # <<>>)
                         /\ c.expiration # "invalid"
           Commercial == {"COM-NOMOD", "COM-MOD"} \intersect rights # {} =>
                           OneOf({"REG", "WW"}, rights) /\ OneOf({"TIME", "NOTIME"}, rights)
<1>1. Meaningful(c) <=> HasMeaning /\ Announced /\ Complete /\ AllUnseen
  <2>1. rights \in Answers <=> HasMeaning
    <3>1. ASSUME rights \in Answers PROVE HasMeaning
      <4>1. \E usage \in Usages, exclusive \in {{}, {"EX"}, {"NOEX"}}, where \in {{}, {"WW"}, {"REG"}},
               when \in {{}, {"NOTIME"}, {"TIME"}} : rights = {usage} \union exclusive \union where \union when
        BY <3>1 DEF Answers
      <4> QED BY <4>1 DEF Answered
    <3>2. ASSUME HasMeaning PROVE rights \in Answers
      BY <3>2 DEF Answered, Answers
    <3> QED BY <3>1, <3>2
  <2> HIDE DEF HasMeaning
  <2> QED BY <2>1 DEF Meaningful
<1>2. CheckValidity(c) = "valid" <=> AllUnseen /\ OneOf(Usages, rights) /\ Exclusive /\ Conditions /\ Commercial
  <2>1. CheckValidity(c) = Verdict(/\ AllCodesValid(c.others)
                                   /\ AllCountryCodesValid(c.limit)
                                   /\ OneOf(Usages, rights) /\ Exclusive /\ Conditions /\ Commercial)
    BY DEF CheckValidity, Verdict
  <2> HIDE DEF Exclusive, Conditions, Commercial
  <2> QED BY <2>1, ListsAreRead DEF Verdict
<1>3. OneOf(Usages, rights) <=> \E code : Usages \intersect rights = {code}
  BY OneOfIs, CodesAreFinite
<1>4. HasMeaning <=> (\E code : Usages \intersect rights = {code}) /\ Exclusive
  BY AnswersAre, ListsAreRead
<1>5. ASSUME Exclusive PROVE Commercial <=> Complete
  <2>1. OneOf({"REG", "WW"}, rights) <=> \E code : {"REG", "WW"} \intersect rights = {code}
    BY OneOfIs, CodesAreFinite
  <2>2. OneOf({"TIME", "NOTIME"}, rights) <=> \E code : {"TIME", "NOTIME"} \intersect rights = {code}
    BY OneOfIs, CodesAreFinite
  <2>3. (\E code : {"REG", "WW"} \intersect rights = {code}) <=> rights \intersect {"WW", "REG"} # {}
    BY <1>5 DEF MutuallyExclusive
  <2>4. (\E code : {"TIME", "NOTIME"} \intersect rights = {code}) <=> rights \intersect {"TIME", "NOTIME"} # {}
    BY <1>5 DEF MutuallyExclusive
  <2>5. {"COM-NOMOD", "COM-MOD"} \intersect rights = rights \intersect {"COM-MOD", "COM-NOMOD"}
    OBVIOUS
  <2> QED BY <2>1, <2>2, <2>3, <2>4, <2>5
<1>6. Conditions <=> Announced
  BY ListsAreRead DEF CodePresentForCondition
<1> HIDE DEF HasMeaning, Announced, Complete, AllUnseen, Exclusive, Conditions, Commercial
<1> QED BY <1>1, <1>2, <1>3, <1>4, <1>5, <1>6

(* What was checked last was a token or a classification, if anything.     *)
TermsHold ==
  \/ subject = NoSubject
  \/ \E type \in TokenTypes, id \in TokenIds :
       subject = [kind |-> "token", type |-> type, id |-> id] /\ verdict = ValidateToken(type, id)
  \/ \E c \in Classifications :
       subject = [kind |-> "classification", terms |-> c] /\ verdict = CheckValidity(c)

(* No token passes that designates nothing, no classification that has no  *)
(* meaning, and nothing else is refused (Token.ts and                      *)
(* LogionClassification.ts).                                               *)
THEOREM TermsAreSound == AlgorithmsSpec => []OnlySoundTermsPass
<1>1. AlgorithmsInit => TermsHold
  BY DEF AlgorithmsInit, TermsInit, TermsHold
<1>2. TermsHold /\ [AlgorithmsNext]_algorithmsVars => TermsHold'
  <2> SUFFICES ASSUME TermsHold, [AlgorithmsNext]_algorithmsVars PROVE TermsHold'
    OBVIOUS
  <2>1. CASE TermsNext
    BY <2>1 DEF TermsNext, CheckToken, CheckClassification, TermsHold
  <2>2. CASE UNCHANGED termsVars
    BY <2>2 DEF termsVars, TermsHold
  <2> QED BY <2>1, <2>2 DEF AlgorithmsNext, algorithmsVars, OnNumbers, OnEstimates, OnTerms
<1>3. TermsHold => OnlySoundTermsPass
  <2> SUFFICES ASSUME TermsHold PROVE OnlySoundTermsPass
    OBVIOUS
  <2>1. CASE subject = NoSubject
    <3>1. subject.kind = "none"
      BY <2>1 DEF NoSubject
    <3> QED BY <3>1 DEF OnlySoundTermsPass
  <2>2. ASSUME NEW type \in TokenTypes, NEW id \in TokenIds,
               subject = [kind |-> "token", type |-> type, id |-> id], verdict = ValidateToken(type, id)
        PROVE  OnlySoundTermsPass
    <3>1. subject.kind = "token" /\ subject.type = type /\ subject.id = id
      BY <2>2
    <3> QED BY <2>2, <3>1, TokensAreSound DEF OnlySoundTermsPass
  <2>3. ASSUME NEW c \in Classifications, subject = [kind |-> "classification", terms |-> c], verdict = CheckValidity(c)
        PROVE  OnlySoundTermsPass
    <3>1. subject.kind = "classification" /\ subject.terms = c
      BY <2>3
    <3> QED BY <2>3, <3>1, ClassificationsAreSound DEF OnlySoundTermsPass
  <2> QED BY <2>1, <2>2, <2>3 DEF TermsHold
<1> QED BY <1>1, <1>2, <1>3, PTL DEF AlgorithmsSpec

-----------------------------------------------------------------------------
(* The amounts.  Their functions are recursive: that there is one which    *)
(* the definition describes is shown for each of them first.               *)

(* A recursive function: on Base it is given, elsewhere it follows from    *)
(* its value at the argument before.                                       *)
Follows(f, x, Base, given, before, step) ==
  f[x] = IF x \in Base THEN given[x] ELSE step[<<f[before[x]], x>>]

(* Its equation has a solution, as long as a size decreases. *)
LEMMA Recursion ==
  ASSUME NEW D, NEW T, NEW Base, NEW given \in [D -> T],
         NEW before \in [D -> D], NEW size \in [D -> Nat], NEW step \in [T \X D -> T],
         \A x \in D \ Base : size[before[x]] < size[x]
  PROVE  \E f \in [D -> T] : \A x \in D : Follows(f, x, Base, given, before, step)
<1> DEFINE Solves(f, k) == \A x \in D : size[x] <= k => Follows(f, x, Base, given, before, step)
           Unsolved == {k \in Nat : ~ \E f \in [D -> T] : Solves(f, k)}
<1>1. Unsolved = {}
  <2> SUFFICES ASSUME Unsolved # {} PROVE FALSE
    OBVIOUS
  <2>1. PICK k \in Unsolved : \A j \in Unsolved : k <= j
    <3>1. Unsolved \subseteq Nat
      OBVIOUS
    <3> HIDE DEF Unsolved
    <3> QED BY <3>1, LeastNat
  <2>2. PICK f \in [D -> T] : \A x \in D : size[x] < k => Follows(f, x, Base, given, before, step)
    <3>1. CASE k = 0
      BY <3>1
    <3>2. CASE k # 0
      <4>1. k - 1 \in Nat /\ ~(k <= k - 1)
        BY <2>1, <3>2
      <4>2. \E f \in [D -> T] : Solves(f, k - 1)
        BY <2>1, <4>1
      <4>3. \A x \in D : size[x] < k => size[x] <= k - 1
        BY <2>1
      <4> QED BY <4>2, <4>3
    <3> QED BY <3>1, <3>2
  <2> DEFINE After(x) == IF x \in Base THEN given[x] ELSE step[<<f[before[x]], x>>]
             g == [x \in D |-> IF size[x] = k THEN After(x) ELSE f[x]]
  <2>3. \A x \in D : After(x) \in T
    OBVIOUS
  <2>4. g \in [D -> T]
    BY <2>3
  <2>5. ASSUME NEW x \in D, size[x] <= k PROVE Follows(g, x, Base, given, before, step)
    <3>1. x \notin Base => g[before[x]] = f[before[x]]
      BY <2>1, <2>5
    <3>2. g[x] = After(x)
      BY <2>1, <2>2, <2>5 DEF Follows
    <3> HIDE DEF g
    <3> QED BY <3>1, <3>2 DEF Follows
  <2> HIDE DEF g
  <2> QED BY <2>1, <2>4, <2>5
<1>2. PICK F : \A k \in Nat : F[k] \in [D -> T] /\ Solves(F[k], k)
  <2>1. \A k \in Nat : \E f \in [D -> T] : Solves(f, k)
    BY <1>1
  <2> DEFINE G == [k \in Nat |-> CHOOSE f \in [D -> T] : Solves(f, k)]
  <2> HIDE DEF Solves
  <2>2. \A k \in Nat : G[k] \in [D -> T] /\ Solves(G[k], k)
    BY <2>1
  <2> QED BY <2>2
(* Two of these agree where both solve it. *)
<1>3. ASSUME NEW j \in Nat, NEW k \in Nat, NEW x \in D, size[x] <= j, size[x] <= k
      PROVE  F[j][x] = F[k][x]
  <2> DEFINE Differ == {n \in Nat : \E y \in D : size[y] = n /\ n <= j /\ n <= k /\ F[j][y] # F[k][y]}
  <2> SUFFICES ASSUME Differ # {} PROVE FALSE
    BY <1>3
  <2>1. PICK n \in Differ : \A m \in Differ : n <= m
    <3>1. Differ \subseteq Nat
      OBVIOUS
    <3> HIDE DEF Differ
    <3> QED BY <3>1, LeastNat
  <2>2. PICK y \in D : size[y] = n /\ n <= j /\ n <= k /\ F[j][y] # F[k][y]
    BY <2>1
  <2>3. /\ Follows(F[j], y, Base, given, before, step)
        /\ Follows(F[k], y, Base, given, before, step)
    BY <1>2, <2>2
  <2>4. y \notin Base
    BY <2>2, <2>3 DEF Follows
  <2>5. before[y] \in D /\ size[before[y]] \in Nat /\ size[before[y]] < n
    BY <2>2, <2>4
  <2>6. size[before[y]] \notin Differ
    BY <2>1, <2>5
  <2>7. F[j][before[y]] = F[k][before[y]]
    BY <2>2, <2>5, <2>6
  <2> QED BY <2>2, <2>3, <2>7 DEF Follows
<1> DEFINE f == [x \in D |-> F[size[x]][x]]
<1>4. f \in [D -> T]
  BY <1>2
<1>5. ASSUME NEW x \in D PROVE Follows(f, x, Base, given, before, step)
  <2>1. Follows(F[size[x]], x, Base, given, before, step)
    BY <1>2
  <2>2. x \notin Base => f[before[x]] = F[size[x]][before[x]]
    <3> SUFFICES ASSUME x \notin Base PROVE F[size[before[x]]][before[x]] = F[size[x]][before[x]]
      OBVIOUS
    <3>1. before[x] \in D /\ size[before[x]] \in Nat /\ size[x] \in Nat /\ size[before[x]] <= size[x]
      OBVIOUS
    <3> QED BY <1>3, <3>1
  <2>3. f[x] = F[size[x]][x]
    OBVIOUS
  <2> HIDE DEF f
  <2> QED BY <2>1, <2>2, <2>3 DEF Follows
<1> HIDE DEF f
<1> QED BY <1>4, <1>5

(* The powers of ten. *)
LEMMA TenToIs ==
  /\ TenTo \in [Nat -> Nat]
  /\ TenTo[0] = 1
  /\ \A n \in Nat : TenTo[n + 1] = 10 * TenTo[n]
<1> DEFINE given == [n \in Nat |-> 1]
           before == [n \in Nat |-> IF n = 0 THEN 0 ELSE n - 1]
           size == [n \in Nat |-> n]
           step == [y \in Nat \X Nat |-> 10 * y[1]]
           After(f, n) == IF n = 0 THEN 1 ELSE 10 * f[n - 1]
<1>1. PICK f \in [Nat -> Nat] : \A n \in Nat : Follows(f, n, {0}, given, before, step)
  <2>1. given \in [Nat -> Nat] /\ before \in [Nat -> Nat] /\ size \in [Nat -> Nat] /\ step \in [Nat \X Nat -> Nat]
    OBVIOUS
  <2>2. \A x \in Nat \ {0} : size[before[x]] < size[x]
    OBVIOUS
  <2> HIDE DEF given, before, size, step
  <2> QED BY <2>1, <2>2, Recursion
<1>2. ASSUME NEW n \in Nat PROVE f[n] = After(f, n)
  <2>1. n # 0 => before[n] \in Nat /\ f[before[n]] \in Nat /\ before[n] = n - 1
    OBVIOUS
  <2> QED BY <1>1, <2>1 DEF Follows
<1>3. f = [n \in Nat |-> After(f, n)]
  BY <1>2
<1>4. TenTo = [n \in Nat |-> After(TenTo, n)]
  BY <1>3 DEF TenTo
<1>5. TenTo = f
  <2> DEFINE Differ == {n \in Nat : TenTo[n] # f[n]}
  <2> SUFFICES ASSUME Differ # {} PROVE FALSE
    BY <1>4
  <2>1. PICK n \in Differ : \A m \in Differ : n <= m
    <3>1. Differ \subseteq Nat
      OBVIOUS
    <3> HIDE DEF Differ
    <3> QED BY <3>1, LeastNat
  <2>2. n # 0 => n - 1 \in Nat /\ n - 1 \notin Differ
    BY <2>1
  <2>3. f[n] = After(f, n) /\ TenTo[n] = After(TenTo, n)
    BY <1>2, <1>4
  <2> QED BY <2>1, <2>2, <2>3
<1>6. \A n \in Nat : f[n + 1] = 10 * f[n]
  BY <1>2
<1> QED BY <1>2, <1>5, <1>6
(* Induction up to n, over a set in place of a formula. *)
LEMMA UpTo ==
  ASSUME NEW n \in Nat, NEW S, 0 \in S, \A i \in 0..(n - 1) : i \in S => i + 1 \in S
  PROVE  0..n \subseteq S
<1> DEFINE Left == {i \in 0..n : i \notin S}
<1> SUFFICES ASSUME Left # {} PROVE FALSE
  OBVIOUS
<1>1. PICK i \in Left : \A j \in Left : i <= j
  <2>1. Left \subseteq Nat
    OBVIOUS
  <2> HIDE DEF Left
  <2> QED BY <2>1, LeastNat
<1>2. i # 0 /\ i - 1 \in 0..(n - 1) /\ i - 1 \notin Left
  BY <1>1
<1> QED BY <1>1, <1>2

(* Partial sums, each a times the one before, and one term more. *)
Sums(f, n, a, terms) ==
  f = [i \in 0..n |-> IF i = 0 THEN 0 ELSE a * f[i - 1] + terms[i]]

Steps(f, n, a, terms) ==
  f[0] = 0 /\ \A i \in 1..n : f[i] = a * f[i - 1] + terms[i]

LEMMA SumsExist ==
  ASSUME NEW n \in Nat, NEW a \in Nat, NEW terms \in [1..n -> Nat]
  PROVE  \E f : Sums(f, n, a, terms)
<1> DEFINE D == 0..n
           given == [i \in D |-> 0]
           before == [i \in D |-> IF i = 0 THEN 0 ELSE i - 1]
           size == [i \in D |-> i]
           step == [y \in Nat \X D |-> IF y[2] = 0 THEN 0 ELSE a * y[1] + terms[y[2]]]
           After(f, i) == IF i = 0 THEN 0 ELSE a * f[i - 1] + terms[i]
<1>1. PICK f \in [D -> Nat] : \A i \in D : Follows(f, i, {0}, given, before, step)
  <2>1. given \in [D -> Nat] /\ before \in [D -> D] /\ size \in [D -> Nat]
    OBVIOUS
  <2>2. step \in [Nat \X D -> Nat]
    <3> SUFFICES ASSUME NEW m \in Nat, NEW i \in D, i # 0 PROVE a * m + terms[i] \in Nat
      OBVIOUS
    <3>1. terms[i] \in Nat /\ a * m \in Nat
      OBVIOUS
    <3> QED BY <3>1
  <2>3. \A x \in D \ {0} : size[before[x]] < size[x]
    OBVIOUS
  <2> HIDE DEF D, given, before, size, step
  <2> QED BY <2>1, <2>2, <2>3, Recursion
<1>2. ASSUME NEW i \in D PROVE f[i] = After(f, i)
  <2>1. i # 0 => before[i] \in D /\ f[before[i]] \in Nat /\ before[i] = i - 1
    OBVIOUS
  <2>2. i # 0 => step[<<f[before[i]], i>>] = a * f[i - 1] + terms[i]
    BY <2>1
  <2> QED BY <1>1, <2>2 DEF Follows
<1>3. f = [i \in 0..n |-> After(f, i)]
  BY <1>2
<1> QED BY <1>3 DEF Sums

LEMMA SumsAre ==
  ASSUME NEW n \in Nat, NEW a \in Nat, NEW terms \in [1..n -> Nat], NEW f, Sums(f, n, a, terms)
  PROVE  f \in [0..n -> Nat] /\ Steps(f, n, a, terms)
<1>1. f[0] = 0 /\ \A i \in 1..n : f[i] = a * f[i - 1] + terms[i]
  BY DEF Sums
<1>2. 0..n \subseteq {i \in 0..n : f[i] \in Nat}
  <2> DEFINE S == {i \in 0..n : f[i] \in Nat}
  <2>1. 0 \in S
    BY <1>1
  <2>2. ASSUME NEW i \in 0..(n - 1), i \in S PROVE i + 1 \in S
    <3>1. i + 1 \in 1..n /\ (i + 1) - 1 = i /\ terms[i + 1] \in Nat /\ a * f[i] \in Nat
      BY <2>2
    <3>2. f[i + 1] = a * f[i] + terms[i + 1]
      BY <1>1, <3>1
    <3> QED BY <3>1, <3>2
  <2>3. 0..n \subseteq S
    <3> HIDE DEF S
    <3> QED BY <2>1, <2>2, UpTo
  <2> QED BY <2>3
<1>3. f = [i \in 0..n |-> f[i]]
  BY DEF Sums
<1> QED BY <1>1, <1>2, <1>3 DEF Steps

(* The value of a sequence of digits, from left to right. *)
Reads(f, digits) == Sums(f, Len(digits), 10, digits)

LEMMA ValueIs ==
  ASSUME NEW digits \in Seq(Digit)
  PROVE  \E f : Reads(f, digits) /\ Value(digits) = f[Len(digits)]
<1> DEFINE n == Len(digits)
           f == CHOOSE f : Sums(f, n, 10, digits)
<1>1. n \in Nat /\ digits \in [1..n -> Nat]
  BY DEF Digit
<1>2. \E g : Sums(g, n, 10, digits)
  BY <1>1, SumsExist
<1>3. Sums(f, n, 10, digits)
  BY <1>2
<1>4. Value(digits) = f[n]
  BY DEF Value, Sums
<1> QED BY <1>3, <1>4 DEF Reads

LEMMA ReadsAre ==
  ASSUME NEW digits \in Seq(Digit), NEW f, Reads(f, digits)
  PROVE  /\ f \in [0..Len(digits) -> Nat]
         /\ f[0] = 0
         /\ \A i \in 1..Len(digits) : f[i] = 10 * f[i - 1] + digits[i]
<1>1. Len(digits) \in Nat /\ digits \in [1..Len(digits) -> Nat]
  BY DEF Digit
<1>2. Sums(f, Len(digits), 10, digits) /\ 10 \in Nat
  BY DEF Reads
<1>3. f \in [0..Len(digits) -> Nat] /\ Steps(f, Len(digits), 10, digits)
  BY <1>1, <1>2, SumsAre
<1> QED BY <1>3 DEF Steps

LEMMA ValueType == \A digits \in Seq(Digit) : Value(digits) \in Nat
  <1> SUFFICES ASSUME NEW digits \in Seq(Digit) PROVE Value(digits) \in Nat
    OBVIOUS
  <1>1. PICK f : Reads(f, digits) /\ Value(digits) = f[Len(digits)]
    BY ValueIs
  <1>2. f \in [0..Len(digits) -> Nat] /\ Len(digits) \in 0..Len(digits)
    BY <1>1, ReadsAre
  <1> QED BY <1>1, <1>2
(* Products, for the provers. *)
LEMMA Products ==
  /\ \A a, b \in Nat : a * b \in Nat
  /\ \A a, b, c \in Nat : a * (b * c) = (a * b) * c
  /\ \A a, b, c \in Nat : (a + b) * c = a * c + b * c
  /\ \A a, b \in Nat : a * b = b * a
  OBVIOUS

LEMMA TenToAdds == \A m, n \in Nat : TenTo[m + n] = TenTo[m] * TenTo[n] /\ TenTo[n] > 0
<1> SUFFICES ASSUME NEW m \in Nat, NEW n \in Nat PROVE TenTo[m + n] = TenTo[m] * TenTo[n] /\ TenTo[n] > 0
  OBVIOUS
<1> DEFINE S == {i \in 0..n : TenTo[m + i] = TenTo[m] * TenTo[i] /\ TenTo[i] > 0}
<1>1. 0 \in S
  <2>1. TenTo[m] \in Nat /\ m + 0 = m /\ TenTo[0] = 1
    BY TenToIs
  <2>2. TenTo[m] * 1 = TenTo[m]
    BY <2>1
  <2> QED BY <2>1, <2>2
<1>2. ASSUME NEW i \in 0..(n - 1), i \in S PROVE i + 1 \in S
  <2>1. /\ TenTo[m] \in Nat /\ TenTo[i] \in Nat
        /\ TenTo[i + 1] = 10 * TenTo[i]
        /\ TenTo[m + i + 1] = 10 * TenTo[m + i]
    BY TenToIs
  <2>2. TenTo[m + i] = TenTo[m] * TenTo[i] /\ TenTo[i] > 0
    BY <1>2
  <2>3. \A a, b \in Nat : 10 * (a * b) = a * (10 * b)
    BY Products
  <2>4. TenTo[m + (i + 1)] = TenTo[m + i + 1] /\ i + 1 \in 0..n
    OBVIOUS
  <2> QED BY <2>1, <2>2, <2>3, <2>4
<1>3. 0..n \subseteq S
  <2> HIDE DEF S
  <2> QED BY <1>1, <1>2, UpTo
<1> QED BY <1>3

LEMMA ValueConcat ==
  ASSUME NEW a \in Seq(Digit), NEW b \in Seq(Digit)
  PROVE  Value(a \o b) = Value(a) * TenTo[Len(b)] + Value(b)
<1>1. /\ a \o b \in Seq(Digit) /\ Len(a \o b) = Len(a) + Len(b)
      /\ Len(a) \in Nat /\ Len(b) \in Nat
      /\ \A i \in 1..Len(a) : (a \o b)[i] = a[i]
      /\ \A i \in 1..Len(b) : (a \o b)[Len(a) + i] = b[i]
      /\ \A i \in 1..Len(b) : b[i] \in Nat
  BY DEF Digit
<1>2. PICK f : Reads(f, a \o b) /\ Value(a \o b) = f[Len(a) + Len(b)]
  BY <1>1, ValueIs
<1>3. PICK g : Reads(g, a) /\ Value(a) = g[Len(a)]
  BY ValueIs
<1>4. PICK h : Reads(h, b) /\ Value(b) = h[Len(b)]
  BY ValueIs
<1>f. /\ f \in [0..(Len(a) + Len(b)) -> Nat] /\ f[0] = 0
      /\ \A i \in 1..(Len(a) + Len(b)) : f[i] = 10 * f[i - 1] + (a \o b)[i]
  <2>1. PICK c \in Seq(Digit) : c = a \o b
    BY <1>1
  <2>2. Reads(f, c)
    BY <1>2, <2>1
  <2>3. /\ f \in [0..Len(c) -> Nat] /\ f[0] = 0
        /\ \A i \in 1..Len(c) : f[i] = 10 * f[i - 1] + c[i]
    BY <2>2, ReadsAre
  <2>4. Len(c) = Len(a) + Len(b)
    BY <1>1, <2>1
  <2> QED BY <2>1, <2>3, <2>4
<1>g. /\ g \in [0..Len(a) -> Nat] /\ g[0] = 0
      /\ \A i \in 1..Len(a) : g[i] = 10 * g[i - 1] + a[i]
  BY <1>1, <1>3, ReadsAre
<1>h. /\ h \in [0..Len(b) -> Nat] /\ h[0] = 0
      /\ \A i \in 1..Len(b) : h[i] = 10 * h[i - 1] + b[i]
  BY <1>1, <1>4, ReadsAre
<1>5. f[Len(a)] = g[Len(a)]
  <2> DEFINE S == {i \in 0..Len(a) : f[i] = g[i]}
  <2>1. 0 \in S
    BY <1>1, <1>f, <1>g
  <2>2. ASSUME NEW i \in 0..(Len(a) - 1), i \in S PROVE i + 1 \in S
    <3>1. i + 1 \in 1..Len(a) /\ i + 1 \in 1..(Len(a) + Len(b)) /\ (i + 1) - 1 = i
      BY <1>1
    <3>2. f[i + 1] = 10 * f[i] + a[i + 1] /\ g[i + 1] = 10 * g[i] + a[i + 1]
      BY <1>1, <1>f, <1>g, <3>1
    <3> QED BY <1>1, <2>2, <3>2
  <2>3. 0..Len(a) \subseteq S
    <3> HIDE DEF S
    <3> QED BY <1>1, <2>1, <2>2, UpTo
  <2> QED BY <1>1, <2>3
<1> DEFINE v == Value(a)
<1>v. v \in Nat
  BY ValueType
<1> DEFINE S == {i \in 0..Len(b) : f[Len(a) + i] = v * TenTo[i] + h[i]}
<1>6. 0 \in S
  <2>1. f[Len(a) + 0] = v /\ TenTo[0] = 1 /\ h[0] = 0
    BY <1>1, <1>3, <1>5, <1>h, TenToIs
  <2>2. v * 1 + 0 = v
    BY <1>v
  <2> HIDE DEF v
  <2> QED BY <1>1, <2>1, <2>2
<1>7. ASSUME NEW i \in 0..(Len(b) - 1), i \in S PROVE i + 1 \in S
  <2>1. i \in Nat /\ i + 1 \in 1..Len(b) /\ Len(a) + i + 1 \in 1..(Len(a) + Len(b)) /\ (i + 1) - 1 = i
        /\ (Len(a) + i + 1) - 1 = Len(a) + i /\ Len(a) + (i + 1) = Len(a) + i + 1
    BY <1>1
  <2>2. f[Len(a) + i + 1] = 10 * f[Len(a) + i] + b[i + 1] /\ h[i + 1] = 10 * h[i] + b[i + 1]
    BY <1>1, <1>f, <1>h, <2>1
  <2>3. f[Len(a) + i] = v * TenTo[i] + h[i]
    BY <1>7
  <2>4. h[i] \in Nat /\ TenTo[i] \in Nat /\ TenTo[i + 1] = 10 * TenTo[i] /\ b[i + 1] \in Nat
    <3>1. h[i] \in Nat
      <4>1. i \in 0..Len(b)
        BY <1>1
      <4> QED BY <1>h, <4>1
    <3>2. TenTo[i] \in Nat /\ TenTo[i + 1] = 10 * TenTo[i]
      BY <2>1, TenToIs
    <3>3. b[i + 1] \in Nat
      BY <1>1, <2>1
    <3> QED BY <3>1, <3>2, <3>3
  <2>5. \A x, t, y, d \in Nat : 10 * (x * t + y) + d = x * (10 * t) + (10 * y + d)
    OBVIOUS
  <2>6. f[Len(a) + (i + 1)] = v * TenTo[i + 1] + h[i + 1]
    <3> HIDE DEF v
    <3>1. 10 * (v * TenTo[i] + h[i]) + b[i + 1] = v * (10 * TenTo[i]) + (10 * h[i] + b[i + 1])
      <4>1. PICK x \in Nat, t \in Nat, y \in Nat, d \in Nat : x = v /\ t = TenTo[i] /\ y = h[i] /\ d = b[i + 1]
        BY <1>v, <2>4
      <4>2. 10 * (x * t + y) + d = x * (10 * t) + (10 * y + d)
        BY <2>5
      <4> QED BY <4>1, <4>2
    <3>2. f[Len(a) + (i + 1)] = 10 * (v * TenTo[i] + h[i]) + b[i + 1]
      BY <2>1, <2>2, <2>3
    <3> QED BY <2>2, <2>4, <3>1, <3>2
  <2> HIDE DEF v
  <2> QED BY <2>1, <2>6
<1>8. 0..Len(b) \subseteq S
  <2> HIDE DEF S
  <2> QED BY <1>1, <1>6, <1>7, UpTo
<1> HIDE DEF v
<1> QED BY <1>1, <1>2, <1>4, <1>8 DEF v

LEMMA ValueOfZeros == \A n \in Nat : Zeros(n) \in Seq(Digit) /\ Len(Zeros(n)) = n /\ Value(Zeros(n)) = 0
<1> SUFFICES ASSUME NEW n \in Nat PROVE Zeros(n) \in Seq(Digit) /\ Len(Zeros(n)) = n /\ Value(Zeros(n)) = 0
  OBVIOUS
<1>1. Zeros(n) \in Seq(Digit) /\ Len(Zeros(n)) = n /\ \A i \in 1..n : Zeros(n)[i] = 0
  BY DEF Zeros, Digit
<1>2. PICK f : Reads(f, Zeros(n)) /\ Value(Zeros(n)) = f[n]
  BY <1>1, ValueIs
<1>3. f[0] = 0 /\ \A i \in 1..n : f[i] = 10 * f[i - 1] + Zeros(n)[i]
  BY <1>1, <1>2, ReadsAre
<1> DEFINE S == {i \in 0..n : f[i] = 0}
<1>4. 0 \in S
  BY <1>3
<1>5. ASSUME NEW i \in 0..(n - 1), i \in S PROVE i + 1 \in S
  <2>1. i + 1 \in 1..n /\ (i + 1) - 1 = i /\ f[i] = 0
    BY <1>5
  <2> QED BY <1>1, <1>3, <2>1
<1>6. 0..n \subseteq S
  <2> HIDE DEF S
  <2> QED BY <1>4, <1>5, UpTo
<1> QED BY <1>1, <1>2, <1>6

LEMMA ValueBound == \A a \in Seq(Digit) : Value(a) < TenTo[Len(a)]
<1> SUFFICES ASSUME NEW a \in Seq(Digit) PROVE Value(a) < TenTo[Len(a)]
  OBVIOUS
<1>1. Len(a) \in Nat /\ \A i \in 1..Len(a) : a[i] \in Nat /\ a[i] < 10
  BY DEF Digit
<1>2. PICK f : Reads(f, a) /\ Value(a) = f[Len(a)]
  BY ValueIs
<1>3. /\ f \in [0..Len(a) -> Nat] /\ f[0] = 0
      /\ \A i \in 1..Len(a) : f[i] = 10 * f[i - 1] + a[i]
  BY <1>1, <1>2, ReadsAre
<1> DEFINE S == {i \in 0..Len(a) : f[i] < TenTo[i]}
<1>4. 0 \in S
  BY <1>1, <1>3, TenToIs
<1>5. ASSUME NEW i \in 0..(Len(a) - 1), i \in S PROVE i + 1 \in S
  <2>1. i \in Nat /\ i \in 0..Len(a) /\ i + 1 \in 1..Len(a) /\ (i + 1) - 1 = i /\ f[i] < TenTo[i]
    BY <1>1, <1>5
  <2>2. f[i + 1] = 10 * f[i] + a[i + 1] /\ TenTo[i + 1] = 10 * TenTo[i] /\ TenTo[i] \in Nat /\ f[i] \in Nat
    BY <1>3, <2>1, TenToIs
  <2>3. a[i + 1] \in Nat /\ a[i + 1] < 10
    BY <1>1, <2>1
  <2> QED BY <1>1, <2>1, <2>2, <2>3
<1>6. 0..Len(a) \subseteq S
  <2> HIDE DEF S
  <2> QED BY <1>1, <1>4, <1>5, UpTo
<1> QED BY <1>1, <1>2, <1>6

(* The last digit is what ten leaves. *)
LEMMA LastDigit ==
  ASSUME NEW a \in Seq(Digit), NEW v \in Nat, a # <<>>, Value(a) = 10 * v
  PROVE  a[Len(a)] = 0
<1>1. Len(a) \in Nat \ {0} /\ a[Len(a)] \in Nat /\ a[Len(a)] < 10
  BY DEF Digit
<1>2. PICK f : Reads(f, a) /\ Value(a) = f[Len(a)]
  BY ValueIs
<1>3. f \in [0..Len(a) -> Nat] /\ f[Len(a)] = 10 * f[Len(a) - 1] + a[Len(a)]
  BY <1>1, <1>2, ReadsAre
<1>4. f[Len(a) - 1] \in Nat
  BY <1>1, <1>3
<1> QED BY <1>1, <1>2, <1>3, <1>4

-----------------------------------------------------------------------------
LEMMA Concats ==
  \A a, b \in Seq(Digit) : a \o b \in Seq(Digit) /\ Len(a \o b) = Len(a) + Len(b)
<1> SUFFICES ASSUME NEW a \in Seq(Digit), NEW b \in Seq(Digit)
             PROVE  a \o b \in Seq(Digit) /\ Len(a \o b) = Len(a) + Len(b)
  OBVIOUS
<1> QED BY ConcatProperties

LEMMA Associative == \A a, b, c \in Seq(Digit) : (a \o b) \o c = a \o (b \o c)
<1> SUFFICES ASSUME NEW a \in Seq(Digit), NEW b \in Seq(Digit), NEW c \in Seq(Digit)
             PROVE  (a \o b) \o c = a \o (b \o c)
  OBVIOUS
<1> QED BY ConcatAssociative

LEMMA Padded ==
  ASSUME NEW d \in Seq(Digit), NEW n \in Nat
  PROVE  /\ Zeros(n) \o d \in Seq(Digit) /\ Len(Zeros(n) \o d) = n + Len(d)
         /\ \A i \in 1..(n + Len(d)) : (Zeros(n) \o d)[i] = IF i <= n THEN 0 ELSE d[i - n]
         /\ d \o Zeros(n) \in Seq(Digit) /\ Len(d \o Zeros(n)) = Len(d) + n
         /\ \A i \in 1..(Len(d) + n) : (d \o Zeros(n))[i] = IF i <= Len(d) THEN d[i] ELSE 0
<1>1. Zeros(n) \in Seq(Digit) /\ Len(Zeros(n)) = n /\ Len(d) \in Nat
  BY ValueOfZeros
<1>2. \A i \in 1..n : Zeros(n)[i] = 0
  BY DEF Zeros
<1>3. \A i \in 1..(Len(d) + n) : ~(i <= Len(d)) => i - Len(d) \in 1..n
  BY <1>1
<1>4. \A i \in 1..(n + Len(d)) : i <= n => i \in 1..n
  OBVIOUS
<1>z. PICK z \in Seq(Digit) : z = Zeros(n) /\ Len(z) = n
  BY <1>1
<1>5. /\ z \o d \in Seq(Digit) /\ Len(z \o d) = n + Len(d)
      /\ \A i \in 1..(n + Len(d)) : (z \o d)[i] = IF i <= n THEN z[i] ELSE d[i - n]
  <2>1. /\ z \o d \in Seq(Digit) /\ Len(z \o d) = Len(z) + Len(d)
        /\ \A i \in 1..(Len(z) + Len(d)) : (z \o d)[i] = IF i <= Len(z) THEN z[i] ELSE d[i - Len(z)]
    BY ConcatProperties
  <2> QED BY <1>z, <2>1
<1>6. /\ d \o z \in Seq(Digit) /\ Len(d \o z) = Len(d) + n
      /\ \A i \in 1..(Len(d) + n) : (d \o z)[i] = IF i <= Len(d) THEN d[i] ELSE z[i - Len(d)]
  <2>1. /\ d \o z \in Seq(Digit) /\ Len(d \o z) = Len(d) + Len(z)
        /\ \A i \in 1..(Len(d) + Len(z)) : (d \o z)[i] = IF i <= Len(d) THEN d[i] ELSE z[i - Len(d)]
    BY ConcatProperties
  <2> QED BY <1>z, <2>1
<1> QED BY <1>z, <1>2, <1>3, <1>4, <1>5, <1>6

(* What the normalization strips: zeros, and as many as there are. *)
LEMMA Stripped ==
  ASSUME NEW d \in Seq(Digit)
  PROVE  LET z == ZeroStripLeft(d) IN
         /\ z \in Seq(Digit)
         /\ z = <<>> \/ z[1] # 0
         /\ \E n \in Nat : d = Zeros(n) \o z
<1> DEFINE kept == {i \in 1..Len(d) : d[i] # 0}
           z == ZeroStripLeft(d)
<1>0. Len(d) \in Nat /\ \A i \in 1..Len(d) : d[i] \in Digit
  OBVIOUS
<1>1. CASE kept = {}
  <2>1. z = <<>>
    BY <1>1 DEF ZeroStripLeft
  <2>2. Zeros(Len(d)) \o z = Zeros(Len(d))
    BY <1>0, <2>1, ValueOfZeros
  <2>3. \A i \in 1..Len(d) : d[i] = 0
    BY <1>1
  <2>4. d = Zeros(Len(d))
    BY <1>0, <2>3 DEF Zeros
  <2> QED BY <1>0, <2>1, <2>2, <2>4
<1>2. CASE kept # {}
  <2> DEFINE k == CHOOSE i \in kept : \A j \in kept : i <= j
  <2>1. k \in kept /\ \A j \in kept : k <= j
    <3>1. kept \subseteq Nat
      OBVIOUS
    <3>2. \E i \in kept : \A j \in kept : i <= j
      <4> HIDE DEF kept
      <4> QED BY <1>2, <3>1, LeastNat
    <3> HIDE DEF kept
    <3> QED BY <3>2
  <2>2. z = SubSeq(d, k, Len(d))
    BY <1>2 DEF ZeroStripLeft
  <2> HIDE DEF k, z
  <2>3. k \in 1..Len(d) /\ d[k] # 0 /\ \A i \in 1..(k - 1) : d[i] = 0
    BY <2>1
  <2>4. z \in Seq(Digit) /\ Len(z) = Len(d) - k + 1 /\ \A i \in 1..Len(z) : z[i] = d[k + i - 1]
    BY <1>0, <2>2, <2>3
  <2>5. z[1] # 0
    BY <2>3, <2>4
  <2>6. d = Zeros(k - 1) \o z
    <3>1. k - 1 \in Nat
      BY <1>0, <2>3
    <3>2. Zeros(k - 1) \in Seq(Digit) /\ Len(Zeros(k - 1)) = k - 1 /\ \A i \in 1..(k - 1) : Zeros(k - 1)[i] = 0
      BY <3>1, ValueOfZeros DEF Zeros
    <3> DEFINE c == Zeros(k - 1) \o z
    <3>3. /\ c \in Seq(Digit) /\ Len(c) = Len(d)
          /\ \A i \in 1..Len(d) : c[i] = IF i <= k - 1 THEN Zeros(k - 1)[i] ELSE z[i - (k - 1)]
      BY <1>0, <2>3, <2>4, <3>1, <3>2
    <3>4. \A i \in 1..Len(d) : c[i] = d[i]
      <4> SUFFICES ASSUME NEW i \in 1..Len(d) PROVE c[i] = d[i]
        OBVIOUS
      <4>1. CASE i <= k - 1
        BY <1>0, <2>3, <3>2, <3>3, <4>1
      <4>2. CASE ~(i <= k - 1)
        <5>1. i - (k - 1) \in 1..Len(z) /\ k + (i - (k - 1)) - 1 = i
          BY <1>0, <2>3, <2>4, <4>2
        <5> QED BY <2>4, <3>3, <4>2, <5>1
      <4> QED BY <4>1, <4>2
    <3> HIDE DEF c
    <3>5. c = d
      BY <3>3, <3>4, SeqEqual
    <3> QED BY <3>5 DEF c
  <2>7. \E n \in Nat : d = Zeros(n) \o z
    <3>1. k - 1 \in Nat
      BY <1>0, <2>3
    <3> QED BY <2>6, <3>1
  <2> QED BY <2>4, <2>5, <2>7 DEF z
<1> QED BY <1>1, <1>2

LEMMA StrippedRight ==
  ASSUME NEW d \in Seq(Digit)
  PROVE  LET r == ZeroStripRight(d) IN
         /\ r \in Seq(Digit)
         /\ r = <<>> \/ r[Len(r)] # 0
         /\ \E n \in Nat : d = r \o Zeros(n)
<1> DEFINE b == Reverse(d)
           z == ZeroStripLeft(b)
           r == ZeroStripRight(d)
<1>1. b \in Seq(Digit) /\ Len(b) = Len(d) /\ Len(d) \in Nat /\ \A i \in 1..Len(d) : b[i] = d[Len(d) - i + 1]
  BY DEF Reverse
<1>2. z \in Seq(Digit) /\ (z = <<>> \/ z[1] # 0)
  BY <1>1, Stripped
<1>3. PICK n \in Nat : b = Zeros(n) \o z
  BY <1>1, Stripped
<1>4. r = Reverse(z)
  BY DEF ZeroStripRight
<1> HIDE DEF b, z, r
<1>5. r \in Seq(Digit) /\ Len(r) = Len(z) /\ Len(z) \in Nat /\ \A i \in 1..Len(z) : r[i] = z[Len(z) - i + 1]
  BY <1>2, <1>4 DEF Reverse
<1>6. r = <<>> \/ r[Len(r)] # 0
  BY <1>2, <1>5
<1>8. Len(d) = n + Len(z)
      /\ \A i \in 1..Len(d) : b[i] = IF i <= n THEN 0 ELSE z[i - n]
  <2>1. Len(b) = n + Len(z)
    BY <1>2, <1>3, Padded
  <2>2. \A i \in 1..(n + Len(z)) : b[i] = IF i <= n THEN 0 ELSE z[i - n]
    BY <1>2, <1>3, Padded
  <2> QED BY <1>1, <2>1, <2>2
<1>9. d = r \o Zeros(n)
  <2> DEFINE c == r \o Zeros(n)
  <2>1. /\ c \in Seq(Digit) /\ Len(c) = Len(d)
        /\ \A i \in 1..Len(d) : c[i] = IF i <= Len(r) THEN r[i] ELSE 0
    <3>1. Len(r) + n = Len(d)
      BY <1>5, <1>8
    <3>2. /\ c \in Seq(Digit) /\ Len(c) = Len(r) + n
          /\ \A i \in 1..(Len(r) + n) : c[i] = IF i <= Len(r) THEN r[i] ELSE 0
      BY <1>5, Padded
    <3> QED BY <3>1, <3>2
  <2>2. ASSUME NEW i \in 1..Len(d) PROVE c[i] = d[i]
    <3> DEFINE j == Len(d) - i + 1
    <3>1. j \in 1..Len(d) /\ Len(d) - j + 1 = i
      BY <1>1
    <3>2. b[j] = d[i]
      BY <1>1, <3>1
    <3>3. CASE i <= Len(r)
      <4>1. ~(j <= n) /\ j - n = Len(z) - i + 1 /\ i \in 1..Len(z)
        BY <1>5, <1>8, <3>3
      <4>2. b[j] = z[Len(z) - i + 1]
        BY <1>8, <3>1, <4>1
      <4> QED BY <1>5, <2>1, <3>2, <3>3, <4>1, <4>2
    <3>4. CASE ~(i <= Len(r))
      <4>1. j <= n
        BY <1>5, <1>8, <3>4
      <4> QED BY <1>8, <2>1, <3>1, <3>2, <3>4, <4>1
    <3> QED BY <3>3, <3>4
  <2> HIDE DEF c
  <2>3. c = d
    BY <2>1, <2>2, SeqEqual
  <2> QED BY <2>3 DEF c
<1> QED BY <1>5, <1>6, <1>9 DEF r

(* Where there is none, nothing is. *)
LEMMA NothingToStrip ==
  ASSUME NEW d \in Seq(Digit)
  PROVE  /\ d = <<>> \/ d[1] # 0 => ZeroStripLeft(d) = d
         /\ d = <<>> \/ d[Len(d)] # 0 => ZeroStripRight(d) = d
<1>1. ASSUME d = <<>> \/ d[1] # 0 PROVE ZeroStripLeft(d) = d
  <2> DEFINE z == ZeroStripLeft(d)
  <2>1. z \in Seq(Digit)
    BY Stripped
  <2>2. PICK n \in Nat : d = Zeros(n) \o z
    BY Stripped
  <2> HIDE DEF z
  <2>3. Len(d) = n + Len(z) /\ \A i \in 1..(n + Len(z)) : d[i] = IF i <= n THEN 0 ELSE z[i - n]
    BY <2>1, <2>2, Padded
  <2>4. Len(z) \in Nat
    BY <2>1
  <2>5. n = 0
    BY <1>1, <2>3, <2>4
  <2>6. Len(z) = Len(d) /\ \A i \in 1..Len(d) : d[i] = z[i]
    BY <2>3, <2>4, <2>5
  <2>7. z = d
    BY <2>1, <2>6, SeqEqual
  <2> QED BY <2>7 DEF z
<1>2. ASSUME d = <<>> \/ d[Len(d)] # 0 PROVE ZeroStripRight(d) = d
  <2> DEFINE z == ZeroStripRight(d)
  <2>1. z \in Seq(Digit)
    BY StrippedRight
  <2>2. PICK n \in Nat : d = z \o Zeros(n)
    BY StrippedRight
  <2> HIDE DEF z
  <2>3. Len(d) = Len(z) + n /\ \A i \in 1..(Len(z) + n) : d[i] = IF i <= Len(z) THEN z[i] ELSE 0
    BY <2>1, <2>2, Padded
  <2>4. Len(z) \in Nat
    BY <2>1
  <2>5. n = 0
    BY <1>2, <2>3, <2>4
  <2>6. Len(z) = Len(d) /\ \A i \in 1..Len(d) : d[i] = z[i]
    BY <2>3, <2>4, <2>5
  <2>7. z = d
    BY <2>1, <2>6, SeqEqual
  <2> QED BY <2>7 DEF z
<1> QED BY <1>1, <1>2

-----------------------------------------------------------------------------
(* What digits are worth: their value times a power of ten, which may be   *)
(* negative.                                                               *)
Scaled(v, k, w) == IF k >= 0 THEN w = v * TenTo[k] ELSE v = w * TenTo[-k]

(* Zeros added, or taken away, on the right. *)
LEMMA ScaledBy ==
  ASSUME NEW v \in Nat, NEW w \in Nat, NEW k \in Int, NEW n \in Nat
  PROVE  Scaled(v, k, w) <=> Scaled(v * TenTo[n], k - n, w)
<1>t. \A m \in Nat : TenTo[m] \in Nat /\ TenTo[m] > 0
  BY TenToIs, TenToAdds
<1>a. \A a, b, c \in Nat : a * b = b * a /\ a * (b * c) = (a * b) * c
  OBVIOUS
<1>c. \A a, b, c \in Nat : c > 0 => (a * c = b * c <=> a = b)
  OBVIOUS
<1>1. CASE k - n >= 0
  <2>1. k \in Nat /\ k - n \in Nat /\ n + (k - n) = k
    BY <1>1
  <2>2. TenTo[k] = TenTo[n] * TenTo[k - n]
    BY <2>1, TenToAdds
  <2>3. v * TenTo[k] = (v * TenTo[n]) * TenTo[k - n]
    BY <1>t, <1>a, <2>1, <2>2
  <2> QED BY <1>1, <2>1, <2>3 DEF Scaled
<1>2. CASE k >= 0 /\ k - n < 0
  <2>1. k \in Nat /\ n - k \in Nat /\ k + (n - k) = n /\ -(k - n) = n - k
    BY <1>2
  <2>2. TenTo[n] = TenTo[k] * TenTo[n - k]
    BY <2>1, TenToAdds
  <2>3. v * TenTo[n] = (v * TenTo[k]) * TenTo[n - k]
    BY <1>t, <1>a, <2>1, <2>2
  <2>4. v * TenTo[k] \in Nat
    BY <1>t, <2>1
  <2>5. (v * TenTo[k]) * TenTo[n - k] = w * TenTo[n - k] <=> v * TenTo[k] = w
    BY <1>t, <1>c, <2>1, <2>4
  <2> QED BY <1>2, <2>1, <2>3, <2>5 DEF Scaled
<1>3. CASE k < 0
  <2>1. -k \in Nat /\ (-k) + n = -(k - n) /\ -(k - n) \in Nat
    BY <1>3
  <2>2. TenTo[-(k - n)] = TenTo[-k] * TenTo[n]
    BY <2>1, TenToAdds
  <2>3. w * TenTo[-(k - n)] = (w * TenTo[-k]) * TenTo[n]
    BY <1>t, <1>a, <2>1, <2>2
  <2>4. w * TenTo[-k] \in Nat
    BY <1>t, <2>1
  <2>5. v * TenTo[n] = (w * TenTo[-k]) * TenTo[n] <=> v = w * TenTo[-k]
    BY <1>t, <1>c, <2>1, <2>4
  <2>6. ~(k >= 0) /\ ~(k - n >= 0)
    BY <1>3
  <2> QED BY <2>3, <2>5, <2>6 DEF Scaled
<1> QED BY <1>1, <1>2, <1>3

LEMMA ScaledZero ==
  ASSUME NEW w \in Nat, NEW k \in Int, Scaled(0, k, w)
  PROVE  w = 0
<1>1. CASE k >= 0
  <2>1. k \in Nat /\ TenTo[k] \in Nat /\ w = 0 * TenTo[k]
    BY <1>1, TenToIs DEF Scaled
  <2> QED BY <2>1
<1>2. CASE ~(k >= 0)
  <2>1. -k \in Nat /\ TenTo[-k] \in Nat /\ TenTo[-k] > 0 /\ 0 = w * TenTo[-k]
    BY <1>2, TenToIs, TenToAdds DEF Scaled
  <2>2. \A a, b \in Nat : b > 0 /\ 0 = a * b => a = 0
    OBVIOUS
  <2> QED BY <2>1, <2>2
<1> QED BY <1>1, <1>2

LEMMA SmallestIs ==
  /\ Smallest \in Int
  /\ \A unit \in Range(SortedUnits) : unit \in Int /\ unit >= Smallest
<1>1. Len(SortedUnits) \in Nat \ {0} /\ SortedUnits \in [1..Len(SortedUnits) -> Int]
  BY NumbersAssumption
<1>2. \A i \in 1..Len(SortedUnits) : SortedUnits[i] >= Smallest
  <2>1. \A i \in 1..Len(SortedUnits) : i # 1 => SortedUnits[1] < SortedUnits[i]
    BY <1>1, NumbersAssumption
  <2> QED BY <1>1, <2>1 DEF Smallest
<1> QED BY <1>1, <1>2 DEF Smallest, Range

(* What a number is worth at an exponent, in the smallest unit. *)
Magnitude(num, exponent, abs) ==
  Scaled(Value(num.int \o num.dec), exponent - Smallest - Len(num.dec), abs)

Measures(num, exponent, w) ==
  \E abs \in Nat : Magnitude(num, exponent, abs) /\ w = IF num.neg THEN -abs ELSE abs

Normal(num) ==
  /\ num \in Numerals
  /\ num.int = <<>> \/ num.int[1] # 0
  /\ num.dec = <<>> \/ num.dec[Len(num.dec)] # 0
  /\ num.neg => num.int # <<>> \/ num.dec # <<>>

LEMMA ValueOfNone == Value(<<>>) = 0 /\ <<>> \in Seq(Digit) /\ Len(<<>>) = 0
<1>1. <<>> \in Seq(Digit) /\ Len(<<>>) = 0
  OBVIOUS
<1>2. PICK f : Reads(f, <<>>) /\ Value(<<>>) = f[0]
  BY <1>1, ValueIs
<1> QED BY <1>1, <1>2, ReadsAre

(* Normalizing changes neither what a number is worth, nor a normal one. *)
LEMMA NormalizeKeeps ==
  ASSUME NEW num \in Numerals, NEW exponent \in Int, NEW abs \in Nat, Magnitude(num, exponent, abs)
  PROVE  LET normal == Normalize(num) IN
         /\ Normal(normal)
         /\ Magnitude(normal, exponent, abs)
         /\ normal.neg => num.neg
         /\ num.neg /\ ~normal.neg => abs = 0
<1> DEFINE int == num.int
           dec == num.dec
           i == ZeroStripLeft(int)
           d == ZeroStripRight(dec)
           normal == Normalize(num)
<1>0. int \in Seq(Digit) /\ dec \in Seq(Digit) /\ num.neg \in BOOLEAN
  BY DEF Numerals
<1>1. i \in Seq(Digit) /\ (i = <<>> \/ i[1] # 0)
  BY <1>0, Stripped
<1>2. PICK n \in Nat : int = Zeros(n) \o i
  BY <1>0, Stripped
<1>3. d \in Seq(Digit) /\ (d = <<>> \/ d[Len(d)] # 0)
  BY <1>0, StrippedRight
<1>4. PICK m \in Nat : dec = d \o Zeros(m)
  BY <1>0, StrippedRight
<1>5. normal = [neg |-> num.neg /\ (i # <<>> \/ d # <<>>), int |-> i, dec |-> d]
  BY DEF Normalize
<1>6. Normal(normal)
  <2> HIDE DEF i, d, normal
  <2> QED BY <1>0, <1>1, <1>3, <1>5 DEF Normal, Numerals
<1>7. Magnitude(num, exponent, abs)
  OBVIOUS
<1> HIDE DEF i, d, int, dec
<1>8. Value(int \o dec) = Value(i \o d) * TenTo[m] /\ Value(i \o d) \in Nat /\ Len(dec) = Len(d) + m
  <2>1. Zeros(n) \in Seq(Digit) /\ Zeros(m) \in Seq(Digit) /\ Len(Zeros(m)) = m
        /\ Value(Zeros(n)) = 0 /\ Value(Zeros(m)) = 0
    BY ValueOfZeros
  <2>2. Value(int) = Value(i)
    <3>1. Value(int) = Value(Zeros(n)) * TenTo[Len(i)] + Value(i)
      BY <1>1, <1>2, <2>1, ValueConcat
    <3>2. TenTo[Len(i)] \in Nat /\ Value(i) \in Nat
      BY <1>1, TenToIs, ValueType
    <3> QED BY <2>1, <3>1, <3>2
  <2>3. Value(int \o d) = Value(i \o d)
    BY <1>0, <1>1, <1>3, <2>2, ValueConcat
  <2>4. int \o dec = (int \o d) \o Zeros(m) /\ int \o d \in Seq(Digit)
    <3>1. int \in Seq(Digit) /\ d \in Seq(Digit)
      BY <1>0, <1>3 DEF int
    <3>2. (int \o d) \o Zeros(m) = int \o (d \o Zeros(m))
      BY <2>1, <3>1, Associative
    <3> QED BY <1>4, <3>1, <3>2
  <2>5. Value(int \o dec) = Value(int \o d) * TenTo[m] + 0
    BY <2>1, <2>4, ValueConcat
  <2>6. Value(i \o d) \in Nat /\ TenTo[m] \in Nat
    <3>1. i \o d \in Seq(Digit)
      BY <1>1, <1>3
    <3> QED BY <3>1, ValueType, TenToIs
  <2>7. Len(dec) = Len(d) + m
    BY <1>3, <1>4, Padded
  <2>8. Value(i \o d) * TenTo[m] \in Nat
    BY <2>6
  <2> QED BY <2>3, <2>5, <2>6, <2>7, <2>8
<1>9. Magnitude(normal, exponent, abs)
  <2> DEFINE k == exponent - Smallest - Len(d)
  <2>1. k \in Int /\ exponent - Smallest - Len(dec) = k - m
    BY <1>3, <1>8, SmallestIs
  <2>2. Scaled(Value(int \o dec), k - m, abs)
    BY <1>7, <2>1 DEF Magnitude, int, dec
  <2>3. Scaled(Value(i \o d), k, abs)
    <3> HIDE DEF k
    <3> QED BY <1>8, <2>1, <2>2, ScaledBy
  <2>4. normal.int = i /\ normal.dec = d
    BY <1>5
  <2> HIDE DEF normal
  <2> QED BY <2>3, <2>4 DEF Magnitude
<1>10. ASSUME num.neg, ~normal.neg PROVE abs = 0
  <2>1. normal.int = <<>> /\ normal.dec = <<>>
    <3>1. normal.neg = (num.neg /\ (i # <<>> \/ d # <<>>)) /\ normal.int = i /\ normal.dec = d
      BY <1>5
    <3> HIDE DEF normal
    <3> QED BY <1>10, <3>1
  <2>2. normal.int \o normal.dec = <<>>
    BY <2>1, ValueOfNone
  <2>3. Scaled(0, exponent - Smallest - Len(normal.dec), abs)
    BY <1>9, <2>2, ValueOfNone DEF Magnitude
  <2>4. exponent - Smallest - Len(normal.dec) \in Int
    BY <2>1, ValueOfNone, SmallestIs
  <2> HIDE DEF normal
  <2> QED BY <2>3, <2>4, ScaledZero
<1>11. normal.neg => num.neg
  <2>1. normal.neg = (num.neg /\ (i # <<>> \/ d # <<>>))
    BY <1>5
  <2> HIDE DEF normal
  <2> QED BY <2>1
<1> QED BY <1>6, <1>9, <1>10, <1>11

LEMMA NormalIsNormalized ==
  ASSUME NEW num, Normal(num)
  PROVE  Normalize(num) = num
<1>1. num.int \in Seq(Digit) /\ num.dec \in Seq(Digit) /\ num.neg \in BOOLEAN
      /\ num = [neg |-> num.neg, int |-> num.int, dec |-> num.dec]
  BY DEF Normal, Numerals
<1>2. ZeroStripLeft(num.int) = num.int /\ ZeroStripRight(num.dec) = num.dec
  BY <1>1, NothingToStrip DEF Normal
<1> QED BY <1>1, <1>2 DEF Normalize, Normal

LEMMA Split ==
  ASSUME NEW s \in Seq(Digit), NEW n \in 0..Len(s)
  PROVE  LET a == SubSeq(s, 1, n)
             b == SubSeq(s, n + 1, Len(s)) IN
         a \in Seq(Digit) /\ b \in Seq(Digit) /\ Len(a) = n /\ Len(b) = Len(s) - n /\ s = a \o b
<1>1. Len(s) \in Nat /\ n \in Int /\ n \in 1 - 1..Len(s) /\ Len(s) \in n..Len(s) /\ 1 \in 1..Len(s) + 1
  OBVIOUS
<1>2. SubSeq(s, 1, n) \o SubSeq(s, n + 1, Len(s)) = SubSeq(s, 1, Len(s))
  BY <1>1, ConcatAdjacentSubSeq
<1>3. SubSeq(s, 1, Len(s)) = s
  BY SubSeqFull
<1>4. SubSeq(s, 1, n) \in Seq(Digit) /\ Len(SubSeq(s, 1, n)) = n
  BY <1>1
<1>5. SubSeq(s, n + 1, Len(s)) \in Seq(Digit) /\ Len(SubSeq(s, n + 1, Len(s))) = Len(s) - n
  BY <1>1
<1> QED BY <1>2, <1>3, <1>4, <1>5

(* Moving the separator moves the exponent the other way. *)
LEMMA ShiftsRight ==
  ASSUME NEW num \in Numerals, NEW exponent \in Int, NEW abs \in Nat, NEW by \in Nat,
         Magnitude(num, exponent, abs)
  PROVE  LET shifted == ShiftRight(num, by) IN
         /\ shifted \in Numerals /\ shifted.neg = num.neg
         /\ Magnitude(shifted, exponent - by, abs)
<1> DEFINE int == num.int
           dec == num.dec
           k == exponent - Smallest - Len(dec)
           shifted == ShiftRight(num, by)
<1>0. int \in Seq(Digit) /\ dec \in Seq(Digit) /\ num.neg \in BOOLEAN
      /\ num = [neg |-> num.neg, int |-> int, dec |-> dec]
  BY DEF Numerals
<1>1. k \in Int /\ Len(dec) \in Nat /\ Scaled(Value(int \o dec), k, abs) /\ int \o dec \in Seq(Digit)
  BY <1>0, SmallestIs DEF Magnitude
<1> HIDE DEF int, dec
<1>2. CASE Len(dec) <= by
  <2> DEFINE n == by - Len(dec)
             more == (int \o dec) \o Zeros(n)
  <2>1. n \in Nat
    BY <1>1, <1>2
  <2>2. shifted = [neg |-> num.neg, int |-> more, dec |-> <<>>]
    BY <1>0, <1>2 DEF ShiftRight, int, dec
  <2>3. more \in Seq(Digit)
    BY <1>1, <2>1, Padded
  <2>4. Value(more) = Value(int \o dec) * TenTo[n]
    <3>1. Zeros(n) \in Seq(Digit) /\ Len(Zeros(n)) = n /\ Value(Zeros(n)) = 0
      BY <2>1, ValueOfZeros
    <3>2. Value(more) = Value(int \o dec) * TenTo[n] + 0
      BY <1>1, <3>1, ValueConcat
    <3>3. Value(int \o dec) \in Nat /\ TenTo[n] \in Nat
      BY <1>1, <2>1, ValueType, TenToIs
    <3>4. Value(int \o dec) * TenTo[n] \in Nat
      BY <3>3
    <3> QED BY <3>2, <3>4
  <2>5. Scaled(Value(more), k - n, abs)
    <3>1. Value(int \o dec) \in Nat
      BY <1>1, ValueType
    <3>2. \A v \in Nat : Scaled(v, k, abs) => Scaled(v * TenTo[n], k - n, abs)
      <4> HIDE DEF k, n
      <4> QED BY <1>1, <2>1, ScaledBy
    <3> HIDE DEF k, n, more
    <3> QED BY <1>1, <2>4, <3>1, <3>2
  <2>6. k - n = (exponent - by) - Smallest - 0
    BY <1>1, SmallestIs
  <2> HIDE DEF more, k, n
  <2>7. shifted.int = more /\ shifted.dec = <<>> /\ shifted.neg = num.neg
    BY <2>2
  <2>8. more \o <<>> = more
    BY <2>3
  <2>9. Magnitude(shifted, exponent - by, abs)
    BY <2>5, <2>6, <2>7, <2>8, ValueOfNone DEF Magnitude
  <2>10. shifted \in Numerals
    BY <1>0, <2>2, <2>3, ValueOfNone DEF Numerals
  <2> QED BY <2>7, <2>9, <2>10
<1>3. CASE ~(Len(dec) <= by)
  <2> DEFINE a == SubSeq(dec, 1, by)
             b == SubSeq(dec, by + 1, Len(dec))
  <2>1. shifted = [neg |-> num.neg, int |-> int \o a, dec |-> b]
    BY <1>0, <1>3 DEF ShiftRight, int, dec
  <2>d. dec \in Seq(Digit) /\ by \in 0..Len(dec)
    BY <1>0, <1>1, <1>3 DEF dec
  <2>2. a \in Seq(Digit) /\ b \in Seq(Digit) /\ Len(b) = Len(dec) - by
    BY <2>d, Split
  <2>3. dec = a \o b
    BY <2>d, Split
  <2> HIDE DEF a, b
  <2>4. (int \o a) \o b = int \o dec /\ int \o a \in Seq(Digit)
    <3>1. int \in Seq(Digit)
      BY <1>0 DEF int
    <3> QED BY <2>2, <2>3, <3>1, Associative
  <2>5. (exponent - by) - Smallest - Len(b) = k
    BY <1>1, <2>2, SmallestIs
  <2> HIDE DEF k
  <2>6. shifted.int = int \o a /\ shifted.dec = b /\ shifted.neg = num.neg
    BY <2>1
  <2>7. Magnitude(shifted, exponent - by, abs)
    BY <1>1, <2>4, <2>5, <2>6 DEF Magnitude
  <2>8. shifted \in Numerals
    BY <1>0, <2>1, <2>2, <2>4 DEF Numerals
  <2> QED BY <2>6, <2>7, <2>8
<1> QED BY <1>2, <1>3

LEMMA ShiftsLeft ==
  ASSUME NEW num \in Numerals, NEW exponent \in Int, NEW abs \in Nat, NEW by \in Nat,
         Magnitude(num, exponent, abs)
  PROVE  LET shifted == ShiftLeft(num, by) IN
         /\ shifted \in Numerals /\ shifted.neg = num.neg
         /\ Magnitude(shifted, exponent + by, abs)
<1> DEFINE int == num.int
           dec == num.dec
           k == exponent - Smallest - Len(dec)
           shifted == ShiftLeft(num, by)
           pivot == Len(int) - by
<1>0. int \in Seq(Digit) /\ dec \in Seq(Digit) /\ num.neg \in BOOLEAN
      /\ num = [neg |-> num.neg, int |-> int, dec |-> dec]
  BY DEF Numerals
<1>1. /\ k \in Int /\ Len(dec) \in Nat /\ Len(int) \in Nat /\ pivot \in Int
      /\ Scaled(Value(int \o dec), k, abs) /\ int \o dec \in Seq(Digit)
  BY <1>0, SmallestIs DEF Magnitude
<1> HIDE DEF int, dec
<1>2. CASE pivot <= 0
  <2> DEFINE more == (Zeros(-pivot) \o int) \o dec
  <2>1. -pivot \in Nat
    BY <1>1, <1>2
  <2>2. shifted = [neg |-> num.neg, int |-> <<>>, dec |-> more]
    BY <1>0, <1>2 DEF ShiftLeft, int, dec
  <2>i. int \in Seq(Digit) /\ dec \in Seq(Digit)
    BY <1>0 DEF int, dec
  <2>z. Zeros(-pivot) \in Seq(Digit) /\ Len(Zeros(-pivot)) = -pivot /\ Value(Zeros(-pivot)) = 0
    BY <2>1, ValueOfZeros
  <2>3. more = Zeros(-pivot) \o (int \o dec)
    BY <2>i, <2>z, Associative
  <2>4. more \in Seq(Digit) /\ Len(more) = -pivot + Len(int) + Len(dec)
    <3>1. Len(int \o dec) = Len(int) + Len(dec)
      BY <2>i
    <3> HIDE DEF more, pivot
    <3>2. more \in Seq(Digit) /\ Len(more) = -pivot + Len(int \o dec)
      BY <1>1, <2>1, <2>3, Padded
    <3> QED BY <1>1, <2>1, <3>1, <3>2
  <2>5. Value(more) = Value(int \o dec)
    <3>1. Value(more) = Value(Zeros(-pivot)) * TenTo[Len(int \o dec)] + Value(int \o dec)
      BY <1>1, <2>3, <2>z, ValueConcat
    <3>2. Value(int \o dec) \in Nat /\ TenTo[Len(int \o dec)] \in Nat
      <4>1. Len(int \o dec) \in Nat
        BY <1>1
      <4> QED BY <1>1, <4>1, ValueType, TenToIs
    <3> QED BY <2>z, <3>1, <3>2
  <2>6. (exponent + by) - Smallest - Len(more) = k
    <3> HIDE DEF more
    <3> QED BY <1>1, <2>4, SmallestIs
  <2> HIDE DEF more, k, pivot
  <2>7. shifted.int = <<>> /\ shifted.dec = more /\ shifted.neg = num.neg
    BY <2>2
  <2>8. <<>> \o more = more
    BY <2>4, ConcatEmptySeq
  <2>9. Magnitude(shifted, exponent + by, abs)
    BY <1>1, <2>5, <2>6, <2>7, <2>8 DEF Magnitude
  <2>10. shifted \in Numerals
    BY <1>0, <2>2, <2>4, ValueOfNone DEF Numerals
  <2> QED BY <2>7, <2>9, <2>10
<1>3. CASE ~(pivot <= 0)
  <2> DEFINE a == SubSeq(int, 1, pivot)
             b == SubSeq(int, pivot + 1, Len(int))
  <2>1. shifted = [neg |-> num.neg, int |-> a, dec |-> b \o dec]
    BY <1>0, <1>3 DEF ShiftLeft, int, dec
  <2>i. int \in Seq(Digit) /\ dec \in Seq(Digit) /\ pivot \in 0..Len(int)
    BY <1>0, <1>1, <1>3 DEF int, dec
  <2>2. a \in Seq(Digit) /\ b \in Seq(Digit) /\ Len(b) = Len(int) - pivot /\ int = a \o b
    <3> HIDE DEF pivot
    <3> QED BY <2>i, Split
  <2> HIDE DEF a, b
  <2>4. a \o (b \o dec) = int \o dec /\ b \o dec \in Seq(Digit) /\ Len(b \o dec) = by + Len(dec)
    <3>d. dec \in Seq(Digit)
      BY <2>i
    <3>1. a \o (b \o dec) = int \o dec
      BY <2>2, <3>d, Associative
    <3>2. b \o dec \in Seq(Digit) /\ Len(b \o dec) = Len(b) + Len(dec)
      <4>1. b \in Seq(Digit)
        BY <2>2
      <4> QED BY <3>d, <4>1, Concats
    <3>3. Len(b) = by
      BY <1>1, <2>2
    <3> QED BY <3>1, <3>2, <3>3
  <2>5. (exponent + by) - Smallest - Len(b \o dec) = k
    BY <1>1, <2>4, SmallestIs
  <2> HIDE DEF k
  <2>6. shifted.int = a /\ shifted.dec = b \o dec /\ shifted.neg = num.neg
    BY <2>1
  <2>7. Magnitude(shifted, exponent + by, abs)
    BY <1>1, <2>4, <2>5, <2>6 DEF Magnitude
  <2>8. shifted \in Numerals
    BY <1>0, <2>1, <2>2, <2>4 DEF Numerals
  <2> QED BY <2>6, <2>7, <2>8
<1> QED BY <1>2, <1>3

(* A conversion keeps what a number is worth. *)
LEMMA ConvertKeeps ==
  ASSUME NEW num \in Numerals, NEW from \in Int, NEW to \in Int, NEW w, Measures(num, from, w)
  PROVE  Normal(Convert(num, from, to)) /\ Measures(Convert(num, from, to), to, w)
<1> DEFINE shifted == IF from >= to THEN ShiftRight(num, from - to) ELSE ShiftLeft(num, to - from)
<1>1. PICK abs \in Nat : Magnitude(num, from, abs) /\ w = IF num.neg THEN -abs ELSE abs
  BY DEF Measures
<1>2. shifted \in Numerals /\ shifted.neg = num.neg /\ Magnitude(shifted, to, abs)
  <2>1. CASE from >= to
    <3>1. from - to \in Nat /\ from - (from - to) = to
      BY <2>1
    <3>2. /\ ShiftRight(num, from - to) \in Numerals /\ ShiftRight(num, from - to).neg = num.neg
          /\ Magnitude(ShiftRight(num, from - to), from - (from - to), abs)
      BY <1>1, <3>1, ShiftsRight
    <3> QED BY <2>1, <3>1, <3>2
  <2>2. CASE ~(from >= to)
    <3>1. to - from \in Nat /\ from + (to - from) = to
      BY <2>2
    <3>2. /\ ShiftLeft(num, to - from) \in Numerals /\ ShiftLeft(num, to - from).neg = num.neg
          /\ Magnitude(ShiftLeft(num, to - from), from + (to - from), abs)
      BY <1>1, <3>1, ShiftsLeft
    <3> QED BY <2>2, <3>1, <3>2
  <2> QED BY <2>1, <2>2
<1>3. Convert(num, from, to) = Normalize(shifted)
  BY DEF Convert
<1> HIDE DEF shifted
<1> DEFINE normal == Normalize(shifted)
<1>4. /\ Normal(normal) /\ Magnitude(normal, to, abs)
      /\ (normal.neg => shifted.neg) /\ (shifted.neg /\ ~normal.neg => abs = 0)
  BY <1>2, NormalizeKeeps
<1> HIDE DEF normal
<1>5. Measures(normal, to, w)
  <2>1. w = IF normal.neg THEN -abs ELSE abs
    BY <1>1, <1>2, <1>4
  <2> QED BY <1>4, <2>1 DEF Measures
<1> QED BY <1>3, <1>4, <1>5 DEF normal

-----------------------------------------------------------------------------
(* What is written without decimals is what it is worth. *)
LEMMA WholeIs ==
  ASSUME NEW num, num.dec = <<>>, num.int \in Seq(Digit), NEW abs \in Nat
  PROVE  Magnitude(num, Smallest, abs) <=> abs = Value(num.int)
<1>1. num.int \o num.dec = num.int /\ Smallest - Smallest - Len(num.dec) = 0
  <2>1. num.int \o <<>> = num.int
    BY ConcatEmptySeq
  <2>2. Smallest - Smallest - 0 = 0
    BY SmallestIs
  <2> QED BY <2>1, <2>2, ValueOfNone
<1>2. Value(num.int) \in Nat /\ TenTo[0] = 1
  BY ValueType, TenToIs
<1>3. Value(num.int) * 1 = Value(num.int)
  BY <1>2
<1> QED BY <1>1, <1>2, <1>3 DEF Magnitude, Scaled

(* The canonical integer: no digit is below the smallest unit. *)
LEMMA CanonicalIs ==
  ASSUME NEW num \in Numerals, NEW exponent \in Int, NEW w, Measures(num, exponent, w)
  PROVE  Canonical(num, exponent) = w /\ HasCanonical(num, exponent)
<1> DEFINE c == Convert(num, exponent, Smallest)
           n == Len(c.dec)
<1>1. Normal(c) /\ Measures(c, Smallest, w)
  BY ConvertKeeps, SmallestIs
<1>2. PICK abs \in Nat : Magnitude(c, Smallest, abs) /\ w = IF c.neg THEN -abs ELSE abs
  BY <1>1 DEF Measures
<1>3. c.int \in Seq(Digit) /\ c.dec \in Seq(Digit) /\ n \in Nat
  BY <1>1 DEF Normal, Numerals
<1>h. Canonical(num, exponent) = ToInteger(c) /\ (HasCanonical(num, exponent) <=> c.dec = <<>>)
  BY DEF Canonical, HasCanonical
<1> HIDE DEF c
<1>4. c.dec = <<>>
  <2> SUFFICES ASSUME c.dec # <<>> PROVE FALSE
    OBVIOUS
  <2>1. n > 0 /\ n - 1 \in Nat /\ c.dec[n] # 0
    BY <1>1, <1>3 DEF Normal
  <2>2. Value(c.int \o c.dec) = abs * TenTo[n]
    <3>1. Smallest - Smallest - n = -n /\ ~(-n >= 0) /\ -(-n) = n
      BY <1>3, <2>1, SmallestIs
    <3>2. Scaled(Value(c.int \o c.dec), -n, abs)
      BY <1>2, <3>1 DEF Magnitude
    <3> HIDE DEF n
    <3> QED BY <3>1, <3>2 DEF Scaled
  <2>3. TenTo[n] = 10 * TenTo[n - 1] /\ TenTo[n - 1] \in Nat
    <3>1. (n - 1) + 1 = n
      BY <1>3
    <3> HIDE DEF n
    <3>2. TenTo[(n - 1) + 1] = 10 * TenTo[n - 1] /\ TenTo[n - 1] \in Nat
      BY <2>1, TenToIs
    <3> QED BY <3>1, <3>2
  <2>4. abs * TenTo[n] = 10 * (abs * TenTo[n - 1]) /\ abs * TenTo[n - 1] \in Nat
    <3>1. \A a, b \in Nat : a * (10 * b) = 10 * (a * b) /\ a * b \in Nat
      OBVIOUS
    <3> QED BY <2>3, <3>1
  <2>5. c.int \o c.dec \in Seq(Digit) /\ Len(c.int \o c.dec) = Len(c.int) + n
        /\ (c.int \o c.dec)[Len(c.int) + n] = c.dec[n]
    <3>1. \A s, t \in Seq(Digit) : t # <<>> =>
            s \o t \in Seq(Digit) /\ Len(s \o t) = Len(s) + Len(t) /\ (s \o t)[Len(s) + Len(t)] = t[Len(t)]
      OBVIOUS
    <3> QED BY <1>3, <3>1
  <2>6. c.int \o c.dec # <<>>
    <3>1. Len(c.int) \in Nat
      BY <1>3
    <3> QED BY <2>1, <2>5, <3>1, ValueOfNone
  <2>7. (c.int \o c.dec)[Len(c.int \o c.dec)] = 0
    BY <2>2, <2>4, <2>5, <2>6, LastDigit
  <2> QED BY <2>1, <2>5, <2>7
<1>5. abs = Value(c.int)
  BY <1>2, <1>3, <1>4, WholeIs
<1>6. ToInteger(c) = w
  BY <1>2, <1>5 DEF ToInteger
<1> QED BY <1>4, <1>6, <1>h

LEMMA ScaledAdd ==
  ASSUME NEW v \in Nat, NEW w \in Nat, NEW k \in Int, NEW d \in Digit, Scaled(v, k, w), d = 0 \/ k >= 0
  PROVE  LET more == IF d = 0 THEN 0 ELSE d * TenTo[k] IN
         more \in Nat /\ Scaled(v + d, k, w + more)
<1>1. CASE d = 0
  BY <1>1
<1>2. CASE d # 0
  <2>1. k \in Nat /\ d \in Nat /\ TenTo[k] \in Nat /\ w = v * TenTo[k]
    BY <1>2, TenToIs DEF Scaled, Digit
  <2>2. \A a, b, t \in Nat : (a + b) * t = a * t + b * t /\ b * t \in Nat
    OBVIOUS
  <2>3. (v + d) * TenTo[k] = v * TenTo[k] + d * TenTo[k] /\ d * TenTo[k] \in Nat
    BY <2>1, <2>2
  <2>4. Scaled(v + d, k, w + d * TenTo[k])
    BY <2>1, <2>3 DEF Scaled
  <2> QED BY <1>2, <2>3, <2>4
<1> QED BY <1>1, <1>2

(* The digits, weighed one by one. *)
Weighs(f, n, digits, place) ==
  f[0] = 0 /\ \A i \in 1..n :
    f[i] = f[i - 1] + (IF digits[i] = 0 THEN 0 ELSE digits[i] * TenTo[place - i])

LEMMA WeighedIs ==
  ASSUME NEW n \in Nat, NEW digits \in Seq(Digit), n = Len(digits), NEW place \in Int,
         \A i \in 1..n : digits[i] # 0 => place - i >= 0
  PROVE  \E f : Weighs(f, n, digits, place) /\ Weighed(digits, place) = f[n]
<1> DEFINE term(i) == IF digits[i] = 0 THEN 0 ELSE digits[i] * TenTo[place - i]
           terms == [i \in 1..n |-> term(i)]
           After(f, i) == IF i = 0 THEN 0 ELSE f[i - 1] + term(i)
           sum == CHOOSE f : f = [i \in 0..n |-> After(f, i)]
<1>w. Weighed(digits, place) = sum[n]
  BY DEF Weighed
<1>1. \A i \in 1..n : term(i) \in Nat
  <2> SUFFICES ASSUME NEW i \in 1..n, digits[i] # 0 PROVE digits[i] * TenTo[place - i] \in Nat
    OBVIOUS
  <2>1. digits[i] \in Nat /\ place - i \in Nat
    BY DEF Digit
  <2>2. TenTo[place - i] \in Nat
    BY <2>1, TenToIs
  <2> QED BY <2>1, <2>2, Products
<1>2. terms \in [1..n -> Nat] /\ \A i \in 1..n : terms[i] = term(i)
  <2> HIDE DEF term
  <2> QED BY <1>1
<1>3. \E f : f = [i \in 0..n |-> After(f, i)]
  <2> HIDE DEF terms
  <2>1. PICK f : Sums(f, n, 1, terms)
    BY <1>2, SumsExist
  <2>2. f \in [0..n -> Nat] /\ Steps(f, n, 1, terms)
    BY <1>2, <2>1, SumsAre
  <2> HIDE DEF term
  <2>3. ASSUME NEW i \in 0..n PROVE f[i] = After(f, i)
    <3>1. CASE i = 0
      BY <2>2, <3>1 DEF Steps
    <3>2. CASE i # 0
      <4>1. i \in 1..n /\ i - 1 \in 0..n
        BY <3>2
      <4>2. f[i - 1] \in Nat /\ f[i] = 1 * f[i - 1] + terms[i] /\ terms[i] = term(i) /\ term(i) \in Nat
        BY <1>1, <1>2, <2>2, <4>1 DEF Steps
      <4>3. \A a, b \in Nat : 1 * a + b = a + b
        OBVIOUS
      <4> QED BY <3>2, <4>2, <4>3
    <3> QED BY <3>1, <3>2
  <2>4. f = [i \in 0..n |-> f[i]]
    BY <2>2
  <2>5. f = [i \in 0..n |-> After(f, i)]
    <3> HIDE DEF After
    <3> QED BY <2>3, <2>4
  <2> QED BY <2>5
<1>4. sum = [i \in 0..n |-> After(sum, i)]
  <2> HIDE DEF After
  <2> QED BY <1>3
<1> HIDE DEF sum
<1>5. sum[0] = 0
  BY <1>4
<1>6. ASSUME NEW i \in 1..n PROVE sum[i] = sum[i - 1] + term(i)
  <2> HIDE DEF term
  <2>1. i \in 0..n /\ i # 0
    OBVIOUS
  <2> QED BY <1>4, <2>1
<1>7. Weighs(sum, n, digits, place)
  BY <1>5, <1>6 DEF Weighs
<1> QED BY <1>w, <1>7

LEMMA WeighedScales ==
  ASSUME NEW n \in Nat, NEW digits \in Seq(Digit), n = Len(digits), NEW place \in Int,
         \A i \in 1..n : digits[i] # 0 => place - i >= 0
  PROVE  Weighed(digits, place) \in Nat /\ Scaled(Value(digits), place - n, Weighed(digits, place))
<1>1. PICK f : Weighs(f, n, digits, place) /\ Weighed(digits, place) = f[n]
  BY WeighedIs
<1>2. PICK r : Reads(r, digits) /\ Value(digits) = r[n]
  BY ValueIs
<1>3. r \in [0..n -> Nat] /\ r[0] = 0 /\ \A i \in 1..n : r[i] = 10 * r[i - 1] + digits[i]
  BY <1>2, ReadsAre
<1> DEFINE S == {i \in 0..n : f[i] \in Nat /\ Scaled(r[i], place - i, f[i])}
<1>4. 0 \in S
  <2>1. \A m \in Nat : TenTo[m] \in Nat /\ 0 = 0 * TenTo[m]
    <3>1. \A a \in Nat : 0 = 0 * a
      OBVIOUS
    <3> QED BY <3>1, TenToIs
  <2>2. f[0] = 0
    BY <1>1 DEF Weighs
  <2>3. place - 0 \in Int /\ (place - 0 >= 0 => place - 0 \in Nat) /\ (~(place - 0 >= 0) => -(place - 0) \in Nat)
    OBVIOUS
  <2>4. Scaled(0, place - 0, 0)
    BY <2>1, <2>3 DEF Scaled
  <2> QED BY <1>3, <2>2, <2>4
<1>5. ASSUME NEW i \in 0..(n - 1), i \in S PROVE i + 1 \in S
  <2>1. i + 1 \in 1..n /\ (i + 1) - 1 = i /\ place - i \in Int /\ (place - i) - 1 = place - (i + 1)
        /\ place - (i + 1) \in Int /\ i + 1 \in 0..n /\ i \in 0..n
    OBVIOUS
  <2>2. f[i] \in Nat /\ Scaled(r[i], place - i, f[i]) /\ r[i] \in Nat
    BY <1>3, <1>5, <2>1
  <2>3. Scaled(r[i] * 10, place - (i + 1), f[i])
    <3>1. TenTo[1] = 10 /\ 1 \in Nat
      <4>1. TenTo[0 + 1] = 10 * TenTo[0] /\ TenTo[0] = 1
        BY TenToIs
      <4> QED BY <4>1
    <3>2. Scaled(r[i] * TenTo[1], (place - i) - 1, f[i])
      BY <2>1, <2>2, <3>1, ScaledBy
    <3> QED BY <2>1, <3>1, <3>2
  <2>4. PICK d \in Digit : d = digits[i + 1] /\ (d = 0 \/ place - (i + 1) >= 0)
    BY <2>1
  <2> DEFINE term == IF d = 0 THEN 0 ELSE d * TenTo[place - (i + 1)]
  <2>5. r[i] * 10 \in Nat /\ r[i + 1] = r[i] * 10 + d
    <3>1. r[i + 1] = 10 * r[i] + d
      BY <1>3, <2>1, <2>4
    <3> QED BY <2>2, <3>1
  <2>6. term \in Nat /\ Scaled(r[i] * 10 + d, place - (i + 1), f[i] + term)
    BY <2>1, <2>2, <2>3, <2>4, <2>5, ScaledAdd
  <2>7. f[i + 1] = f[i] + term
    <3>1. f[i + 1] = f[(i + 1) - 1] + (IF digits[i + 1] = 0 THEN 0 ELSE digits[i + 1] * TenTo[place - (i + 1)])
      BY <1>1, <2>1 DEF Weighs
    <3> QED BY <2>1, <2>4, <3>1
  <2> HIDE DEF term
  <2>8. f[i + 1] \in Nat
    BY <2>2, <2>6, <2>7
  <2> QED BY <2>1, <2>5, <2>6, <2>7, <2>8
<1>6. 0..n \subseteq S
  <2> HIDE DEF S
  <2> QED BY <1>4, <1>5, UpTo
<1>7. n \in S
  <2>1. n \in 0..n
    OBVIOUS
  <2> QED BY <1>6, <2>1
<1> QED BY <1>1, <1>2, <1>7

(* What a numeral should be worth is what it measures. *)
LEMMA WorthIs ==
  ASSUME NEW num \in Numerals, NEW exponent \in Int, exponent >= Smallest, Representable(num, exponent)
  PROVE  Measures(num, exponent, Worth(num, exponent))
<1> DEFINE int == num.int
           dec == num.dec
<1>0. /\ int \in Seq(Digit) /\ dec \in Seq(Digit) /\ Len(int) \in Nat /\ Len(dec) \in Nat
      /\ Smallest \in Int
  BY SmallestIs DEF Numerals
<1>r. \A j \in 1..Len(dec) : dec[j] # 0 => exponent - j >= Smallest
  BY DEF Representable
<1> HIDE DEF int, dec
<1>1. PICK digits \in Seq(Digit) : digits = int \o dec
  <2>1. int \o dec \in Seq(Digit)
    BY <1>0, Concats
  <2> QED BY <2>1
<1>2. PICK n \in Nat : n = Len(digits) /\ n = Len(int) + Len(dec)
  <2>1. \A s, t \in Seq(Digit) : Len(s \o t) = Len(s) + Len(t)
    OBVIOUS
  <2> QED BY <1>0, <1>1, <2>1
<1>3. PICK place \in Int : place = Len(int) + exponent - Smallest
  <2>1. \A i, j \in Int : i + exponent - j \in Int
    OBVIOUS
  <2>2. Len(int) \in Int /\ Smallest \in Int
    BY <1>0
  <2>3. Len(int) + exponent - Smallest \in Int
    BY <2>1, <2>2
  <2> QED BY <2>3
<1>4. ASSUME NEW i \in 1..n, digits[i] # 0 PROVE place - i >= 0
  <2>1. CASE i <= Len(int)
    BY <1>0, <1>3, <2>1
  <2>2. CASE ~(i <= Len(int))
    <3>1. PICK j \in 1..Len(dec) : j = i - Len(int)
      <4>1. \A a, b \in Nat : i <= a + b /\ ~(i <= a) => i - a \in 1..b
        OBVIOUS
      <4>2. i <= Len(int) + Len(dec)
        BY <1>2
      <4>3. i - Len(int) \in 1..Len(dec)
        BY <1>0, <2>2, <4>1, <4>2
      <4> QED BY <4>3
    <3>2. digits[i] = dec[j]
      <4>1. i \in 1..(Len(int) + Len(dec))
        BY <1>2
      <4>2. \A s, t \in Seq(Digit), m \in Nat : m \in 1..(Len(s) + Len(t)) /\ ~(m <= Len(s)) => (s \o t)[m] = t[m - Len(s)]
        BY ConcatProperties
      <4> QED BY <1>0, <1>1, <2>2, <3>1, <4>1, <4>2
    <3>3. exponent - j >= Smallest
      BY <1>r, <1>4, <3>1, <3>2
    <3> QED BY <1>0, <1>3, <3>1, <3>3
  <2> QED BY <2>1, <2>2
<1>5. PICK abs \in Nat : abs = Weighed(digits, place) /\ Scaled(Value(digits), place - n, abs)
  BY <1>2, <1>4, WeighedScales
<1>6. place - n = exponent - Smallest - Len(dec)
  BY <1>0, <1>2, <1>3
<1>7. Magnitude(num, exponent, abs)
  BY <1>1, <1>5, <1>6 DEF Magnitude, int, dec
<1>8. Worth(num, exponent) = IF num.neg THEN -abs ELSE abs
  BY <1>1, <1>3, <1>5 DEF Worth, int, dec
<1> QED BY <1>7, <1>8 DEF Measures

-----------------------------------------------------------------------------
(* The digits of an integer. *)
LEMMA DigitsAre ==
  \A n \in Nat : Digits[n] = IF n < 10 THEN <<n>> ELSE Append(Digits[n \div 10], n % 10)
<1> DEFINE T == Seq(Digit)
           Base == {n \in Nat : n < 10}
           given == [n \in Nat |-> IF n < 10 THEN <<n>> ELSE <<>>]
           before == [n \in Nat |-> n \div 10]
           size == [n \in Nat |-> n]
           step == [y \in T \X Nat |-> Append(y[1], y[2] % 10)]
           After(f, n) == IF n < 10 THEN <<n>> ELSE Append(f[n \div 10], n % 10)
<1>1. PICK f \in [Nat -> T] : \A n \in Nat : Follows(f, n, Base, given, before, step)
  <2>1. given \in [Nat -> T]
    <3>1. \A n \in Nat : n < 10 => <<n>> \in Seq(Digit)
      BY DEF Digit
    <3> QED BY <3>1
  <2>2. before \in [Nat -> Nat] /\ size \in [Nat -> Nat]
    OBVIOUS
  <2>3. step \in [T \X Nat -> T]
    <3> SUFFICES ASSUME NEW s \in Seq(Digit), NEW n \in Nat PROVE Append(s, n % 10) \in Seq(Digit)
      OBVIOUS
    <3>1. n % 10 \in Digit
      BY DEF Digit
    <3> QED BY <3>1
  <2>4. \A x \in Nat \ Base : size[before[x]] < size[x]
    OBVIOUS
  <2> HIDE DEF T, Base, given, before, size, step
  <2> QED BY <2>1, <2>2, <2>3, <2>4, Recursion
<1>2. ASSUME NEW n \in Nat PROVE f[n] = After(f, n)
  <2>1. before[n] \in Nat /\ f[before[n]] \in T /\ before[n] = n \div 10
    OBVIOUS
  <2>2. n \notin Base => step[<<f[before[n]], n>>] = Append(f[n \div 10], n % 10)
    BY <2>1
  <2> HIDE DEF before, step, T
  <2> QED BY <1>1, <2>2 DEF Follows
<1>3. f = [n \in Nat |-> After(f, n)]
  <2> HIDE DEF After, T
  <2> QED BY <1>2
<1>4. Digits = [n \in Nat |-> After(Digits, n)]
  BY <1>3 DEF Digits
<1> QED BY <1>4

LEMMA ValueOfOne == \A d \in Digit : <<d>> \in Seq(Digit) /\ Len(<<d>>) = 1 /\ Value(<<d>>) = d
<1> SUFFICES ASSUME NEW d \in Digit PROVE <<d>> \in Seq(Digit) /\ Len(<<d>>) = 1 /\ Value(<<d>>) = d
  OBVIOUS
<1>1. PICK s \in Seq(Digit) : s = <<d>> /\ Len(s) = 1 /\ s[1] = d
  <2>1. <<d>> \in Seq(Digit) /\ Len(<<d>>) = 1 /\ <<d>>[1] = d
    OBVIOUS
  <2> QED BY <2>1
<1>2. PICK f : Reads(f, s) /\ Value(s) = f[1]
  BY <1>1, ValueIs
<1>3. f[0] = 0 /\ f[1] = 10 * f[0] + s[1]
  <2>1. f[0] = 0 /\ \A i \in 1..Len(s) : f[i] = 10 * f[i - 1] + s[i]
    BY <1>2, ReadsAre
  <2>2. 1 \in 1..Len(s) /\ 1 - 1 = 0
    BY <1>1
  <2> QED BY <2>1, <2>2
<1>4. Value(s) = d
  BY <1>1, <1>2, <1>3 DEF Digit
<1> QED BY <1>1, <1>4

LEMMA DigitsOf == \A n \in Nat : Digits[n] \in Seq(Digit) /\ Value(Digits[n]) = n
<1> SUFFICES ASSUME NEW n \in Nat PROVE Digits[n] \in Seq(Digit) /\ Value(Digits[n]) = n
  OBVIOUS
<1> DEFINE Right(m) == Digits[m] \in Seq(Digit) /\ Value(Digits[m]) = m
           S == {i \in 0..n : \A m \in 0..i : Right(m)}
<1>1. ASSUME NEW m \in Nat, m < 10 PROVE Right(m)
  <2>1. Digits[m] = <<m>>
    BY <1>1, DigitsAre
  <2>2. m \in Digit
    BY <1>1 DEF Digit
  <2> QED BY <2>1, <2>2, ValueOfOne
<1>2. ASSUME NEW m \in Nat, ~(m < 10), Right(m \div 10) PROVE Right(m)
  <2>1. PICK s \in Seq(Digit) : s = Digits[m \div 10] /\ Value(s) = m \div 10
    BY <1>2
  <2>2. PICK d \in Digit : d = m % 10
    BY DEF Digit
  <2>3. Digits[m] = Append(s, d)
    BY <1>2, <2>1, <2>2, DigitsAre
  <2>4. Append(s, d) = s \o <<d>> /\ Append(s, d) \in Seq(Digit)
    BY AppendIsConcat
  <2>5. Value(s \o <<d>>) = Value(s) * TenTo[1] + d
    BY ValueConcat, ValueOfOne
  <2>6. TenTo[1] = 10
    <3>1. TenTo[0 + 1] = 10 * TenTo[0] /\ TenTo[0] = 1
      BY TenToIs
    <3> QED BY <3>1
  <2>7. m = 10 * (m \div 10) + (m % 10) /\ m \div 10 \in Nat /\ m % 10 \in Nat
    OBVIOUS
  <2>8. Value(s \o <<d>>) = m
    BY <2>1, <2>2, <2>5, <2>6, <2>7
  <2>9. Digits[m] \in Seq(Digit) /\ Value(Digits[m]) = m
    BY <2>3, <2>4, <2>8
  <2> QED BY <2>9
<1> HIDE DEF Right
<1>3. 0 \in S
  <2>1. Right(0)
    BY <1>1
  <2> QED BY <2>1
<1>4. ASSUME NEW i \in 0..(n - 1), i \in S PROVE i + 1 \in S
  <2>1. Right(i + 1)
    <3>1. i + 1 \in Nat /\ (~(i + 1 < 10) => (i + 1) \div 10 \in 0..i)
      OBVIOUS
    <3> QED BY <1>1, <1>2, <1>4, <3>1
  <2>2. \A m \in 0..(i + 1) : m \in 0..i \/ m = i + 1
    OBVIOUS
  <2> QED BY <1>4, <2>1, <2>2
<1>5. 0..n \subseteq S
  <2> HIDE DEF S
  <2> QED BY <1>3, <1>4, UpTo
<1> QED BY <1>5 DEF Right

LEMMA FromIntegerIs ==
  ASSUME NEW n \in Int
  PROVE  Normal(FromInteger(n)) /\ Measures(FromInteger(n), Smallest, n)
<1> DEFINE abs == IF n < 0 THEN -n ELSE n
           raw == [neg |-> n < 0, int |-> Digits[abs], dec |-> <<>>]
           normal == Normalize(raw)
<1>1. abs \in Nat /\ n = IF n < 0 THEN -abs ELSE abs
  OBVIOUS
<1>2. raw \in Numerals /\ raw.dec = <<>> /\ raw.int = Digits[abs] /\ (raw.neg <=> n < 0) /\ raw.neg \in BOOLEAN
  <2>1. Digits[abs] \in Seq(Digit) /\ <<>> \in Seq(Digit)
    BY <1>1, DigitsOf, ValueOfNone
  <2>2. (n < 0) \in BOOLEAN
    OBVIOUS
  <2> HIDE DEF abs
  <2>3. \A neg \in BOOLEAN, int, dec \in Seq(Digit) : [neg |-> neg, int |-> int, dec |-> dec] \in Numerals
    BY DEF Numerals
  <2>4. raw \in Numerals
    BY <2>1, <2>2, <2>3
  <2> QED BY <2>2, <2>4
<1>3. FromInteger(n) = normal
  BY DEF FromInteger
<1>4. Magnitude(raw, Smallest, abs)
  <2>1. Digits[abs] \in Seq(Digit) /\ Value(Digits[abs]) = abs
    BY <1>1, DigitsOf
  <2> HIDE DEF raw, abs
  <2> QED BY <1>1, <1>2, <2>1, WholeIs
<1> HIDE DEF raw, abs
<1>5. /\ Normal(normal) /\ Magnitude(normal, Smallest, abs)
      /\ (normal.neg => raw.neg) /\ (raw.neg /\ ~normal.neg => abs = 0)
  BY <1>1, <1>2, <1>4, SmallestIs, NormalizeKeeps
<1> HIDE DEF normal
<1>6. n = IF normal.neg THEN -abs ELSE abs
  BY <1>1, <1>2, <1>5
<1>7. Measures(normal, Smallest, n)
  BY <1>1, <1>5, <1>6 DEF Measures
<1> QED BY <1>3, <1>5, <1>7

-----------------------------------------------------------------------------
(* The binary search, over the units from..to. *)
Middle(range) == range[1] + (range[2] - range[1]) \div 2

Searches(f, n, exponent) ==
  \A range \in (0..n) \X (0..n) :
    f[range] = IF range[2] - range[1] <= 1 THEN range[1]
               ELSE IF SortedUnits[Middle(range) + 1] > exponent THEN f[<<range[1], Middle(range)>>]
               ELSE IF SortedUnits[Middle(range) + 1] < exponent THEN f[<<Middle(range), range[2]>>]
               ELSE Middle(range)

LEMMA MiddleIs ==
  ASSUME NEW n \in Nat, NEW range \in (0..n) \X (0..n), ~(range[2] - range[1] <= 1)
  PROVE  Middle(range) \in 0..n /\ range[1] < Middle(range) /\ Middle(range) < range[2]
<1>1. PICK from \in 0..n, to \in 0..n : from = range[1] /\ to = range[2]
  OBVIOUS
<1>2. from + (to - from) \div 2 \in 0..n /\ from < from + (to - from) \div 2 /\ from + (to - from) \div 2 < to
  BY <1>1
<1> QED BY <1>1, <1>2 DEF Middle

LEMMA SearchIs ==
  ASSUME NEW exponent \in Int, NEW n \in Nat, n = Len(SortedUnits)
  PROVE  \E f : Searches(f, n, exponent) /\ Candidate(exponent) = f[<<0, n>>]
<1> DEFINE D == (0..n) \X (0..n)
           Found(r) == ~(SortedUnits[Middle(r) + 1] > exponent) /\ ~(SortedUnits[Middle(r) + 1] < exponent)
           Short(r) == r[2] - r[1] <= 1
           Base == {r \in D : Short(r) \/ Found(r)}
           given == [r \in D |-> IF Short(r) THEN r[1] ELSE Middle(r)]
           before == [r \in D |-> IF Short(r) THEN r
                                  ELSE IF SortedUnits[Middle(r) + 1] > exponent THEN <<r[1], Middle(r)>>
                                  ELSE <<Middle(r), r[2]>>]
           size == [r \in D |-> IF r[2] >= r[1] THEN r[2] - r[1] ELSE 0]
           step == [y \in (0..n) \X D |-> y[1]]
           After(f, r) == IF Short(r) THEN r[1]
                          ELSE IF SortedUnits[Middle(r) + 1] > exponent THEN f[<<r[1], Middle(r)>>]
                          ELSE IF SortedUnits[Middle(r) + 1] < exponent THEN f[<<Middle(r), r[2]>>]
                          ELSE Middle(r)
           search == CHOOSE f : f = [r \in D |-> After(f, r)]
<1>0. \A r \in D : r[1] \in 0..n /\ r[2] \in 0..n
                   /\ (~Short(r) => Middle(r) \in 0..n /\ r[1] < Middle(r) /\ Middle(r) < r[2])
  BY MiddleIs
<1>s. Candidate(exponent) = search[<<0, n>>]
  BY DEF Candidate, Middle
<1>1. PICK f \in [D -> 0..n] : \A r \in D : Follows(f, r, Base, given, before, step)
  <2> DEFINE T == 0..n
  <2>1. given \in [D -> T]
    <3> HIDE DEF Short
    <3> QED BY <1>0
  <2>2. before \in [D -> D] /\ size \in [D -> Nat]
    <3>1. before \in [D -> D]
      <4> SUFFICES ASSUME NEW r \in D, ~Short(r) PROVE <<r[1], Middle(r)>> \in D /\ <<Middle(r), r[2]>> \in D
        OBVIOUS
      <4> HIDE DEF Short
      <4> QED BY <1>0
    <3>2. size \in [D -> Nat]
      <4> SUFFICES ASSUME NEW r \in D, r[2] >= r[1] PROVE r[2] - r[1] \in Nat
        OBVIOUS
      <4> QED BY <1>0
    <3> QED BY <3>1, <3>2
  <2>3. step \in [T \X D -> T]
    <3> HIDE DEF D
    <3> QED OBVIOUS
  <2>4. \A r \in D \ Base : size[before[r]] < size[r]
    <3> SUFFICES ASSUME NEW r \in D, ~Short(r), ~Found(r) PROVE size[before[r]] < size[r]
      OBVIOUS
    <3>1. r[1] \in Int /\ r[2] \in Int /\ Middle(r) \in 0..n /\ r[1] < Middle(r) /\ Middle(r) < r[2]
      BY <1>0
    <3>2. size[r] = r[2] - r[1]
      BY <3>1
    <3>3. before[r] \in D /\ (before[r] = <<r[1], Middle(r)>> \/ before[r] = <<Middle(r), r[2]>>)
      BY <2>2
    <3>4. ASSUME NEW q \in D, q = <<r[1], Middle(r)>> \/ q = <<Middle(r), r[2]>> PROVE size[q] < r[2] - r[1]
      <4>1. CASE q = <<r[1], Middle(r)>>
        BY <3>1, <4>1
      <4>2. CASE q = <<Middle(r), r[2]>>
        BY <3>1, <4>2
      <4> QED BY <3>4, <4>1, <4>2
    <3> HIDE DEF size, before
    <3> QED BY <3>2, <3>3, <3>4
  <2>5. \E f \in [D -> T] : \A r \in D : Follows(f, r, Base, given, before, step)
    <3> HIDE DEF D, T, Short, Found, Base, given, before, size, step
    <3> QED BY <2>1, <2>2, <2>3, <2>4, Recursion
  <2> QED BY <2>5
<1>2. ASSUME NEW r \in D PROVE f[r] = After(f, r)
  <2>1. Follows(f, r, Base, given, before, step)
    BY <1>1
  <2>2. CASE r \in Base
    <3>1. f[r] = IF Short(r) THEN r[1] ELSE Middle(r)
      BY <2>1, <2>2 DEF Follows
    <3> HIDE DEF Short
    <3> QED BY <2>2, <3>1
  <2>3. CASE r \notin Base
    <3>1. ~Short(r) /\ ~Found(r)
      BY <2>3
    <3>2. before[r] \in D
      <4> HIDE DEF Short
      <4> QED BY <1>0, <3>1
    <3>3. f[before[r]] \in 0..n
      <4> HIDE DEF before, D
      <4> QED BY <1>1, <3>2
    <3>4. f[r] = f[before[r]]
      <4>1. f[r] = step[<<f[before[r]], r>>]
        BY <2>1, <2>3 DEF Follows
      <4>2. <<f[before[r]], r>> \in (0..n) \X D
        <5> HIDE DEF before, D
        <5> QED BY <3>3
      <4> HIDE DEF before, D
      <4> QED BY <4>1, <4>2
    <3> HIDE DEF Short
    <3> QED BY <3>1, <3>4
  <2> QED BY <2>2, <2>3
<1>3. f = [r \in D |-> After(f, r)]
  <2> HIDE DEF After, D
  <2> QED BY <1>2
<1>4. search = [r \in D |-> After(search, r)]
  <2> HIDE DEF After, D
  <2> QED BY <1>3
<1> HIDE DEF search
<1>5. \A r \in D : search[r] = After(search, r)
  <2> HIDE DEF After, D
  <2> QED BY <1>4
<1>6. Searches(search, n, exponent)
  BY <1>5 DEF Searches
<1> QED BY <1>s, <1>6

(* What the search keeps: the units from to on are larger. *)
LEMMA CandidateIs ==
  ASSUME NEW exponent \in Int, NEW n \in Nat, n = Len(SortedUnits)
  PROVE  LET c == Candidate(exponent) IN
         c \in 0..(n - 1) /\ (c = n - 1 \/ SortedUnits[c + 1] >= exponent \/ SortedUnits[c + 2] > exponent)
<1>n. n > 0 /\ \A i \in 1..n : SortedUnits[i] \in Int
  BY NumbersAssumption
<1>1. PICK f : Searches(f, n, exponent) /\ Candidate(exponent) = f[<<0, n>>]
  BY SearchIs
<1> DEFINE Good(c) == c \in 0..(n - 1) /\ (c = n - 1 \/ SortedUnits[c + 1] >= exponent \/ SortedUnits[c + 2] > exponent)
           Above(to) == to = n \/ SortedUnits[to + 1] > exponent
           S == {i \in 0..n : \A from \in 0..n, to \in 0..n :
                                from < to /\ to - from <= i /\ Above(to) => Good(f[<<from, to>>])}
<1>2. 0 \in S
  OBVIOUS
<1>3. ASSUME NEW i \in 0..(n - 1), i \in S PROVE i + 1 \in S
  <2> SUFFICES ASSUME NEW from \in 0..n, NEW to \in 0..n, from < to, to - from <= i + 1, Above(to)
               PROVE  Good(f[<<from, to>>])
    OBVIOUS
  <2> DEFINE range == <<from, to>>
             next == Middle(range)
  <2>1. range \in (0..n) \X (0..n) /\ range[1] = from /\ range[2] = to
    OBVIOUS
  <2>2. f[range] = IF to - from <= 1 THEN from
                   ELSE IF SortedUnits[next + 1] > exponent THEN f[<<from, next>>]
                   ELSE IF SortedUnits[next + 1] < exponent THEN f[<<next, to>>]
                   ELSE next
    <3> HIDE DEF range
    <3> QED BY <1>1, <2>1 DEF Searches
  <2>3. CASE to - from <= 1
    <3>1. to = from + 1 /\ f[range] = from
      BY <2>2, <2>3
    <3>2. from \in 0..(n - 1) /\ (from = n - 1 \/ SortedUnits[from + 2] > exponent)
      BY <3>1
    <3> HIDE DEF range
    <3> QED BY <3>1, <3>2 DEF range
  <2>4. CASE ~(to - from <= 1)
    <3>1. next \in 0..n /\ from < next /\ next < to
      <4> HIDE DEF range
      <4> QED BY <2>1, <2>4, MiddleIs
    <3> HIDE DEF next
    <3>2. next + 1 \in 1..n /\ SortedUnits[next + 1] \in Int
      BY <1>n, <3>1
    <3>3. ASSUME SortedUnits[next + 1] > exponent PROVE Good(f[<<from, next>>])
      <4>1. next - from <= i /\ Above(next)
        BY <3>1, <3>3
      <4> QED BY <1>3, <3>1, <4>1
    <3>4. Good(f[<<next, to>>])
      <4>1. to - next <= i
        BY <3>1
      <4> QED BY <1>3, <3>1, <4>1
    <3>5. ASSUME ~(SortedUnits[next + 1] < exponent) PROVE Good(next)
      BY <3>1, <3>2, <3>5
    <3> HIDE DEF Good
    <3> QED BY <2>2, <2>4, <3>3, <3>4, <3>5 DEF range
  <2> QED BY <2>3, <2>4
<1>4. 0..n \subseteq S
  <2> HIDE DEF S
  <2> QED BY <1>2, <1>3, UpTo
<1>5. n \in S
  <2>1. n \in 0..n
    OBVIOUS
  <2> QED BY <1>4, <2>1
<1>6. Good(f[<<0, n>>])
  BY <1>n, <1>5
<1> QED BY <1>1, <1>6

(* closestPrefix is a unit, and one that is large enough if there is one. *)
LEMMA ClosestIs ==
  ASSUME NEW exponent \in Int
  PROVE  /\ ClosestPrefix(exponent) \in Range(SortedUnits)
         /\ ClosestPrefix(exponent) >= exponent \/ ClosestPrefix(exponent) = Largest
<1>1. PICK n \in Nat : n = Len(SortedUnits) /\ n > 0
  BY NumbersAssumption
<1>2. PICK c \in 0..(n - 1) : c = Candidate(exponent)
        /\ (c = n - 1 \/ SortedUnits[c + 1] >= exponent \/ SortedUnits[c + 2] > exponent)
  BY <1>1, CandidateIs
<1>3. \A i \in 1..n : SortedUnits[i] \in Int /\ SortedUnits[i] \in Range(SortedUnits)
  BY <1>1, NumbersAssumption DEF Range
<1>4. ClosestPrefix(exponent) = IF c >= n - 1 THEN Largest
                                ELSE IF SortedUnits[c + 1] >= exponent THEN SortedUnits[c + 1]
                                ELSE SortedUnits[c + 2]
  BY <1>1, <1>2 DEF ClosestPrefix
<1>5. CASE c >= n - 1
  <2>1. n \in 1..n /\ Largest = SortedUnits[n]
    BY <1>1 DEF Largest
  <2>2. Largest \in Range(SortedUnits)
    BY <1>3, <2>1
  <2> QED BY <1>4, <1>5, <2>2
<1>6. CASE ~(c >= n - 1)
  <2>1. c + 1 \in 1..n /\ c + 2 \in 1..n
    BY <1>6
  <2>2. SortedUnits[c + 1] >= exponent \/ SortedUnits[c + 2] > exponent
    BY <1>2, <1>6
  <2> QED BY <1>3, <1>4, <1>6, <2>1, <2>2
<1> QED BY <1>5, <1>6

-----------------------------------------------------------------------------
(* How many digits are left before the dot. *)
LEMMA StripsAtLeast ==
  ASSUME NEW d \in Seq(Digit), NEW z \in 0..Len(d), \A i \in 1..z : d[i] = 0
  PROVE  Len(ZeroStripLeft(d)) <= Len(d) - z
<1> DEFINE s == ZeroStripLeft(d)
<1>1. s \in Seq(Digit) /\ (s = <<>> \/ s[1] # 0)
  BY Stripped
<1>2. PICK n \in Nat : d = Zeros(n) \o s
  BY Stripped
<1> HIDE DEF s
<1>3. Len(d) = n + Len(s) /\ \A i \in 1..(n + Len(s)) : d[i] = IF i <= n THEN 0 ELSE s[i - n]
  BY <1>1, <1>2, Padded
<1>4. Len(s) \in Nat
  BY <1>1
<1>5. CASE s = <<>>
  BY <1>3, <1>4, <1>5, ValueOfNone DEF s
<1>6. CASE s # <<>>
  <2>1. Len(s) > 0 /\ s[1] # 0
    BY <1>1, <1>6
  <2>2. n + 1 \in 1..(n + Len(s)) /\ (n + 1) - n = 1 /\ ~(n + 1 <= n)
    BY <1>4, <2>1
  <2>3. d[n + 1] = s[1]
    BY <1>3, <2>2
  <2>4. ~(n + 1 \in 1..z)
    BY <2>1, <2>3
  <2>5. z <= n
    BY <2>4
  <2> QED BY <1>3, <1>4, <2>5 DEF s
<1> QED BY <1>5, <1>6

LEMMA MovedRight ==
  ASSUME NEW num \in Numerals, NEW by \in Nat
  PROVE  LET s == ShiftRight(num, by).int IN
         /\ s \in Seq(Digit) /\ Len(s) = Len(num.int) + by
         /\ num.int = <<>> => \A i \in 1..by : s[i] = IF i <= Len(num.dec) THEN num.dec[i] ELSE 0
<1> DEFINE int == num.int
           dec == num.dec
           s == ShiftRight(num, by).int
<1>0. int \in Seq(Digit) /\ dec \in Seq(Digit) /\ num = [neg |-> num.neg, int |-> int, dec |-> dec]
  BY DEF Numerals
<1>1. Len(int) \in Nat /\ Len(dec) \in Nat
  BY <1>0
<1>2. PICK t \in Seq(Digit) : /\ s = int \o t /\ Len(t) = by
                              /\ \A i \in 1..by : t[i] = IF i <= Len(dec) THEN dec[i] ELSE 0
  <2>1. CASE Len(dec) <= by
    <3> DEFINE n == by - Len(dec)
    <3>1. n \in Nat /\ Len(dec) + n = by
      BY <1>1, <2>1
    <3>2. s = (int \o dec) \o Zeros(n)
      BY <1>0, <2>1 DEF ShiftRight
    <3> HIDE DEF n, s, int, dec
    <3>3. Zeros(n) \in Seq(Digit)
      BY <3>1, ValueOfZeros
    <3>4. s = int \o (dec \o Zeros(n))
      BY <1>0, <3>2, <3>3, Associative
    <3>5. dec \o Zeros(n) \in Seq(Digit) /\ Len(dec \o Zeros(n)) = by
          /\ \A i \in 1..by : (dec \o Zeros(n))[i] = IF i <= Len(dec) THEN dec[i] ELSE 0
      BY <1>0, <3>1, Padded
    <3> QED BY <3>4, <3>5
  <2>2. CASE ~(Len(dec) <= by)
    <3>1. s = int \o SubSeq(dec, 1, by)
      BY <1>0, <2>2 DEF ShiftRight
    <3> HIDE DEF s, int, dec
    <3>2. \A d \in Seq(Digit) : by <= Len(d) => SubSeq(d, 1, by) \in Seq(Digit) /\ Len(SubSeq(d, 1, by)) = by
                                                /\ \A i \in 1..by : SubSeq(d, 1, by)[i] = d[i] /\ i <= Len(d)
      OBVIOUS
    <3>3. by <= Len(dec)
      BY <1>1, <2>2
    <3> QED BY <1>0, <3>1, <3>2, <3>3
  <2> QED BY <2>1, <2>2
<1> HIDE DEF s, int, dec
<1>3. s \in Seq(Digit) /\ Len(s) = Len(int) + by
  <2>1. \A a, b \in Seq(Digit) : a \o b \in Seq(Digit) /\ Len(a \o b) = Len(a) + Len(b)
    OBVIOUS
  <2> QED BY <1>0, <1>2, <2>1
<1>4. int = <<>> => s = t
  BY <1>2, ConcatEmptySeq
<1> QED BY <1>2, <1>3, <1>4 DEF s, int, dec

LEMMA MovedLeft ==
  ASSUME NEW num \in Numerals, NEW by \in Nat
  PROVE  LET s == ShiftLeft(num, by).int IN
         s \in Seq(Digit) /\ Len(s) = IF Len(num.int) - by <= 0 THEN 0 ELSE Len(num.int) - by
<1> DEFINE int == num.int
           s == ShiftLeft(num, by).int
           pivot == Len(int) - by
<1>0. int \in Seq(Digit) /\ num = [neg |-> num.neg, int |-> int, dec |-> num.dec]
  BY DEF Numerals
<1>1. s = IF pivot <= 0 THEN <<>> ELSE SubSeq(int, 1, pivot)
  BY <1>0 DEF ShiftLeft
<1>2. Len(int) \in Nat /\ pivot \in Int /\ pivot <= Len(int)
  BY <1>0
<1> HIDE DEF s, int
<1>3. CASE pivot <= 0
  BY <1>1, <1>3, ValueOfNone DEF s, int
<1>4. CASE ~(pivot <= 0)
  <2>1. \A d \in Seq(Digit), n \in Nat : n <= Len(d) => SubSeq(d, 1, n) \in Seq(Digit) /\ Len(SubSeq(d, 1, n)) = n
    OBVIOUS
  <2>2. pivot \in Nat
    BY <1>2, <1>4
  <2>3. s \in Seq(Digit) /\ Len(s) = pivot
    <3> HIDE DEF pivot
    <3> QED BY <1>0, <1>1, <1>2, <1>4, <2>1, <2>2
  <2> QED BY <1>4, <2>3 DEF s, int
<1> QED BY <1>3, <1>4

(* optimizeScale: at the exponent it computes, or above, a number has no   *)
(* more digits before the dot than were asked for.                         *)
LEMMA Fits ==
  ASSUME NEW num \in Numerals, NEW exponent \in Int, NEW most \in Nat \ {0}, NEW to \in Int,
         to >= OptimalExponent(num, exponent, most)
  PROVE  Len(Convert(num, exponent, to).int) <= most
<1> DEFINE int == num.int
           dec == num.dec
           relevant == ZeroStripLeft(dec)
           q == Len(dec) - Len(relevant)
<1>0. int \in Seq(Digit) /\ dec \in Seq(Digit) /\ Len(int) \in Nat /\ Len(dec) \in Nat
      /\ (int # <<>> <=> Len(int) > 0)
  BY DEF Numerals
<1>1. relevant \in Seq(Digit) /\ q \in Nat /\ q <= Len(dec) /\ \A i \in 1..q : dec[i] = 0
  <2>1. PICK n \in Nat : dec = Zeros(n) \o relevant
    BY <1>0, Stripped
  <2>2. relevant \in Seq(Digit)
    BY <1>0, Stripped
  <2> HIDE DEF relevant, dec
  <2>3. Len(dec) = n + Len(relevant) /\ \A i \in 1..(n + Len(relevant)) : dec[i] = IF i <= n THEN 0 ELSE relevant[i - n]
    BY <2>1, <2>2, Padded
  <2>4. Len(relevant) \in Nat
    BY <2>2
  <2>5. q = n
    BY <2>3, <2>4
  <2>6. \A i \in 1..n : i \in 1..(n + Len(relevant)) /\ i <= n
    BY <2>4
  <2> HIDE DEF q
  <2> QED BY <2>2, <2>3, <2>4, <2>5, <2>6
<1>2. to >= IF int # <<>> THEN exponent + Len(int) - most ELSE IF q > 0 THEN exponent - q - 1 ELSE exponent
  <2>1. OptimalExponent(num, exponent, most) =
          IF int # <<>> THEN exponent + Len(int) - most
          ELSE IF Len(dec) > Len(relevant) THEN exponent + Len(relevant) - Len(dec) - 1 ELSE exponent
    BY DEF OptimalExponent
  <2>2. Len(relevant) \in Nat
    BY <1>1
  <2>3. (Len(dec) > Len(relevant) <=> q > 0) /\ exponent + Len(relevant) - Len(dec) - 1 = exponent - q - 1
    <3> HIDE DEF relevant, dec
    <3> QED BY <1>0, <2>2
  <2> HIDE DEF q, relevant
  <2> QED BY <2>1, <2>3
<1> HIDE DEF q, relevant
<1>3. CASE exponent >= to
  <2>1. PICK by \in Nat : by = exponent - to
    BY <1>3
  <2> DEFINE s == ShiftRight(num, by).int
  <2>2. s \in Seq(Digit) /\ Len(s) = Len(int) + by
        /\ (int = <<>> => \A i \in 1..by : s[i] = IF i <= Len(dec) THEN dec[i] ELSE 0)
    BY <2>1, MovedRight
  <2>3. Convert(num, exponent, to).int = ZeroStripLeft(s)
    BY <1>3, <2>1 DEF Convert, Normalize
  <2> HIDE DEF s, int, dec
  <2>4. CASE int # <<>>
    <3>1. Len(int) + by <= most
      BY <1>0, <1>2, <2>1, <2>4
    <3>2. Len(ZeroStripLeft(s)) <= Len(s) - 0
      <4>1. 0 \in 0..Len(s) /\ \A i \in 1..0 : s[i] = 0
        BY <2>2
      <4> QED BY <2>2, <4>1, StripsAtLeast
    <3>3. Len(ZeroStripLeft(s)) \in Nat
      BY <2>2, Stripped
    <3> QED BY <1>0, <2>1, <2>2, <2>3, <3>1, <3>2, <3>3
  <2>5. CASE int = <<>>
    <3>1. Len(s) = by /\ by <= q + 1
      BY <1>0, <1>1, <1>2, <2>1, <2>2, <2>5
    <3>2. PICK z \in 0..by : z <= q /\ by - z <= 1
      <4>1. CASE by <= q
        <5>1. by \in 0..by /\ by <= q /\ by - by <= 1
          BY <4>1
        <5> QED BY <5>1
      <4>2. CASE ~(by <= q)
        <5>1. q \in 0..by /\ q <= q /\ by - q <= 1
          BY <1>1, <3>1, <4>2
        <5> QED BY <5>1
      <4> QED BY <4>1, <4>2
    <3>3. ASSUME NEW i \in 1..z PROVE s[i] = 0
      <4>1. i \in 1..by /\ i \in 1..q /\ i <= Len(dec)
        BY <1>0, <1>1, <3>2
      <4> QED BY <1>1, <2>2, <2>5, <4>1
    <3>4. Len(ZeroStripLeft(s)) <= Len(s) - z
      BY <2>2, <3>1, <3>3, StripsAtLeast
    <3>5. Len(ZeroStripLeft(s)) \in Nat
      BY <2>2, Stripped
    <3> QED BY <2>3, <3>1, <3>2, <3>4, <3>5
  <2> QED BY <2>4, <2>5
<1>4. CASE ~(exponent >= to)
  <2>1. PICK by \in Nat : by = to - exponent
    BY <1>4
  <2> DEFINE s == ShiftLeft(num, by).int
  <2>2. s \in Seq(Digit) /\ Len(s) = IF Len(int) - by <= 0 THEN 0 ELSE Len(int) - by
    BY <2>1, MovedLeft
  <2>3. Convert(num, exponent, to).int = ZeroStripLeft(s)
    BY <1>4, <2>1 DEF Convert, Normalize
  <2> HIDE DEF s, int, dec
  <2>4. Len(ZeroStripLeft(s)) <= Len(s) - 0
    <3>1. 0 \in 0..Len(s) /\ \A i \in 1..0 : s[i] = 0
      BY <2>2
    <3> QED BY <2>2, <3>1, StripsAtLeast
  <2>5. Len(ZeroStripLeft(s)) \in Nat
    BY <2>2, Stripped
  <2>6. Len(s) <= most
    BY <1>0, <1>2, <2>1, <2>2
  <2>7. Len(s) \in Nat
    BY <2>2
  <2> QED BY <2>3, <2>4, <2>5, <2>6, <2>7
<1> QED BY <1>3, <1>4

-----------------------------------------------------------------------------
(* What is shown of an amount: its decimals, cut or padded with zeros. *)
LEMMA FixedIs ==
  ASSUME NEW num \in Numerals, NEW decimals \in Nat
  PROVE  LET fixed == FixedDecimals(num, decimals) IN
         /\ fixed \in Seq(Digit) /\ Len(fixed) = decimals
         /\ Len(num.dec) <= decimals => fixed = num.dec \o Zeros(decimals - Len(num.dec))
         /\ Len(num.dec) > decimals => fixed = SubSeq(num.dec, 1, decimals)
<1> DEFINE dec == num.dec
           padded == dec \o Zeros(decimals)
           fixed == FixedDecimals(num, decimals)
<1>1. dec \in Seq(Digit) /\ Len(dec) \in Nat
  BY DEF Numerals
<1>2. fixed = SubSeq(padded, 1, decimals)
  BY DEF FixedDecimals
<1> HIDE DEF dec, fixed
<1>3. padded \in Seq(Digit) /\ Len(padded) = Len(dec) + decimals
      /\ \A i \in 1..(Len(dec) + decimals) : padded[i] = IF i <= Len(dec) THEN dec[i] ELSE 0
  BY <1>1, Padded
<1> HIDE DEF padded
<1>4. \A d \in Seq(Digit) : decimals <= Len(d) => SubSeq(d, 1, decimals) \in Seq(Digit) /\ Len(SubSeq(d, 1, decimals)) = decimals
                                                  /\ \A i \in 1..decimals : SubSeq(d, 1, decimals)[i] = d[i]
  OBVIOUS
<1>5. fixed \in Seq(Digit) /\ Len(fixed) = decimals
      /\ \A i \in 1..decimals : fixed[i] = IF i <= Len(dec) THEN dec[i] ELSE 0
  <2>1. decimals <= Len(padded) /\ \A i \in 1..decimals : i \in 1..(Len(dec) + decimals)
    BY <1>1, <1>3
  <2> QED BY <1>2, <1>3, <1>4, <2>1
<1>e. \A s, t \in Seq(Digit) : Len(s) = Len(t) /\ (\A i \in 1..Len(s) : s[i] = t[i]) => s = t
  BY SeqEqual
<1>6. ASSUME Len(dec) <= decimals PROVE fixed = dec \o Zeros(decimals - Len(dec))
  <2>1. PICK n \in Nat : n = decimals - Len(dec) /\ Len(dec) + n = decimals
    BY <1>1, <1>6
  <2>2. dec \o Zeros(n) \in Seq(Digit) /\ Len(dec \o Zeros(n)) = decimals
        /\ \A i \in 1..decimals : (dec \o Zeros(n))[i] = IF i <= Len(dec) THEN dec[i] ELSE 0
    <3>1. dec \o Zeros(n) \in Seq(Digit) /\ Len(dec \o Zeros(n)) = Len(dec) + n
          /\ \A i \in 1..(Len(dec) + n) : (dec \o Zeros(n))[i] = IF i <= Len(dec) THEN dec[i] ELSE 0
      BY <1>1, Padded
    <3> QED BY <2>1, <3>1
  <2>3. fixed = dec \o Zeros(n)
    BY <1>5, <1>e, <2>2
  <2> QED BY <2>1, <2>3
<1>7. ASSUME Len(dec) > decimals PROVE fixed = SubSeq(dec, 1, decimals)
  <2>1. decimals <= Len(dec) /\ \A i \in 1..decimals : i <= Len(dec)
    BY <1>1, <1>7
  <2> QED BY <1>1, <1>4, <1>5, <1>e, <2>1
<1> QED BY <1>5, <1>6, <1>7 DEF dec, fixed

LEMMA Quotients ==
  ASSUME NEW a \in Nat, NEW b \in Nat, NEW c \in Nat, NEW d \in Nat, NEW e \in Nat,
         d > 0, a * d + e = b * d, e < c * d
  PROVE  a <= b /\ b < a + c
<1>1. \A i, j, k \in Nat : k > 0 => (i * k <= j * k <=> i <= j) /\ (i * k < j * k <=> i < j)
  OBVIOUS
<1>2. (a + c) * d = a * d + c * d /\ a * d \in Nat /\ b * d \in Nat /\ c * d \in Nat /\ a + c \in Nat
  OBVIOUS
<1>3. \A i, j, k, l \in Nat : i + j = k /\ j < l => i <= k /\ k < i + l
  OBVIOUS
<1>4. a * d <= b * d /\ b * d < (a + c) * d
  BY <1>2, <1>3
<1> QED BY <1>1, <1>2, <1>4

(* What is cut is less than the last decimal shown. *)
LEMMA CutIs ==
  ASSUME NEW num \in Numerals, NEW exponent \in Int, NEW decimals \in 0..(exponent - Smallest),
         NEW abs \in Nat, Magnitude(num, exponent, abs), NEW shown \in Nat,
         shown = Value(num.int \o FixedDecimals(num, decimals)) * TenTo[exponent - decimals - Smallest]
  PROVE  shown <= abs /\ abs - shown < TenTo[exponent - decimals - Smallest]
<1> DEFINE int == num.int
           dec == num.dec
           fixed == FixedDecimals(num, decimals)
<1>k. PICK k \in Nat : k = exponent - decimals - Smallest
  BY SmallestIs
<1>0. int \in Seq(Digit) /\ dec \in Seq(Digit) /\ Len(dec) \in Nat /\ decimals \in Nat
  BY SmallestIs DEF Numerals
<1>1. /\ fixed \in Seq(Digit) /\ Len(fixed) = decimals
      /\ Len(dec) <= decimals => fixed = dec \o Zeros(decimals - Len(dec))
      /\ Len(dec) > decimals => fixed = SubSeq(dec, 1, decimals)
  BY <1>0, FixedIs
<1>2. exponent - Smallest - Len(dec) = k + decimals - Len(dec)
  BY <1>0, <1>k, SmallestIs
<1>3. Scaled(Value(int \o dec), k + decimals - Len(dec), abs)
  BY <1>2 DEF Magnitude
<1>4. shown = Value(int \o fixed) * TenTo[k]
  BY <1>k
<1> HIDE DEF int, dec, fixed
<1>5. PICK u \in Nat : u = Value(int \o fixed)
  <2>1. int \o fixed \in Seq(Digit)
    BY <1>0, <1>1, Concats
  <2> QED BY <2>1, ValueType
<1>t. \A m \in Nat : TenTo[m] \in Nat /\ TenTo[m] > 0
  BY TenToIs, TenToAdds
<1>6. int \o dec \in Seq(Digit)
  BY <1>0, Concats
<1>7. CASE Len(dec) <= decimals
  <2>1. PICK z \in Nat : z = decimals - Len(dec)
    BY <1>0, <1>7
  <2>z. Zeros(z) \in Seq(Digit) /\ Len(Zeros(z)) = z /\ Value(Zeros(z)) = 0
    BY ValueOfZeros
  <2>2. int \o fixed = (int \o dec) \o Zeros(z)
    <3>1. fixed = dec \o Zeros(z)
      BY <1>0, <1>1, <1>7, <2>1
    <3>2. int \o (dec \o Zeros(z)) = (int \o dec) \o Zeros(z)
      BY <1>0, <2>z, Associative
    <3> QED BY <3>1, <3>2
  <2>v. PICK v \in Nat : v = Value(int \o dec)
    BY <1>6, ValueType
  <2>3. u = v * TenTo[z]
    <3>1. Value((int \o dec) \o Zeros(z)) = v * TenTo[z] + 0
      BY <1>6, <2>v, <2>z, ValueConcat
    <3>2. \A a, b \in Nat : a * b + 0 = a * b
      OBVIOUS
    <3> QED BY <1>5, <1>t, <2>2, <3>1, <3>2
  <2>4. Scaled(u, k, abs)
    <3>1. Scaled(v, k + z, abs)
      <4>1. k + decimals - Len(dec) = k + z
        BY <1>0, <2>1
      <4> QED BY <1>3, <2>v, <4>1
    <3>2. k + z \in Int /\ (k + z) - z = k
      OBVIOUS
    <3>3. Scaled(v * TenTo[z], (k + z) - z, abs)
      BY <3>1, <3>2, ScaledBy
    <3> QED BY <2>3, <3>2, <3>3
  <2>5. abs = u * TenTo[k]
    BY <2>4 DEF Scaled
  <2>6. shown = abs
    BY <1>4, <1>5, <2>5
  <2> QED BY <1>k, <1>t, <2>6
<1>8. CASE ~(Len(dec) <= decimals)
  <2>1. decimals \in 0..Len(dec)
    BY <1>0, <1>8
  <2>2. PICK rest \in Seq(Digit) : dec = fixed \o rest /\ Len(rest) = Len(dec) - decimals
    <3>1. fixed = SubSeq(dec, 1, decimals)
      BY <1>0, <1>1, <1>8
    <3> QED BY <1>0, <2>1, <3>1, Split
  <2>r. PICK r \in Nat : r = Len(rest)
    <3>1. Len(rest) \in Nat
      BY <2>2
    <3> QED BY <3>1
  <2>3. PICK y \in Nat : y = Value(rest) /\ y < TenTo[r]
    BY <2>2, <2>r, ValueType, ValueBound
  <2>4. Value(int \o dec) = u * TenTo[r] + y
    <3>1. int \o dec = (int \o fixed) \o rest
      <4>1. fixed \in Seq(Digit) /\ int \in Seq(Digit)
        BY <1>0, <1>1
      <4>2. int \o (fixed \o rest) = (int \o fixed) \o rest
        BY <4>1, Associative
      <4> QED BY <2>2, <4>2
    <3>2. int \o fixed \in Seq(Digit)
      BY <1>0, <1>1, Concats
    <3> QED BY <1>5, <2>2, <2>r, <2>3, <3>1, <3>2, ValueConcat
  <2>5. Scaled(u * TenTo[r] + y, k - r, abs)
    <3>1. k + decimals - Len(dec) = k - r
      BY <1>0, <2>2, <2>r
    <3> QED BY <1>3, <2>4, <3>1
  <2>m. \A a, b, c \in Nat : c > 0 => (a * c <= b * c <=> a <= b) /\ (a * c < b * c <=> a < b)
    OBVIOUS
  <2>6. CASE k - r >= 0
    <3>1. PICK p \in Nat : p = TenTo[k - r] /\ p > 0 /\ TenTo[k] = TenTo[r] * p
      <4>1. k - r \in Nat /\ r + (k - r) = k
        BY <2>6
      <4>2. TenTo[r + (k - r)] = TenTo[r] * TenTo[k - r]
        BY <4>1, TenToAdds
      <4> QED BY <1>t, <4>1, <4>2
    <3>2. PICK x \in Nat : x = TenTo[r]
      BY <1>t
    <3>3. abs = (u * x + y) * p /\ shown = u * (x * p) /\ y < x
      BY <1>4, <1>5, <2>3, <2>5, <2>6, <3>1, <3>2 DEF Scaled
    <3>4. \A a, b, c, d \in Nat : (a * b + c) * d = a * (b * d) + c * d /\ c * d \in Nat /\ b * d \in Nat
      OBVIOUS
    <3>5. y * p < x * p
      BY <2>m, <3>1, <3>3
    <3>6. abs = shown + y * p /\ y * p \in Nat /\ x * p \in Nat
      BY <3>3, <3>4
    <3>7. TenTo[k] = x * p
      BY <3>1, <3>2
    <3>8. \A a, b, c, d \in Nat : a = b + c /\ c < d => b <= a /\ a - b < d
      OBVIOUS
    <3> QED BY <1>k, <3>5, <3>6, <3>7, <3>8
  <2>7. CASE ~(k - r >= 0)
    <3>1. PICK p \in Nat : p = TenTo[-(k - r)] /\ p > 0 /\ TenTo[r] = TenTo[k] * p
      <4>1. -(k - r) \in Nat /\ k + (-(k - r)) = r
        BY <2>7
      <4>2. TenTo[k + (-(k - r))] = TenTo[k] * TenTo[-(k - r)]
        BY <4>1, TenToAdds
      <4> QED BY <1>t, <4>1, <4>2
    <3>2. PICK x \in Nat : x = TenTo[k]
      BY <1>t
    <3>3. u * (x * p) + y = abs * p /\ shown = u * x /\ y < x * p
      BY <1>4, <1>5, <2>3, <2>5, <2>7, <3>1, <3>2 DEF Scaled
    <3>4. u * (x * p) = (u * x) * p
      OBVIOUS
    <3>5. shown * p + y = abs * p
      BY <3>3, <3>4
    <3>6. shown <= abs /\ abs < shown + x
      BY <3>1, <3>3, <3>5, Quotients
    <3> QED BY <1>k, <3>2, <3>6
  <2> QED BY <2>6, <2>7
<1> QED BY <1>7, <1>8

(* What is shown of a number is cut towards zero. *)
LEMMA ShownIs ==
  ASSUME NEW num \in Numerals, NEW exponent \in Int, NEW decimals \in 0..(exponent - Smallest),
         NEW w, Measures(num, exponent, w)
  PROVE  LET shown == Worth([num EXCEPT !.dec = FixedDecimals(num, decimals)], exponent)
             lost  == IF w < 0 THEN shown - w ELSE w - shown IN
         0 <= lost /\ lost < TenTo[exponent - decimals - Smallest]
<1>1. PICK fixed \in Seq(Digit) : fixed = FixedDecimals(num, decimals) /\ Len(fixed) = decimals
  <2>1. decimals \in Nat
    BY SmallestIs
  <2> QED BY <2>1, FixedIs
<1>2. PICK cut \in Numerals : /\ cut = [num EXCEPT !.dec = FixedDecimals(num, decimals)]
                              /\ cut.int = num.int /\ cut.dec = fixed /\ cut.neg = num.neg
  <2>1. num = [neg |-> num.neg, int |-> num.int, dec |-> num.dec] /\ num.neg \in BOOLEAN /\ num.int \in Seq(Digit)
    BY DEF Numerals
  <2>2. [num EXCEPT !.dec = fixed] = [neg |-> num.neg, int |-> num.int, dec |-> fixed]
    BY <2>1
  <2>3. [neg |-> num.neg, int |-> num.int, dec |-> fixed] \in Numerals
    BY <1>1, <2>1 DEF Numerals
  <2> QED BY <1>1, <2>2, <2>3
<1>3. Representable(cut, exponent) /\ exponent >= Smallest
  BY <1>1, <1>2, SmallestIs DEF Representable
<1>4. PICK shown \in Nat : /\ Magnitude(cut, exponent, shown)
                           /\ Worth(cut, exponent) = IF num.neg THEN -shown ELSE shown
  <2>1. Measures(cut, exponent, Worth(cut, exponent))
    BY <1>3, WorthIs
  <2> QED BY <1>2, <2>1 DEF Measures
<1>5. PICK abs \in Nat : Magnitude(num, exponent, abs) /\ w = IF num.neg THEN -abs ELSE abs
  BY DEF Measures
<1>k. PICK k \in Nat : k = exponent - decimals - Smallest /\ k = exponent - Smallest - Len(cut.dec)
  BY <1>1, <1>2, SmallestIs
<1>6. shown = Value(num.int \o FixedDecimals(num, decimals)) * TenTo[k]
  <2>1. Scaled(Value(num.int \o FixedDecimals(num, decimals)), k, shown)
    BY <1>1, <1>2, <1>4, <1>k DEF Magnitude
  <2> QED BY <2>1 DEF Scaled
<1>7. shown <= abs /\ abs - shown < TenTo[k]
  BY <1>5, <1>6, <1>k, CutIs
<1>8. TenTo[k] \in Nat
  BY TenToIs
<1> DEFINE s == Worth(cut, exponent)
           lost == IF w < 0 THEN s - w ELSE w - s
<1>9. 0 <= lost /\ lost < TenTo[k]
  <2> HIDE DEF s
  <2>1. s = IF num.neg THEN -shown ELSE shown
    BY <1>4 DEF s
  <2> QED BY <1>5, <1>7, <1>8, <2>1
<1> QED BY <1>2, <1>9, <1>k

-----------------------------------------------------------------------------
(* The invariant of the amounts: a number is normal, its prefix is a unit, *)
(* and it measures what it should be worth.                                *)
NumbersHold ==
  /\ Normal(coefficient)
  /\ tenExponent \in Range(SortedUnits)
  /\ worth \in Int /\ Measures(coefficient, tenExponent, worth)
  /\ fitted \in Nat
  /\ fitted > 0 => Len(coefficient.int) <= fitted \/ tenExponent = Largest

(* Every raw numeral, once normalized, measures what it is worth. *)
LEMMA NormalizedIs ==
  ASSUME NEW raw \in Numerals, NEW unit \in Range(SortedUnits), Representable(raw, unit)
  PROVE  /\ Normal(Normalize(raw))
         /\ Worth(raw, unit) \in Int /\ Measures(Normalize(raw), unit, Worth(raw, unit))
<1> DEFINE normal == Normalize(raw)
           w == Worth(raw, unit)
<1>1. unit \in Int /\ unit >= Smallest
  BY SmallestIs
<1>2. PICK abs \in Nat : Magnitude(raw, unit, abs) /\ w = IF raw.neg THEN -abs ELSE abs
  <2>1. Measures(raw, unit, w)
    BY <1>1, WorthIs
  <2> QED BY <2>1 DEF Measures
<1>3. /\ Normal(normal) /\ Magnitude(normal, unit, abs)
      /\ (normal.neg => raw.neg) /\ (raw.neg /\ ~normal.neg => abs = 0)
  BY <1>1, <1>2, NormalizeKeeps
<1> HIDE DEF normal, w
<1>4. w = (IF normal.neg THEN -abs ELSE abs) /\ w \in Int
  BY <1>2, <1>3
<1>5. Measures(normal, unit, w)
  BY <1>3, <1>4 DEF Measures
<1> QED BY <1>3, <1>4, <1>5 DEF normal, w

(* The opposite of a number measures the opposite. *)
LEMMA NegateKeeps ==
  ASSUME NEW num, Normal(num), NEW exponent \in Int, NEW w \in Int, Measures(num, exponent, w)
  PROVE  Normal(Negate(num)) /\ Measures(Negate(num), exponent, -w)
<1>1. PICK abs \in Nat : Magnitude(num, exponent, abs) /\ w = IF num.neg THEN -abs ELSE abs
  BY DEF Measures
<1>2. num.neg \in BOOLEAN /\ num \in Numerals /\ num.int \in Seq(Digit) /\ num.dec \in Seq(Digit)
      /\ num = [neg |-> num.neg, int |-> num.int, dec |-> num.dec]
  BY DEF Normal, Numerals
<1>3. CASE IsZero(num)
  <2>1. num.int = <<>> /\ num.dec = <<>> /\ Negate(num) = num
    BY <1>3 DEF IsZero, Negate
  <2>2. ~num.neg
    BY <2>1 DEF Normal
  <2>3. Scaled(0, exponent - Smallest - 0, abs)
    <3>1. <<>> \o <<>> = <<>>
      BY ConcatEmptySeq, ValueOfNone
    <3> QED BY <1>1, <2>1, <3>1, ValueOfNone DEF Magnitude
  <2>4. abs = 0
    <3>1. exponent - Smallest - 0 \in Int
      BY SmallestIs
    <3> QED BY <2>3, <3>1, ScaledZero
  <2>5. -w = w
    BY <1>1, <2>4
  <2> QED BY <2>1, <2>5
<1>4. CASE ~IsZero(num)
  <2>1. PICK opposite : opposite = Negate(num) /\ opposite = [neg |-> ~num.neg, int |-> num.int, dec |-> num.dec]
    BY <1>2, <1>4 DEF Negate
  <2>2. Normal(opposite)
    <3>1. (~num.neg) \in BOOLEAN
      OBVIOUS
    <3>2. opposite \in Numerals
      BY <1>2, <2>1, <3>1 DEF Numerals
    <3>3. opposite.int = num.int /\ opposite.dec = num.dec /\ (num.int # <<>> \/ num.dec # <<>>)
      BY <1>4, <2>1 DEF IsZero
    <3> QED BY <3>2, <3>3 DEF Normal
  <2>3. Magnitude(opposite, exponent, abs) /\ (opposite.neg <=> ~num.neg)
    <3>1. opposite.int = num.int /\ opposite.dec = num.dec /\ opposite.neg = ~num.neg
      BY <2>1
    <3> QED BY <1>1, <3>1 DEF Magnitude
  <2>4. -w = IF opposite.neg THEN -abs ELSE abs
    BY <1>1, <1>2, <2>3
  <2>5. Measures(opposite, exponent, -w)
    BY <2>3, <2>4 DEF Measures
  <2> QED BY <2>1, <2>2, <2>5
<1> QED BY <1>3, <1>4

LEMMA OptimalIsInt ==
  ASSUME NEW num \in Numerals, NEW exponent \in Int, NEW most \in Nat
  PROVE  OptimalExponent(num, exponent, most) \in Int
<1>1. num.int \in Seq(Digit) /\ num.dec \in Seq(Digit)
  BY DEF Numerals
<1>2. Len(num.int) \in Nat /\ Len(num.dec) \in Nat /\ ZeroStripLeft(num.dec) \in Seq(Digit)
  <2>1. Len(num.int) \in Nat /\ Len(num.dec) \in Nat
    BY <1>1
  <2>2. ZeroStripLeft(num.dec) \in Seq(Digit)
    BY <1>1, Stripped
  <2> QED BY <2>1, <2>2
<1>3. Len(ZeroStripLeft(num.dec)) \in Nat
  <2>1. \A digits \in Seq(Digit) : Len(digits) \in Nat
    OBVIOUS
  <2> QED BY <1>2, <2>1
<1>4. \A a, b, c \in Int : a + b - c \in Int /\ a + b - c - 1 \in Int
  OBVIOUS
<1> QED BY <1>2, <1>3, <1>4 DEF OptimalExponent

LEMMA NumbersStart ==
  ASSUME AlgorithmsInit
  PROVE  NumbersHold
<1>1. CASE about = "numbers"
  <2>1. PICK raw \in Raw, unit \in Range(SortedUnits) :
          Representable(raw, unit) /\ coefficient = Normalize(raw) /\ tenExponent = unit
          /\ worth = Worth(raw, unit) /\ fitted = 0
    BY <1>1 DEF AlgorithmsInit, NumbersInit
  <2>2. raw \in Numerals
    BY NumbersAssumption
  <2> QED BY <2>1, <2>2, NormalizedIs DEF NumbersHold
<1>2. CASE about # "numbers"
  <2>1. PICK zero \in Numerals : zero = [neg |-> FALSE, int |-> <<>>, dec |-> <<>>]
                                 /\ zero.int = <<>> /\ zero.dec = <<>> /\ ~zero.neg
    <3>1. \A int, dec \in Seq(Digit) : [neg |-> FALSE, int |-> int, dec |-> dec] \in Numerals
      BY DEF Numerals
    <3>2. [neg |-> FALSE, int |-> <<>>, dec |-> <<>>] \in Numerals
      BY <3>1, ValueOfNone
    <3> QED BY <3>2
  <2>2. coefficient = Normalize(zero) /\ tenExponent = Smallest /\ worth = 0 /\ fitted = 0
    BY <1>2, <2>1 DEF AlgorithmsInit
  <2>3. Normal(zero)
    BY <2>1 DEF Normal
  <2>4. coefficient = zero
    BY <2>2, <2>3, NormalIsNormalized
  <2>5. Smallest \in Range(SortedUnits)
    BY NumbersAssumption DEF Smallest, Range
  <2>6. Measures(zero, Smallest, 0)
    <3>1. Magnitude(zero, Smallest, 0)
      BY <2>1, ValueOfNone, WholeIs
    <3> QED BY <2>1, <3>1 DEF Measures
  <2> QED BY <2>2, <2>3, <2>4, <2>5, <2>6 DEF NumbersHold
<1> QED BY <1>1, <1>2

LEMMA NumbersStep ==
  ASSUME NumbersHold, NumbersNext
  PROVE  NumbersHold'
<1>1. /\ coefficient \in Numerals /\ Normal(coefficient) /\ tenExponent \in Int
      /\ tenExponent \in Range(SortedUnits) /\ worth \in Int /\ Measures(coefficient, tenExponent, worth)
  BY SmallestIs DEF NumbersHold, Normal
<1>2. ASSUME NEW unit \in Range(SortedUnits), ConvertTo(unit) PROVE NumbersHold'
  <2>1. coefficient' = Convert(coefficient, tenExponent, unit) /\ tenExponent' = unit /\ fitted' = 0 /\ worth' = worth
    BY <1>2 DEF ConvertTo
  <2>2. unit \in Int
    BY SmallestIs
  <2> QED BY <1>1, <2>1, <2>2, ConvertKeeps DEF NumbersHold
<1>3. ASSUME NEW maxDigits \in 1..MaxDigits, OptimizeScale(maxDigits) PROVE NumbersHold'
  <2>1. PICK optimal : optimal = OptimalExponent(coefficient, tenExponent, maxDigits)
    OBVIOUS
  <2>2. PICK unit : unit = ClosestPrefix(optimal)
    OBVIOUS
  <2>3. coefficient' = Convert(coefficient, tenExponent, unit) /\ tenExponent' = unit /\ fitted' = maxDigits /\ worth' = worth
    BY <1>3, <2>1, <2>2 DEF OptimizeScale
  <2>m. maxDigits \in Nat \ {0}
    BY NumbersAssumption
  <2>4. optimal \in Int
    BY <1>1, <2>1, <2>m, OptimalIsInt
  <2>5. unit \in Range(SortedUnits) /\ (unit >= optimal \/ unit = Largest)
    BY <2>2, <2>4, ClosestIs
  <2>6. unit \in Int
    BY <2>5, SmallestIs
  <2>7. Normal(coefficient') /\ Measures(coefficient', tenExponent', worth')
    BY <1>1, <2>3, <2>6, ConvertKeeps
  <2>8. unit # Largest => Len(coefficient'.int) <= maxDigits
    BY <1>1, <2>1, <2>3, <2>5, <2>6, <2>m, Fits
  <2> QED BY <1>1, <2>3, <2>5, <2>7, <2>8, <2>m DEF NumbersHold
<1>4. ASSUME NegateAmount PROVE NumbersHold'
  <2>1. coefficient' = Negate(coefficient) /\ worth' = -worth /\ tenExponent' = tenExponent /\ fitted' = 0
    BY <1>4 DEF NegateAmount
  <2> QED BY <1>1, <2>1, NegateKeeps DEF NumbersHold
<1>5. ASSUME NEW raw \in Addends, NEW unit \in Range(SortedUnits), NEW negated \in BOOLEAN, Add(raw, unit, negated)
      PROVE  NumbersHold'
  <2> DEFINE other == IF negated THEN Negate(Normalize(raw)) ELSE Normalize(raw)
             more == IF negated THEN -Worth(raw, unit) ELSE Worth(raw, unit)
             sum == Canonical(coefficient, tenExponent) + Canonical(other, unit)
  <2>1. /\ Representable(raw, unit)
        /\ coefficient' = Convert(FromInteger(sum), Smallest, tenExponent)
        /\ worth' = worth + more /\ fitted' = 0 /\ tenExponent' = tenExponent
    BY <1>5 DEF Add
  <2>2. raw \in Numerals /\ unit \in Int
    BY NumbersAssumption, SmallestIs
  <2>3. Normal(other) /\ more \in Int /\ Measures(other, unit, more)
    <3>1. Normal(Normalize(raw)) /\ Worth(raw, unit) \in Int /\ Measures(Normalize(raw), unit, Worth(raw, unit))
      BY <2>1, <2>2, NormalizedIs
    <3> QED BY <2>2, <3>1, NegateKeeps
  <2> HIDE DEF other, more
  <2>4. Canonical(other, unit) = more
    <3>1. other \in Numerals
      BY <2>3 DEF Normal
    <3> QED BY <2>2, <2>3, <3>1, CanonicalIs
  <2>5. Canonical(coefficient, tenExponent) = worth
    BY <1>1, CanonicalIs
  <2>6. sum = worth + more /\ sum \in Int
    BY <1>1, <2>3, <2>4, <2>5
  <2> HIDE DEF sum
  <2>7. FromInteger(sum) \in Numerals /\ Measures(FromInteger(sum), Smallest, sum)
    BY <2>6, FromIntegerIs DEF Normal
  <2>8. Normal(coefficient') /\ Measures(coefficient', tenExponent, sum)
    BY <1>1, <2>1, <2>7, SmallestIs, ConvertKeeps
  <2> QED BY <1>1, <2>1, <2>6, <2>8 DEF NumbersHold
<1> QED BY <1>2, <1>3, <1>4, <1>5 DEF NumbersNext

LEMMA NumbersAreExact == NumbersHold => AmountsAreExact
<1> SUFFICES ASSUME NumbersHold PROVE AmountsAreExact
  OBVIOUS
<1>1. /\ coefficient \in Numerals /\ Normal(coefficient) /\ tenExponent \in Int
      /\ Measures(coefficient, tenExponent, worth)
  BY SmallestIs DEF NumbersHold, Normal
<1>2. Canonical(coefficient, tenExponent) = worth /\ HasCanonical(coefficient, tenExponent)
  BY <1>1, CanonicalIs
<1>3. coefficient = Normalize(coefficient)
  BY <1>1, NormalIsNormalized
<1>4. fitted > 0 => Len(coefficient.int) <= fitted \/ tenExponent = Largest
  BY DEF NumbersHold
<1>5. ASSUME NEW decimals \in 0..(tenExponent - Smallest)
      PROVE  LET lost == IF worth < 0 THEN Shown(decimals) - worth ELSE worth - Shown(decimals) IN
             0 <= lost /\ lost < TenTo[tenExponent - decimals - Smallest]
  BY <1>1, ShownIs DEF Shown
<1> QED BY <1>2, <1>3, <1>4, <1>5 DEF AmountsAreExact

(* An amount is worth exactly what it should be, whatever conversions,     *)
(* rescalings, negations and additions made it, from any numerals and for  *)
(* any units (node-api's numbers.ts and Currency.ts).                      *)
THEOREM AmountsStayExact == AlgorithmsSpec => []AmountsAreExact
<1>1. AlgorithmsInit => NumbersHold
  BY NumbersStart
<1>2. NumbersHold /\ [AlgorithmsNext]_algorithmsVars => NumbersHold'
  <2> SUFFICES ASSUME NumbersHold, [AlgorithmsNext]_algorithmsVars PROVE NumbersHold'
    OBVIOUS
  <2>1. CASE NumbersNext
    BY <2>1, NumbersStep
  <2>2. CASE UNCHANGED numbersVars
    BY <2>2 DEF numbersVars, NumbersHold
  <2> QED BY <2>1, <2>2 DEF AlgorithmsNext, algorithmsVars, OnNumbers, OnEstimates, OnTerms
<1>3. NumbersHold => AmountsAreExact
  BY NumbersAreExact
<1> QED BY <1>1, <1>2, <1>3, PTL DEF AlgorithmsSpec
=============================================================================
