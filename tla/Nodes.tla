-------------------------------- MODULE Nodes --------------------------------
(***************************************************************************)
(* packages/client/src/Http.ts and NetworkState.ts: the clients that ask   *)
(* many nodes, and what is remembered of the nodes that did not answer.    *)
(*                                                                         *)
(* A client starts from a copy of a network state, or from a list of legal *)
(* officers, and moves the nodes that fail to its nodesDown.  Operations   *)
(* of the library make a client each and write the network state back,     *)
(* last writer wins; an application may also keep a client, fetch with it  *)
(* several times at once, and have its LogionClient take the state over.   *)
(*                                                                         *)
(* A LogionClient is immutable but for its network state: updateNetwork-   *)
(* State changes it in place and makes another LogionClient, with its own. *)
(***************************************************************************)
EXTENDS Naturals, FiniteSets

CONSTANTS
  NodeSet,       \* one node per legal officer
  HttpClients,   \* clients that may be in use at the same time
  MaxLogion      \* bound: LogionClients made

ASSUME NodesAssumption == MaxLogion \in Nat \ {0}

Fetches == 1..2  \* bound: fetches of one client in flight

LogionClients == 1..MaxLogion

VARIABLES
  logion,        \* LogionClients 1..logion exist
  officers,      \* per LogionClient: the nodes of its legal officers
  origins,       \* per LogionClient: itself, and those it was made from
  network,       \* per LogionClient: nodesUp and nodesDown of its network state
  http,          \* per http client: what it is for, and its own nodes
  untimely       \* the LogionClients that took over the state of a client that was fetching

logionVars == <<logion, officers, origins, network, untimely>>
nodesVars == <<logionVars, http>>

Unused == [use |-> "none", of |-> 0, from |-> {}, up |-> {}, down |-> {},
           asked |-> [f \in Fetches |-> {}]]

(* Who makes a client, and what becomes of its state: VaultClient and      *)
(* RecoveryClient update the network state when they fetch ("update"),     *)
(* LocMultiClient, and those given the legal officers, do not ("fetch");   *)
(* the application's own client ("own"); TransactionClient's, that asks    *)
(* one node after the other ("any").                                       *)
Uses == {"update", "fetch", "own", "any"}

NodesInit ==
  /\ logion = 1
  /\ officers = [l \in LogionClients |-> IF l = 1 THEN NodeSet ELSE {}]
  /\ origins = [l \in LogionClients |-> IF l = 1 THEN {1} ELSE {}]
  /\ network = [l \in LogionClients |-> [up |-> IF l = 1 THEN NodeSet ELSE {}, down |-> {}]]
  /\ http = [c \in HttpClients |-> Unused]
  /\ untimely = {}

(* initMultiSourceHttpClientState *)
InitialState(l, given) ==
  IF given # {} THEN [up |-> given, down |-> {}] ELSE network[l]

BuildHttpClient(c, l, use) ==
  /\ http[c].use = "none"
  /\ \E given \in IF use = "own" THEN {officers[l]}
                  ELSE IF use = "fetch" THEN {{}} \union SUBSET officers[l]
                  ELSE {{}} :
       LET state == InitialState(l, given) IN
       http' = [http EXCEPT ![c] = [Unused EXCEPT !.use = use, !.of = l,
                                      !.from = state.up \union state.down,
                                      !.up = state.up, !.down = state.down]]
  /\ UNCHANGED logionVars

-----------------------------------------------------------------------------
Asked(c) == UNION {http[c].asked[f] : f \in Fetches}

(* MultiSourceHttpClient.fetch up to its await: nodesUp is emptied. *)
Fetch(c, f) ==
  /\ http[c].use \in {"update", "fetch", "own"}
  /\ http[c].use # "own" => f = 1
  /\ http[c].asked[f] = {} /\ http[c].up # {}
  /\ http' = [http EXCEPT ![c].asked[f] = http[c].up, ![c].up = {}]
  /\ UNCHANGED logionVars

(* Mutant of Settle: the nodes that failed are left out. *)
SettleAndForget(client, f, failed) ==
  [client EXCEPT !.asked[f] = {}, !.up = @ \union (client.asked[f] \ failed)]

(* The rest of fetch, once all have answered or failed. *)
Settle(client, f, failed) ==
  [client EXCEPT !.asked[f] = {}, !.up = @ \union (client.asked[f] \ failed),
                 !.down = @ \union failed]

AllSettled(c, f) ==
  /\ http[c].asked[f] # {}
  /\ \E failed \in SUBSET http[c].asked[f] : http' = [http EXCEPT ![c] = Settle(http[c], f, failed)]
  /\ UNCHANGED logionVars

(* VaultClient.fetchAll and RecoveryClient.fetchAll: a client serves once. *)
UpdateNetwork(c) ==
  LET client == http[c] IN
  /\ client.use = "update" /\ Asked(c) = {}
  /\ network' = [network EXCEPT ![client.of] = [up |-> client.up, down |-> client.down]]
  /\ http' = [http EXCEPT ![c] = Unused]
  /\ UNCHANGED <<logion, officers, origins, untimely>>

(* LogionClient.updateNetworkState, at any moment, with a client made for  *)
(* this LogionClient or for one it comes from: those made for others may   *)
(* not know the nodes of its legal officers.  When the state is new, the   *)
(* LogionClient it returns has the legal officers whose node is up.        *)
UpdateNetworkState(c, l) ==
  LET client == http[c]
      state  == [up |-> client.up, down |-> client.down] IN
  /\ client.use = "own" /\ l <= logion /\ client.of \in origins[l]
  /\ network[l] # state
  /\ logion < MaxLogion
  /\ logion' = logion + 1
  /\ officers' = [officers EXCEPT ![logion + 1] = officers[l] \ client.down]
  /\ origins' = [origins EXCEPT ![logion + 1] = origins[l] \union {logion + 1}]
  /\ network' = [network EXCEPT ![l] = state, ![logion + 1] = state]
  /\ untimely' = IF Asked(c) = {} THEN untimely ELSE untimely \union {l, logion + 1}
  /\ UNCHANGED http

Drop(c) ==
  /\ http[c].use # "none" /\ Asked(c) = {}
  /\ http' = [http EXCEPT ![c] = Unused]
  /\ UNCHANGED logionVars

-----------------------------------------------------------------------------
(* AnySourceHttpClient.fetch: one node, picked at random; the next one if  *)
(* it fails, nothing when there is none left.                              *)
AskAny(c, n) ==
  /\ http[c].use = "any" /\ Asked(c) = {} /\ n \in http[c].up
  /\ http' = [http EXCEPT ![c].asked[1] = {n}]
  /\ UNCHANGED logionVars

AnyAnswers(c, ok) ==
  /\ http[c].use = "any" /\ Asked(c) # {}
  /\ http' = [http EXCEPT ![c] = IF ok THEN Unused
                                  ELSE [http[c] EXCEPT !.asked[1] = {}, !.up = @ \ Asked(c),
                                                       !.down = @ \union Asked(c)]]
  /\ UNCHANGED logionVars

NodesNext ==
  \E c \in HttpClients :
    \/ \E l \in 1..logion, use \in Uses : BuildHttpClient(c, l, use)
    \/ \E f \in Fetches : Fetch(c, f) \/ (http[c].use # "any" /\ AllSettled(c, f))
    \/ UpdateNetwork(c)
    \/ \E l \in LogionClients : UpdateNetworkState(c, l)
    \/ Drop(c)
    \/ \E n \in NodeSet : AskAny(c, n)
    \/ \E ok \in BOOLEAN : AnyAnswers(c, ok)

-----------------------------------------------------------------------------
(* No node is lost: a client has every node it began with, and once: up,   *)
(* down or being asked (the one that AnySource asks is still up).  And a   *)
(* LogionClient that never took over the state of a client that was        *)
(* fetching knows, in its network state, the node of each of its legal     *)
(* officers: operations that overlap overwrite each other's findings, but  *)
(* never drop a node.                                                      *)
NoNodeIsLost ==
  /\ \A c \in HttpClients :
       LET client == http[c] IN
       /\ client.up \union client.down \union Asked(c) = client.from
       /\ client.up \intersect client.down = {}
       /\ client.use # "any" =>
            /\ Asked(c) \intersect (client.up \union client.down) = {}
            /\ client.asked[1] \intersect client.asked[2] = {}
  /\ \A l \in 1..logion : l \notin untimely =>
       officers[l] \subseteq network[l].up \union network[l].down
=============================================================================
