# A verification project for the logion client

The packages under `src/packages` are the TypeScript SDK of the logion network. A user's data is in three places that
are never changed together: the logion chain (reached through `@logion/node-api`), the private backends of legal
officers (reached over HTTP), and the immutable-looking "states" the client library hands to an application
(`@logion/client`). Most of what can go wrong lies between the three: an operation awaits the backend, then the chain,
then the backend again, while other operations run, blocks are retracted, requests fail or the process goes away. The
code runs on one JavaScript thread: a step of a model is what happens between two `await`s, and the interleavings are
those of pending promises, not of threads.

The modules here are TLA+ specifications translated from that code, with configurations for TLC and proofs for TLAPS.
`PROJECT.json` says, for every definition, which lines it stands for, and lists components, hazards, runs, findings and
theorems.

## The system

Paths are relative to `src/packages/client/src` (C) and `src/packages/node-api/src` (N).

| Part | State it keeps | Operations | What is hard |
|---|---|---|---|
| State (C `State.ts`) | `_discarded`, `_nextState` of each instance | discard, discardOnSuccess, syncDiscardOnSuccess, finalizeOnSuccess, getCurrentState | several transitions of one lifeline in flight; a transition that succeeds remotely and loses its race |
| Registry of LOCs (C `Loc.ts`, LocsState) | LOCs by id, all of them rebound when one changes | refresh, requestLoc, refreshWith, refreshWithout | operations on different LOCs end in any order, each rebuilding the registry |
| Signer (C `Signer.ts`) | one submission: subscription, last block, promise | signAndSend | results retracted, repeated, lost or early; settling exactly once, and truthfully |
| LOC operations (C `LocClient.ts`, `Loc.ts`) | none of their own: the backend and the chain | publish, acknowledge, open, close, void, items, records, accept | no transaction spans the backend and the chain; compensation, crash, retry |
| Recovery (C `Recovery.ts`, `RecoveryClient.ts`, `Polling.ts`) | class of the protection state, requests it knows | request, refresh, activate, claim, cancel, resubmit, wait | two backends and the chain read one after the other; nodes down; overlapping polling ticks |
| Vault (C `Vault.ts`, `VaultClient.ts`, N `VaultClass.ts`) | requests by status, balances | create, cancel, resubmit a transfer | extrinsic first, request second; a client that stops in between |
| Votes (C `Votes.ts`) | votes and ballots | castVote, refresh | two kinds of discarding on the same objects |
| HTTP (C `Http.ts`, `NetworkState.ts`) | nodes up, nodes down | fetch from all, from any | a partial answer is an answer; state emptied during an await |
| Authentication (C `AuthenticationClient.ts`, `LogionClient.ts`) | tokens and their expiration | authenticate, refresh, merge, switch account | which node answers; expired tokens |
| Caches (C `Types.ts`, N `LocBatch.ts`) | workloads, memoized queries | get, flush | flush while a fetch is pending |
| Pure algorithms (N `numbers.ts`, `Currency.ts`, `ChainTime.ts`, `FeesEstimator.ts`, C `Token.ts`, `license/`) | none | conversions, estimates, validation | boundaries: zero, padding, prefixes |

State is under all the others: every object a client holds is one, so an operation on a LOC, a vault or a vote is a
transition of a lifeline. The Signer is under all that reaches the chain. LocClient, Recovery, Vault and Votes call
both, and the backends in between. Nothing is persisted by the client: after a restart it knows what it fetches.

Correct means, for each of the parts:

* State: callers never get two live instances of a lifeline, and every handle leads to the live one.
* Registry: one registry per client; no LOC is lost that its node served or that was requested meanwhile, and none comes back
  once cancelled; for a client that awaits its operations on a LOC, its data never goes back.
* Signer: a promise that resolves is about a finalized success; if the connection holds and the outcome does not depend on the
  block, one that rejects is about an extrinsic that has no effect.
* LOC operations: what an attempt put on chain is known to the backend in full, unless the Signer told the attempt that it
  failed; when nothing was lost, a failed attempt leaves nothing behind.
* Recovery: the class of the object never promises more than the facts allow; waiting ends.
* Vault: no pending multisig without the request that leads to its approval or cancellation, unless the client was interrupted;
  what is shown as settled is.
* Votes: one list is current, and every vote the client ever held leads to the one it lists, or to the list.
* HTTP, authentication, caches: no client loses a node, up or down; a session survives a bounded number of failures; a cached
  value is not older than the cache allows.
* Algorithms: equal to a reference definition over bounded inputs.

## Modules

| Module | What it models | Uses |
|---|---|---|
| `CompareAndSet` | abstract: a cell moved only by an operation that saw its current version | |
| `StateChain` | `State.ts`, one lifeline | refines `CompareAndSet` |
| `LocsRegistry` | `LocsState` and the LOC objects | two levels of `StateChain` |
| `SubmissionContract` | abstract: what a caller of `signAndSend` relies on | |
| `Submission` | `BaseSigner.signAndSend` and the results of the node | refines `SubmissionContract` |
| `LocOperations` | operations of `AuthenticatedLocClient` over backend and chain | its extrinsic is `SubmissionContract` |
| `Collections` | the items and tokens records of a collection, while they are added and read | extends `LocOperations` |
| `LocLifecycle` | one LOC, one of its items, the requester's and the officer's clients | operations of `LocOperations`, in the steps the other client can see |
| `Recovery` | recovery of a lost account, with polling | its extrinsic is `SubmissionContract`, its object a lifeline |
| `Vault` | transfers out of a vault | its extrinsic is `SubmissionContract`, its object a lifeline |
| `Votes`, `Nodes`, `Session`, `Workload` | the list of votes; HTTP to many nodes; tokens; the cache of workloads | |
| `Services` | composes the four | `active` tells which of them moves |
| `Numbers`, `Estimates`, `Terms` | amounts; fees and chain times; tokens and licenses | |
| `Algorithms` | composes the three | `about` tells which of them a behaviour computes |
| `StateChainProofs`, `LocsRegistryProofs`, `SubmissionProofs`, `CollectionsProofs`, `LocLifecycleProofs`, `RecoveryProofs`, `VaultProofs` | proofs about the module of that name, and about `LocOperations` in `CollectionsProofs` | |
| `ServicesProofs` | proofs about `Services` and `Algorithms` | |
| `MC*` | symmetry sets and values for TLC | |

### StateChain

Instances are numbered in order of construction; `discarded` and `nextState` are the two private fields, `held` the
instances some caller received. A caller starts an operation from any handle it holds, however old. `Start` is the code
up to the await: `getCurrentStateOrThrow`. `DiscardOnSuccess`, `DiscardOnFailure` and `FinalizeOnSuccess` are what
follows it, the `finally` block included: when `discard` throws there, the caller gets the error instead of the next
state. `SyncDiscardOnSuccess` is one step, and `DirectDiscard` is the way Votes calls `discard`. `CurrentState` defines
what `getCurrentState` must find as the least set closed under `_nextState`; `GetCurrentState` is the loop itself, and
`LoopFindsCurrent` relates the two. In `ImplementsCompareAndSet` the cell holds the live instance: an operation that
awaited takes effect only if no other one replaced the instance it began with.

### LocsRegistry

A registry and a LOC object both are States, and a LOC object points to the registry it was made in. `RefreshOn` is
`_refreshWith`: it rebinds every listed LOC to a new registry (`WithLocs`), then lists new data in the place of one of
them. `RefreshWithThrows` is the same loop when one of the LOCs was finalized, with what it did before it threw.
`CancelDone` joins finalizing the draft and removing it from the registry, that run without an await in between.
`RefreshAllServed` is the answer to a refresh of the whole registry: any part of the LOCs, since a node that fails is dropped
silently and so is a LOC whose object cannot be built; what was left out is in `missed`, a history.
LOCs are drafts, whose content is a version number; the two maps of the registry are one.

How a client uses the registry is a parameter, `Clients`: which operations it calls, which of them overlap with no other
one (`alone`), and whether it awaits an operation on a LOC before the next one on it, as the docs say (`awaited`). One run
has two clients: a hasty one that overlaps refreshes and new requests at will, and a careful one that awaits what it does
to a LOC and cancels, or refreshes everything, with nothing else in flight. The properties say which of the two they need.

### Submission

`tx` is the extrinsic at the node: pool, block, retracted, final or gone; `results` the results on their way. Only
InBlock and Finalized results are there: `signerCallback` does nothing with the others. `Deliver` is one call of the
callback, `Settle` its last part, `requireDefined` included, that throws when the block was never recorded.
`ResultIgnored` is a result that comes before the subscription returned (`if(unsub)`), `CallbackThrows` the callback
given by the application. Each cause of trouble is a constant, so that each run says under which ones its properties hold.

`SubmissionContract` is what the other modules take from it, and it holds only when an extrinsic has one outcome in all blocks
and the connection holds. `LocOperations` and `Collections` do without that (`RejectedEarly`, below). `LocLifecycle`, `Recovery`
and `Vault` rely on it: what is shown of them holds as long as `signAndSend` does not reject what takes effect. Nor is there a
property for an extrinsic that the pool drops: the promise never settles, and the operation stays where it is.

### LocOperations

One LOC, one kind of operation, repeated: the operations announce themselves to the backend (`Claim`), submit, and
undo their announcement when the promise rejects (`CatchBlock`, `Compensate`). They are one program that differs in a few
parameters, a record per method: what the LOC object checks before (`guarded`), how many requests precede the extrinsic
(`requests`) and how many of them are undone (`undoes`), what follows (`follows`), and where they deviate: the
compensation of `openTransactionLoc` is not awaited (`awaited`), that of `acknowledgeLink` sends the acknowledgement again
(`cancels`), an invalid item, or missing funds after a LOC to open directly was created, stop the loop outside of any `try`
(`late`), `accept*` and the extrinsics of issuers announce nothing. `accept*` may have no extrinsic (`submits`, `AcceptOnly`): a
requester with an account of its own, or a collection, is accepted in the backend only. `recorded` is the attempt that took
effect on chain, `followed` the last one that went on to its follow-up. `Crash` is a client that goes away between any two steps;
its extrinsic may still take effect later (`undecided`). `createLoc`, of a legal officer, requests a new LOC and opens it; nothing
is undone if that fails.

`RejectedEarly` is what `SubmissionContract` rules out and `signAndSend` may do: reject because the connection broke once the
node had the extrinsic, or because it failed in a block that is not final, while it took effect or still may. The catch block
then undoes the announcement of what is on chain. `misled`, a history, has the attempts this happened to, and `TookEffect` is
about the others: what is on chain by an attempt that was not told the opposite. So the properties say how far the damage
goes, to those attempts only, and not that there is none.

Assumptions: the backend refuses an item or record it has (`RefusesDuplicates`), a PUT can be repeated, and the chain
does not create or close a thing twice. The backend is not part of this repository, and the first assumption is a
hypothesis of the theorems that need it.

### Collections

Each step of `LocOperations` on items or records, joined with what it does to their contents: `content` in the backend, told
by the attempt it comes from as `recorded` is, since the user may call again with other contents. One reader reads the chain, then the backend (`Ask`,
`Merge`), while all that goes on: one item, that must be on chain, or all of those the backend lists. `quiet` remembers
whether an addition was under way since it asked; `left` is a history variable, a call that stopped outside of its `try`
block. An item is its position in the batch, and each call is about the same items.

### LocLifecycle

The backend knows the `request`, the `item` and the `dates` the chain told it; the chain `loc`, `voided`, `recorded`, `issuer`.
Each client has an `object` - the class it is of and the data it was built from - and at most one operation `op`. What
`LocOperations` says of one operation in full detail is here in the steps the other client can see: the first request
(`Submitting`), the chain's decision, the compensation, and the refresh in two reads, backend first. Operations work from
the object, that may be older than what the other client did since; guards on `object` are the client's, guards on the
backend's variables are the backend's (assumed: it accepts a transition of an item or of a request from the status that
precedes it, and refuses the others).

A client that lists its LOCs (`RefreshAll`) may find that the node of this one does not answer: `fetchAll` says nothing of it and
the LOC is out of the lists (`NoObject`) until the next time. That is no interruption and is not counted in `faults`.

The compensation of `openTransactionLoc` is not awaited: `UndoUnawaited` ends the operation and leaves a request on its way
(`cancelling`), that the backend applies later (`CancelOpen`) or not at all (`CancelOpenFails`, an unhandled rejection, counted as
a fault of the requester). The type of the LOC is left out, so a failed opening goes either way, awaited or not.

`faults` is a history variable: the clients whose operation ended half-way (a request that failed after the extrinsic, a
client that stopped), and "early", an acknowledgement that came before the publication it needs was on chain.

### Recovery

The facts are `request`, the status in the backend of each of the two officers, and `chain`; the client holds one
`object` whose class `InitialClass` (`getInitialState`) computes from what was read, or that the operation guessed
(`ClassAfter`). Reading takes a step per node, one for the configuration and one for the proxy: the facts change in
between. `task` says where the user's operation is, and each tick of `waitFor`: `Tick` does not wait for the tick before.
`Superseded` and `live` are `discardOnSuccess`: a tick whose object was replaced throws when it ends, which rejects the
wait (`TickThrows`); a tick that ends after the wait settled still replaces the object (`StrayTickEnds`).
`Partial` reads ask for accepted requests only. Nodes that fail are ignored by `MultiSourceHttpClient.fetch`, and a node
that failed to answer `protectionState` is not asked by it again (`down`).

Assumptions: a backend refuses a second live request of a user; the configuration of the lost account names the two
officers, otherwise `requestRecovery` throws before it did anything; the user awaits an operation before the next, so
that only ticks overlap; when one cancellation fails the others have been applied or not by then. A client that stops is
not an action here: between two requests it leaves what a failure of the second one leaves, that is modelled. `faults` is a
history variable: it becomes true when a request fails or an object is lost to an overlap, and lets a property say what
holds as long as nothing did.

### Vault

A transfer is a `multisig` on chain and a `request` in the backend of its officer; `shown` is the lists of the current
VaultState, `op` the operations of the client in flight, two of which may overlap: `live` says whether the object an operation
began with is still the current one, and `Succeed` is `discardOnSuccess`. An operation may be given any request object the client
ever had, whose status is then that of an older list: `Cancel` and `Resubmit` move the request out of the list of that status,
so that it may be in two lists; `outdated`, a history emptied by a refresh, has those requests. An object that already says
ACCEPTED or the like is left out: the chain or the backend refuses what is asked. Creating and cancelling are extrinsic first,
request second. The lists after an operation are computed from those it began with, not read again; a refresh reads one
list per node and status. The officer approves
on chain, and accepts or rejects in the backend.
`Superseded` tells the other operations that their object was replaced; it is bookkeeping, not a message.

### Services

Four parts of the client that share no state; `active` says which one a behaviour is about, so that the states add up and
do not multiply.

* `Votes`: `Votes` and `Vote` objects both are States. `castVote` builds the new list from the current one with the data the vote
  had before its extrinsic; `refresh` discards the votes of the former list itself, one after the other, and throws on the
  first that is discarded already.
* `Nodes`: a client's `up`, `down` and what each fetch in flight asked; `Fetch` empties `up` until `AllSettled`. LogionClients
  change their network state in place; operations that overlap overwrite each other's. `origins` is the lineage of a
  LogionClient: itself and those it was made from.
* `Session`: tokens are what is left of their validity. The constants' assumption says for which periods and thresholds an
  application may expect its session to survive `MaxFailures` failures in a row.
* `Workload`: the answer of a node is a value it had when it was asked for, that travels for at most `Travel`.

### Algorithms

Computations without state. Each is a small machine that applies the operations of the code in any order next to a
reference: for `Numbers`, the integer an amount is `worth` in the smallest unit while the coefficient is a sequence of digits
and a prefix; for `Estimates`, the sum `due` of each kind of fee, and the block a time belongs to; for `Terms`, a definition of what a token
and a classification must be. Token IDs are what the checks tell apart: the fields of the JSON object they are, or the
format of the text.

## Runs

Each ends in less than three minutes with two workers. "violation" runs check one claim of a comment or a diagram of
the repository that the code does not keep; `findings` in `PROJECT.json` quotes it.

| Run | Instance | Shows |
|---|---|---|
| `state_lifeline` | 3 operations, 5 instances | one live instance, handles converge, the loop is right, State refines CompareAndSet |
| `state_finalize` (violation) | 3 operations, 4 instances | finalizeOnSuccess discards though the action rejected |
| `locs_clients` | 2 LOCs, 2 callers, 5 registries, a hasty client and a careful one | one registry, the latest handle is listed, listed LOCs are live, no LOC leaves that was neither cancelled nor missed, data goes forward, a cancelled draft stays away |
| `locs_cancelled` (violation) | 2 LOCs, refresh and cancel overlap | a cancelled request stays listed |
| `submission_contract` | 4 inclusions, drops, lost results, throwing callback | resolves only on a finalized success; rejects only without effect |
| `submission_settles` | 4 inclusions, fork-dependent outcome, broken connection | settles; reports the finalized block |
| `ops_adverse` | all methods, batch of 3, 4 attempts, crashes, lost answers, early rejections, a reader | what is on chain is claimed, failures leave nothing, follow-ups follow, unless an attempt was rejected too early; what a reader finds on chain is confirmed, listings fail only during an addition or after a fault |
| `recovery_adverse` | 2 overlapping ticks, 2 retries, failing nodes | classes are real and current, no dead end, the wait settles and is truthful |
| `vault_adverse` | 2 similar transfers, 2 overlapping operations, failures | no multisig without its request, lists true (but for requests acted upon through old objects) and complete, what is settled stays so |
| `lifecycle` | 2 clients, one LOC, one item, an issuer, an interruption | classes are true and go forward, openings are pending, what is closed is ready, publication is the same on both sides |
| `services` | 2 votes, 3 lists; 2 nodes, 2 http clients; 2 addresses; 3 readers | votes and their list stay consistent, no node is lost, sessions survive, workloads are recent |
| `algorithms` | numerals of up to 4 digits, units two apart; 2 estimates, 4 hops; all token types | amounts are exact, estimates add up, only sound terms pass |

The bounds. Two operations are enough for a race, and a third one arrives at what a race left; five instances let a
handle be four replacements old. Two LOCs tell the refreshed one from the others, and one object per LOC and registry is
all the code makes; `MaxVersion` = 2 tells old from new. Four inclusions are three retractions, more than the code can tell apart
from two. A batch of three has a first, a middle and a last item, and four attempts cover a crash, a lost answer and two
retries. Two ticks are enough to overlap; with two retries a wait has a first and a last one. Two transfers that are similar
are what the chain refuses, and with two operations one of them loses its object. An interrupted client leaves the same
half-done operation as another one, so one interruption at a time is enough, while the other client goes on. Two votes
make the order of `discardPrevious` matter. Three readers: one flushes, two overlap. Digits 0, 1 and 9 make carries and zeros to
strip; units are two apart so that an exponent falls on one, between two, and outside on both sides.

In the runs of lifelines, registries and services only identities are symmetric, and no liveness is checked with
symmetry. Deadlock is not checked where the system may rest: a submission that settled, a LOC operation that ran out of
attempts, a registry or a list of votes at its bound, a computation that ended.

Fairness. `Submission`: the chain includes and finalizes what its pool holds, the subscription and results are delivered;
nothing obliges a caller to send, the pool to drop, or a fork to happen. That is what the code relies on: without it no
promise could settle. `Recovery`: `setInterval` calls back until cleared, a node answers or its request fails, and the
tick goes on with it. Officers, backends and the user are not fair: `WaitSettles` holds though the backends never
activate, through the maximum of retries.

## Proofs

| Theorem | For every | Argument |
|---|---|---|
| `StateChainProofs!OneLive`, `Converge`, `DiscardFinal`, `TypeCorrect` | set of callers, number of instances | An instance is constructed after those that lead to it (`nextState` goes up), and held instances lead to held ones (`ChainInv`, `HeldInv`); what was finalized leaves nothing live (`FinalInv`). |
| `StateChainProofs!Refinement` | the same | The mapped cell is the live instance; a replacement moves it, since `Discard` needs it current. |
| `StateChainProofs!LoopEnds` | the same | The loop of `getCurrentState`, n iterations from the end, reaches the live instance from any handle that is at most n constructions from the last one (`LoopReaches`). |
| `LocsRegistryProofs!RegistryIsOne`, `HandlesFollow`, `ListIsLive`, `NoneForgotten`, `CancelledIsGone` | sets of LOCs and of operations, number of registries, clients that are `Disciplined` | The registries form one line and a LOC object leads to one of a later registry, for the same LOC (`Chained`, `Linked`), so that the two recursive functions for `getCurrentState` have values, and reach the last registry and what it lists (`Solvable`, `Lands`). What is in flight knows of no LOC that was cancelled (`Backed`, `Pending`), and a full refresh whose registry is still current got, or missed, every LOC it lists (`RefreshAllFacts`). |
| `LocsRegistryProofs!DataGoForward` | the same, clients that are `Patient` too | While an operation on a LOC is awaited nothing else lists that LOC anew, so what it fetched is newer than what is listed (`Apart`, `Newer`). |
| `SubmissionProofs!Resolved`, `TypeCorrect` | number of forks, all kinds of trouble | A Finalized result on its way tells the truth about the chain (`FinalityIsTrue`), and only a Finalized result resolves. |
| `SubmissionProofs!ReportedFinal` | number of forks, subscriptions that are never late, callbacks that do not throw | Results come in the order of what the chain did, so the last block seen before Finalized is the one that was finalized. |
| `SubmissionProofs!Refinement` | number of forks, an outcome that does not depend on the block, a connection that holds | A failure in one block then is one in any other (`VerdictIsTrue`). Both hypotheses are needed: without them the code may reject and take effect. |
| `CollectionsProofs!Claimed` | batch, attempts, crashes, losses; a backend that refuses duplicates | While an extrinsic may take effect and its attempt was not told the opposite (`Owed`), its claims are protected: no other attempt gets past announcing them (`Protected`). |
| `CollectionsProofs!Compensated` | the same | As long as nothing failed, claims are a prefix of the batch while announced, all of it while submitted, and none once undone (`Tidy`). |
| `CollectionsProofs!FollowedAfterChain`, `TypeCorrect` | all constants | The follow-up phase is entered on `Resolve`, thus by the attempt that is on chain (`AttemptInv`); as long as nothing failed, an attempt on chain has been followed up, is being, or was rejected too early (`Followed`). |
| `CollectionsProofs!ReadsAreConfirmed`, `CollectionsTypeCorrect` | the same, a batch that is not empty | Collections implements LocOperations (`OperationsOfCollections`), hence claims are protected; then so are their contents: those of an extrinsic that took effect, or may, are those of its attempt (`Contents`). |
| `CollectionsProofs!ListingsWork` | the same | As long as nothing was lost or left, claims and chain agree between two calls (`Orderly`), and a reader that overlaps none reads both as they are then (`Overlooked`). |
| `LocLifecycleProofs!LifeIsConsistent`, from which `ClassesAreTrue`, `ClassesGoForward`, `OpeningsArePending`, `ClosingsAreReady`; `TypeCorrect` | number of interruptions | The chain only goes forward, so what an object or a read in flight once knew of it still holds; the backend says OPEN or CLOSED of any LOC that is on chain; an opening in flight, or the request that undoes it, is the only way for the backend to be ahead of the chain (`OpeningsPrecede`, `CancelsPrecede`). |
| `LocLifecycleProofs!PublicationsAgree` | the same | Unless something was interrupted, each client knows what it needs of the request and of the item while it acts on them: nobody else takes them back meanwhile (`Smooth`), nor does an undoing nobody awaits (`CancelsWhatItSaw`). |
| `RecoveryProofs!Progress`, `TypeCorrect` | number of overlapping ticks, maximum of retries, failing nodes or not | What the user's operation read is still so when it ends (`InFlight`): officers do not take back an acceptance, only the user cancels, and from a RejectedRecovery only; ticks replace the object by one of the same class. |
| `RecoveryProofs!Currency`, `Availability`, `Readiness` | the same | As long as nothing failed (`NoFaultInv`): the pairs of statuses that the facts, the object and each read in flight can have, and which of them an officer's decision leads to. |
| `VaultProofs!VaultIsConsistent`, from which `MultisigsAreRequested`, `TheListsAreTrue`, `SettledRequestsStaySettled` | number of transfers, of overlapping operations, calls | The status of a request follows the chain (`StatusIsTrue`); each operation in flight knows something of its transfer that no other operation and no officer undoes; lists change only with the object, so that an operation that ends on a live object began with the lists of now (`LiveFits`), and lists share outdated requests only (`Apart`). |
| `VaultProofs!TheListsAreComplete` | the same | Unless something failed, a request the lists do not show where it belongs, on screen or as an operation in flight has just read them, is of a create or a cancel that the chain has answered and that will show it (`CompleteInv`); what a create in flight is about, the operation will show when it ends (`CreatesAreShown`). |
| `ServicesProofs!VotesLead` | sets of votes and of operations, number of lists | A vote of a former list leads to the same vote in the next list, to the list if a ballot was cast through it, or to nothing: then the backend does not return it any more (`Replaced`, `GoneForGood`). A refresh in flight whose list is still current read nothing that brings such a vote back (`Continues`). |
| `ServicesProofs!NodesKept` | sets of nodes and of clients, number of LogionClients | A client's nodes are up, down or being asked, each once (`KeepsNodes`); a LogionClient has fewer officers than those it comes from, so that a client made for one of them knows all of its nodes (`FewerOfficers`). |
| `ServicesProofs!SessionKept` | addresses, validities and thresholds with the arithmetic of `SessionAssumption` | A token was above the threshold when `refreshTokens` last succeeded or had nothing to do, and has aged by a period and a latency per attempt since (`Ages`); a refresh in flight began when the idle time did (`Together`). |
| `ServicesProofs!WorkloadKept` | workloads, readers, TTL, travel time | What is in the cache was the officer's workload at most its age plus the travel time ago (`EntryWasSo`); a caller that stored an entry reads it back, unless the cache was flushed meanwhile (`StoredIsThere`). |
| `ServicesProofs!EstimatesAreRight` | fees, balances, block time, number of estimates and hops | Kind by kind, the fees are what is due, and zero is due where no estimate had any (`FeesAreDue`); the sum over kinds is taken one kind after the other, in the order of `CHOOSE`, and comes to the same (`SumIs`). Each division cuts less than a block off (`DivisionCuts`). |
| `ServicesProofs!AmountsStayExact` | numerals, units in increasing order, digits asked for, additions | The value of a number's digits, times a power of ten that may be negative, is the amount (`Measures`), and the digits are normal (`Normal`). A shift of the separator moves digits one way and the exponent the other (`ShiftsRight`, `ShiftsLeft`), normalizing drops zeros only (`NormalizeKeeps`); hence `canonical` is exact and leaves no decimals (`CanonicalIs`). The binary search ends where the units after it are larger than the exponent looked for (`CandidateIs`), so that the digits fit (`Fits`). What is shown is a quotient by a power of ten (`CutIs`). |
| `ServicesProofs!TermsAreSound` | no constant: every type and ID of `TokenTypes` and `TokenIds`, every classification | Family by family of types, what `validateToken` accepts designates something on one network (`TokensAreSound`); question by question, what `checkValidity` accepts has one meaning, but for the codes it does not see: an empty one, and inherited names (`ClassificationsAreSound`). The run enumerates the same cases; the proof says why they hold. |

An invariant is seldom inductive as it stands: in each proofs module `IInv` (or `RInv`, `VotesInv`, `NodesInv`, `VerdictInv`,
`Protected`, `Tidy`, `Contents`, `SmoothInv`, `NumbersHold`...) is what is proved step by step, one step per action, and the theorem follows. TLC
checked each of them before it was proved. The assumptions on constants are named in the modules that declare them.

The theorems about `LocsRegistry` have hypotheses on how the client uses it. `Disciplined`: the backend accepts a
cancellation, and who cancels does nothing else meanwhile. Without either, `locs_cancelled` and `state_finalize` show what
happens. `Patient`: who awaits the operations on a LOC refreshes the whole registry with nothing else in flight. The hasty
client and the careful one of `locs_clients` both are disciplined and patient.

Recursive functions (`LoopFrom`, `CurrentObject`, `CurrentVotes`, the sum of estimates, `TenTo`, `Value`, `Digits`, `Weighed`, the
search of `Candidate`) are reasoned about without an induction theorem: that the defining equation has a solution, and what every
solution does, is shown by taking the least number at which it would fail (`LeastNat`, from the well-foundedness of the naturals).
The lemma `Recursion` does the first part once for every function whose value follows from the one at a smaller argument.

Only model-checked: `Settles` and `WaitSettles`, as liveness under fairness is out of the prover's reach. Every other property of
the passing runs is stated by a theorem.

## What the runs found

* `finalizeOnSuccess` discards in a `finally` block whatever happened, contrary to its comment (`State.ts:112`): a
  cancellation the backend refuses leaves a request that cannot be used any more.
* A refresh of another LOC during `cancel` leaves the cancelled request in the registry (`Loc.ts:1285`).

What the code does not guard against and no text of the repository promises, met while modelling. Hazards in
`PROJECT.json` list most of these, at their line:

* The second of two recovery requests fails: the protection shows as unavailable, without a way out (`Recovery.ts:262`).
* `signAndSend` may reject although the extrinsic takes effect (`Signer.ts:153`, `:176`): the operation then undoes in the backend
  what is on chain, and `addCollectionItems` and the like leave items that no reader can confirm.
* A full refresh drops from the registry the LOCs of a node that fails, until the next one (`Http.ts:59`).
* A vault request cancelled or resubmitted through an object of an older list stays in the list it was in, next to the new one.
* The compensation of `openTransactionLoc` is not awaited, that of `acknowledgeLink` is the acknowledgement again.
* The multisig of a vault transfer is on chain and the request to the backend fails: similar transfers are refused from
  then on (`Vault.ts:172`).
* `castVote` writes back the data the vote had before its extrinsic, and its handle then leads to the list (`Votes.ts`).
* `updateNetworkState` may be given the state of a client that is fetching, whose nodes are neither up nor down then. Given a
  client made for an unrelated LogionClient, it may forget the node of a legal officer: proving `NodesKept` showed that,
  with more LogionClients than the run has; `origins` says which clients are not unrelated.
* `doWithFirstAvailableNode` returns a promise it does not await: the first node that fails rejects, the others are not
  asked (`AuthenticationClient.ts:53`). After `logout` the legal officers of the client keep the token they had.
* Chain times derived by dates, one from the other, drift by up to a block each; decimals below the smallest unit make
  `BigInt` throw; the empty code, and codes named like what every object inherits, are accepted as a right and as the only
  country of a limit; the JSON `null` throws for an ERC token.
* An item the backend has and the chain has not fails the listing of all the items (`LocClient.ts:607`). After a client went
  away between the two, a backend that refuses duplicates refuses the item again, and nothing in this repository removes it.
* The "at most one" checks of `CollectionItem` are in the `else` of a condition they imply: they never throw.
* The doc of `decimalPartString` says padded left, the code pads right, as it must.

## What is not modelled

* Generated chain interfaces (10,014 of the 28,953 lines of implementation) and the vendored package manager (785).
* The integration tests, and the platform packages (browser, node, expo, react-native): thin adapters of HTTP and files.
* Queries and adapters of the chain, reference tables (countries, MIME types), the directory: reads and conversions.
* Of collections, the upload status of files, downloads and certified copies.
* Balances, deliveries, sponsorship and contributors: a request or an extrinsic each, with nothing to undo. Transition
  logic of that kind is covered by `StateChain` and `Submission`.
* The signers of other platforms: they sign with an extension or a service, submission is that of `BaseSigner`.
* Contents of requests and files, and hashes: those of items are told by the attempt they come from. Of Recovery, the recovered vault and balance, and
  `UpdatableRequest.update`, for requests of protection only, which this version cannot create any more
  (`website/docs/client/protection.md:56` still shows `requestProtection`).
* Within the modelled parts, the accessors, the getters and the constructors that copy fields.
