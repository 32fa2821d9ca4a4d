------------------------------- MODULE Workload -------------------------------
(***************************************************************************)
(* packages/client/src/Types.ts: the workloads of the legal officers, that *)
(* a static cache of the program shares between all its clients.           *)
(*                                                                         *)
(* Several callers may find the entry too old and fetch it at once; their  *)
(* answers arrive in any order, each overwrites the entry and dates it on  *)
(* arrival; and anyone may flush the cache.                                *)
(***************************************************************************)
EXTENDS Naturals

CONSTANTS
  Workloads,  \* values of the officer's workload
  Readers,    \* callers of getWorkload that may overlap
  Ttl,        \* _cacheTtlMs
  Travel      \* bound: what an answer takes from the node to its caller

ASSUME WorkloadAssumption ==
  Workloads \subseteq Nat \ {0} /\ Ttl \in Nat \ {0} /\ Travel \in Nat

VARIABLES
  workload,   \* the officer's, in the node
  since,      \* per value: since when it is not the workload any more, 0 if it is
  entry,      \* workloads[address]: the value and its age, or nothing
  reading,    \* per caller: where getWorkload is
  flushed     \* the callers in whose getWorkload the cache was flushed

workloadVars == <<workload, since, entry, reading, flushed>>

NoWorkload == 0
NoEntry == [workload |-> NoWorkload, age |-> 0]
NotReading == [at |-> "none", workload |-> NoWorkload, age |-> 0]

(* Ages are told apart up to Oldest. *)
Oldest == Ttl + Travel + 1
Older(age) == IF age < Oldest THEN age + 1 ELSE age

WorkloadInit ==
  /\ workload \in Workloads
  /\ since = [w \in Workloads |-> IF w = workload THEN 0 ELSE Oldest]
  /\ entry = NoEntry
  /\ reading = [r \in Readers |-> NotReading]
  /\ flushed = {}

-----------------------------------------------------------------------------
(* Mutant of Fresh: an entry is used whatever its age. *)
Cached == entry # NoEntry

Fresh == entry # NoEntry /\ entry.age < Ttl

(* getWorkload, up to its first await. *)
GetWorkload(r) ==
  /\ reading[r].at = "none"
  /\ reading' = [reading EXCEPT ![r] = IF Fresh
                   THEN [NotReading EXCEPT !.at = "returned", !.workload = entry.workload]
                   ELSE [NotReading EXCEPT !.at = "sent"]]
  /\ flushed' = flushed \ {r}
  /\ UNCHANGED <<workload, since, entry>>

(* The node answers, later the answer arrives: fetchAndStoreWorkload. *)
Serve(r) ==
  /\ reading[r].at = "sent"
  /\ reading' = [reading EXCEPT ![r] = [at |-> "served", workload |-> workload, age |-> 0]]
  /\ UNCHANGED <<workload, since, entry, flushed>>

StoreWorkload(r) ==
  /\ reading[r].at = "served"
  /\ entry' = [workload |-> reading[r].workload, age |-> 0]
  /\ reading' = [reading EXCEPT ![r] = [NotReading EXCEPT !.at = "stored"]]
  /\ UNCHANGED <<workload, since, flushed>>

(* The rest of getWorkload: the entry is read again, and may not be there. *)
ReadWorkload(r) ==
  /\ reading[r].at = "stored"
  /\ reading' = [reading EXCEPT ![r] =
                   [NotReading EXCEPT !.at = IF entry = NoEntry THEN "threw" ELSE "returned",
                                      !.workload = entry.workload]]
  /\ UNCHANGED <<workload, since, entry, flushed>>

(* Not authenticated, or the node fails. *)
FetchFails(r) ==
  /\ reading[r].at = "sent"
  /\ reading' = [reading EXCEPT ![r] = NotReading]
  /\ UNCHANGED <<workload, since, entry, flushed>>

Return(r) ==
  /\ reading[r].at \in {"returned", "threw"}
  /\ reading' = [reading EXCEPT ![r] = NotReading]
  /\ UNCHANGED <<workload, since, entry, flushed>>

FlushCache ==
  /\ entry' = NoEntry
  /\ flushed' = flushed \union {r \in Readers : reading[r].at \notin {"none", "returned", "threw"}}
  /\ UNCHANGED <<workload, since, reading>>

-----------------------------------------------------------------------------
WorkloadMoves ==
  /\ \E w \in Workloads \ {workload} :
       /\ workload' = w
       /\ since' = [since EXCEPT ![w] = 0]
  /\ UNCHANGED <<entry, reading, flushed>>

(* An answer travels for Travel at most; what is stored or returned is     *)
(* read at once.                                                           *)
WorkloadTick ==
  /\ \A r \in Readers : reading[r].at \in {"none", "sent"} \/
                        (reading[r].at = "served" /\ reading[r].age < Travel)
  /\ since' = [w \in Workloads |-> IF w = workload THEN 0 ELSE Older(since[w])]
  /\ entry' = IF entry = NoEntry THEN NoEntry ELSE [entry EXCEPT !.age = Older(@)]
  /\ reading' = [r \in Readers |-> IF reading[r].at = "served"
                                   THEN [reading[r] EXCEPT !.age = @ + 1] ELSE reading[r]]
  /\ UNCHANGED <<workload, flushed>>

WorkloadNext ==
  \/ \E r \in Readers :
       \/ GetWorkload(r) \/ Serve(r) \/ StoreWorkload(r) \/ ReadWorkload(r)
       \/ FetchFails(r) \/ Return(r)
  \/ FlushCache
  \/ WorkloadMoves
  \/ WorkloadTick

-----------------------------------------------------------------------------
(* A workload that getWorkload returns was the officer's at most the cache *)
(* TTL and the travel of an answer ago, even when a late answer overwrote  *)
(* a newer one; and getWorkload finds no entry only when the cache was     *)
(* flushed while it was fetching.                                          *)
WorkloadIsRecent ==
  \A r \in Readers :
    /\ reading[r].at = "returned" => since[reading[r].workload] <= Ttl + Travel
    /\ reading[r].at = "threw" => r \in flushed
=============================================================================
