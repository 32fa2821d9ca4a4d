-------------------------------- MODULE Votes --------------------------------
(***************************************************************************)
(* packages/client/src/Votes.ts: the votes a legal officer takes part in.  *)
(* A Votes object lists one Vote per vote of the backend; both are States  *)
(* (StateChain).  refresh fetches a new list and discards the votes of the *)
(* former one itself; castVote awaits its extrinsic, then has the list     *)
(* make a new one.  The two overlap.                                       *)
(*                                                                         *)
(* The Votes objects are numbered; a Vote is the pair of the Votes object  *)
(* it was made for and of the vote it stands for.                          *)
(***************************************************************************)
EXTENDS Naturals, FiniteSets

CONSTANTS
  VoteIds,      \* set of numbers: fetchData sorts the votes, the last one first
  VoteCallers,  \* operations that may overlap
  MaxVotes      \* bound: Votes objects made

ASSUME VotesAssumption ==
  /\ VoteIds \subseteq Nat /\ VoteIds # {}
  /\ MaxVotes \in Nat \ {0}

Instances == 1..MaxVotes

(* A vote's data: what makes a PendingVote of it, or an ApprovedVote or a  *)
(* RejectedVote; the ballots are left out.                                 *)
VoteStatus == {"PENDING", "DECIDED"}

VARIABLES
  official,    \* what the backend returns: a vote's status, or NoVote
  cast,        \* the votes on which the chain has this officer's ballot
  made,        \* Votes objects 1..made have been constructed
  shared,      \* those a caller got hold of
  listed,      \* per Votes object: the votes it lists and their status
  votesNext,   \* per Votes object: the one that replaces it, 0 while it is live
  voteNext,    \* per Vote: what replaces it
  ballot       \* the operations in flight

votesVars == <<official, cast, made, shared, listed, votesNext, voteNext, ballot>>

NoVote == "none"

Live == [to |-> "live", at |-> 0]
Nothing == [to |-> "nothing", at |-> 0]
AVote(r) == [to |-> "vote", at |-> r]
AVotes(r) == [to |-> "votes", at |-> r]

NoBallot == [name |-> "idle", base |-> 0, vote |-> 0, read |-> [v \in VoteIds |-> NoVote]]

In(list) == {v \in VoteIds : list[v] # NoVote}

-----------------------------------------------------------------------------
(* State.getCurrentState: replacements are made after what they replace.   *)

CurrentVotes[n \in 0..MaxVotes] ==
  [r \in Instances |->
     IF votesNext[r] = 0 \/ n = 0 THEN r ELSE CurrentVotes[n - 1][votesNext[r]]]

VotesOf(r) == CurrentVotes[MaxVotes][r]

CurrentVote[n \in 0..MaxVotes] ==
  [h \in Instances \X VoteIds |->
     LET next == voteNext[h] IN
     CASE next.to = "live" -> AVote(h[1])
       [] next.to = "vote" /\ n > 0 -> CurrentVote[n - 1][<<next.at, h[2]>>]
       [] next.to = "votes" -> AVotes(VotesOf(next.at))
       [] OTHER -> Nothing]

VoteOf(r, v) == CurrentVote[MaxVotes][<<r, v>>]

-----------------------------------------------------------------------------
(* getVotes, once: later ones make lists of their own. *)
VotesInit ==
  /\ official = [v \in VoteIds |-> IF v = 1 THEN "PENDING" ELSE NoVote]
  /\ cast = {}
  /\ made = 1 /\ shared = {1}
  /\ listed = [r \in Instances |-> IF r = 1 THEN official ELSE [v \in VoteIds |-> NoVote]]
  /\ votesNext = [r \in Instances |-> 0]
  /\ voteNext = [h \in Instances \X VoteIds |-> Live]
  /\ ballot = [o \in VoteCallers |-> NoBallot]

Finishes(o) == ballot' = [ballot EXCEPT ![o] = NoBallot]

(* The method throws, without effect. *)
Fails(o) ==
  /\ Finishes(o)
  /\ UNCHANGED <<made, shared, listed, votesNext, voteNext>>

(* PendingVote.castVote up to its extrinsic, from any handle a caller has. *)
(* When castVote already succeeded through this handle, it throws: the     *)
(* current state is not a vote.                                            *)
CastVote(o, r, v) ==
  /\ ballot[o] = NoBallot
  /\ r \in shared /\ v \in In(listed[r]) /\ listed[r][v] = "PENDING"
  /\ VoteOf(r, v).to = "vote"
  /\ ballot' = [ballot EXCEPT ![o] = [NoBallot EXCEPT !.name = "cast",
                                        !.base = VoteOf(r, v).at, !.vote = v]]
  /\ UNCHANGED <<official, cast, made, shared, listed, votesNext, voteNext>>

Settled(o, accepted) ==
  /\ ballot[o].name = "cast"
  /\ IF accepted
     THEN /\ ballot[o].vote \notin cast /\ official[ballot[o].vote] = "PENDING"
          /\ cast' = cast \union {ballot[o].vote}
          /\ ballot' = [ballot EXCEPT ![o].name = "accepted"]
     ELSE cast' = cast /\ Finishes(o)
  /\ UNCHANGED <<official, made, shared, listed, votesNext, voteNext>>

-----------------------------------------------------------------------------
(* Votes._refreshWith: all the votes of the list are made again, for the   *)
(* new one.                                                                *)

Make(list) ==
  /\ made < MaxVotes
  /\ made' = made + 1
  /\ listed' = [listed EXCEPT ![made + 1] = list]

(* Mutant of Rebound: the other votes are not replaced. *)
NotRebound(r, v) == [h \in Instances \X VoteIds |-> voteNext[h]]

Rebound(r, v) ==
  [h \in Instances \X VoteIds |->
     IF h[1] = r /\ h[2] # v /\ h[2] \in In(listed[r]) THEN AVote(made + 1) ELSE voteNext[h]]

(* The rest of castVote.  The data is that of the vote it began with, the  *)
(* list that of the vote that replaces it now; the handle it began with is *)
(* discarded in favour of the list.                                        *)
CastVoteDone(o) ==
  LET base == ballot[o].base
      v    == ballot[o].vote
      now  == VoteOf(base, v)
      r    == VotesOf(now.at) IN
  /\ ballot[o].name = "accepted"
  /\ \/ /\ now.to = "vote" /\ v \in In(listed[r])
        /\ Make([listed[r] EXCEPT ![v] = listed[base][v]])
        /\ votesNext' = [votesNext EXCEPT ![r] = made + 1]
        /\ voteNext' = [Rebound(r, v) EXCEPT ![<<now.at, v>>] = AVotes(made + 1)]
        /\ shared' = shared \union {made + 1}
        /\ Finishes(o)
     \/ /\ ~(now.to = "vote" /\ v \in In(listed[r]))
        /\ Fails(o)
  /\ UNCHANGED <<official, cast>>

-----------------------------------------------------------------------------
(* Votes.refresh: fetchData, then discardPrevious and discardOnSuccess. *)
RefreshVotes(o, r) ==
  /\ ballot[o] = NoBallot
  /\ r \in shared
  /\ ballot' = [ballot EXCEPT ![o] = [NoBallot EXCEPT !.name = "refresh", !.base = VotesOf(r)]]
  /\ UNCHANGED <<official, cast, made, shared, listed, votesNext, voteNext>>

FetchData(o) ==
  /\ ballot[o].name = "refresh"
  /\ \/ ballot' = [ballot EXCEPT ![o].name = "fetched", ![o].read = official]
     \/ Finishes(o)
  /\ UNCHANGED <<official, cast, made, shared, listed, votesNext, voteNext>>

Discarded(r) == {v \in In(listed[r]) : voteNext[<<r, v>>] # Live}

(* discardPrevious goes through the former votes in their order, the last  *)
(* one first, and throws on the first that is discarded already.           *)
Previous(r, read) == {v \in In(listed[r]) : \A d \in Discarded(r) : v > d}

RefreshVotesDone(o) ==
  LET base == ballot[o].base
      read == ballot[o].read IN
  /\ ballot[o].name = "fetched"
  /\ Make(read)
  /\ voteNext' = [h \in Instances \X VoteIds |->
                    IF h[1] = base /\ h[2] \in Previous(base, read)
                    THEN IF h[2] \in In(read) THEN AVote(made + 1) ELSE Nothing
                    ELSE voteNext[h]]
  /\ \/ /\ Discarded(base) = {} /\ votesNext[base] = 0
        /\ votesNext' = [votesNext EXCEPT ![base] = made + 1]
        /\ shared' = shared \union {made + 1}
     \/ /\ Discarded(base) # {} \/ votesNext[base] # 0
        /\ UNCHANGED <<votesNext, shared>>
  /\ Finishes(o)
  /\ UNCHANGED <<official, cast>>

-----------------------------------------------------------------------------
(* The backend: a vote is opened, decided and, later, not returned any     *)
(* more.                                                                   *)
VotesMove ==
  /\ \E v \in VoteIds :
       \/ /\ official[v] = NoVote /\ v # 1 /\ \A r \in 1..made : listed[r][v] = NoVote
          /\ official' = [official EXCEPT ![v] = "PENDING"]
       \/ /\ official[v] = "PENDING"
          /\ official' = [official EXCEPT ![v] = "DECIDED"]
       \/ /\ official[v] = "DECIDED"
          /\ official' = [official EXCEPT ![v] = NoVote]
  /\ UNCHANGED <<cast, made, shared, listed, votesNext, voteNext, ballot>>

VotesNext ==
  \/ \E o \in VoteCallers :
       \/ \E r \in Instances, v \in VoteIds : CastVote(o, r, v)
       \/ \E accepted \in BOOLEAN : Settled(o, accepted)
       \/ CastVoteDone(o)
       \/ \E r \in Instances : RefreshVotes(o, r)
       \/ FetchData(o)
       \/ RefreshVotesDone(o)
  \/ VotesMove

-----------------------------------------------------------------------------
(* Of the Votes objects callers got, one is live, and the live votes are   *)
(* those it lists: no operation that fails half-way or that is overtaken   *)
(* leaves a live vote in a list that is not current, nor a dead one in the *)
(* list that is.  However old, a vote leads to the one listed now, or to   *)
(* nothing if none is; only a vote through which a ballot was cast leads   *)
(* to the list.                                                            *)
VotesLeadToListed ==
  /\ \E current \in shared : \A r \in shared :
       /\ votesNext[r] = 0 <=> r = current
       /\ \A v \in In(listed[r]) : voteNext[<<r, v>>] = Live <=> r = current
  /\ \A r \in shared : \A v \in In(listed[r]) :
       LET now == VoteOf(r, v) IN
       \/ now.to = "vote" /\ now.at = VotesOf(r) /\ v \in In(listed[now.at])
       \/ now.to = "nothing" /\ v \notin In(listed[VotesOf(r)])
       \/ now.to = "votes" /\ now.at = VotesOf(r) /\ v \in cast
=============================================================================
