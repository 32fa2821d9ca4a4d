------------------------------- MODULE Session -------------------------------
(***************************************************************************)
(* packages/client/src/AuthenticationClient.ts and the session of          *)
(* LogionClient.ts: the tokens of the authenticated addresses, the current *)
(* address, and refreshTokens, that an application calls every Period.     *)
(*                                                                         *)
(* Tokens are what is left of their validity, so that time need not grow.  *)
(* A LogionClient is immutable: an application that called two of its      *)
(* operations at once would keep the client one of them returned, so it    *)
(* calls one at a time, and refreshTokens first when it is due.            *)
(***************************************************************************)
EXTENDS Naturals, FiniteSetsExt

CONSTANTS
  Addresses,   \* what one can authenticate
  Validity,    \* what a new token is valid for
  Threshold,   \* given to refreshTokens
  Period,      \* the application calls refreshTokens that often
  Latency,     \* bound: what a node takes to answer
  MaxFailures  \* bound: failures in a row

ASSUME SessionAssumption ==
  /\ Validity \in Nat /\ Threshold \in Nat /\ Period \in Nat \ {0}
  /\ Latency \in Nat /\ MaxFailures \in Nat
  /\ Threshold >= (MaxFailures + 1) * (Period + Latency) + Latency
  /\ Validity > Threshold

VARIABLES
  left,        \* AccountTokens: what is left of each address's token
  current,     \* currentAddress
  held,        \* the token the legal officers of the client send: whose, and what is left of it
  call,        \* the operation in flight, for whom, and since when
  idle,        \* since when refreshTokens was not called
  failures     \* calls of refreshTokens that failed, in a row

sessionVars == <<left, current, held, call, idle, failures>>

NoAddress == "none"
NoToken == [of |-> NoAddress, left |-> 0]
NoCall == [name |-> "none", for |-> {}, since |-> 0]

(* Tokens of the store, expired or not, have an entry; 0 is expired. *)
Absent == Validity + 1
Known == {a \in Addresses : left[a] # Absent}

SessionInit ==
  /\ left = [a \in Addresses |-> Absent]
  /\ current = NoAddress
  /\ held = NoToken
  /\ call = NoCall
  /\ idle = 0
  /\ failures = 0

TokenOf(tokens, a) ==
  IF a \in Addresses /\ tokens[a] # Absent THEN [of |-> a, left |-> tokens[a]] ELSE NoToken

-----------------------------------------------------------------------------
(* LogionClient.authenticate *)
Authenticate(addresses) ==
  /\ call = NoCall /\ idle < Period /\ addresses # {}
  /\ call' = [name |-> "authenticate", for |-> addresses, since |-> 0]
  /\ UNCHANGED <<left, current, held, idle, failures>>

(* AccountTokens.merge, useTokens, then withCurrentAddress. *)
Authenticated ==
  LET merged == [a \in Addresses |-> IF a \in call.for THEN Validity ELSE left[a]]
      now    == IF current = NoAddress /\ Cardinality(call.for) = 1
                THEN CHOOSE a \in call.for : TRUE ELSE current IN
  /\ call.name = "authenticate"
  /\ left' = merged
  /\ current' = now
  /\ held' = TokenOf(merged, now)
  /\ call' = NoCall
  /\ UNCHANGED <<idle, failures>>

(* withCurrentAddress *)
WithCurrentAddress(a) ==
  /\ call = NoCall
  /\ current' = a
  /\ held' = TokenOf(left, a)
  /\ UNCHANGED <<left, call, idle, failures>>

(* logout: the legal officers keep the token they had. *)
Logout ==
  /\ call = NoCall /\ Known # {}
  /\ left' = [a \in Addresses |-> Absent]
  /\ current' = NoAddress
  /\ UNCHANGED <<held, call, idle, failures>>

-----------------------------------------------------------------------------
(* Mutant of EarliestExpiration: the comparison the other way. *)
LatestExpiration(tokens) == Max({tokens[a] : a \in Addresses} \ {Absent})

(* AccountTokens.earliestExpiration *)
EarliestExpiration(tokens) == Min({tokens[a] : a \in Addresses} \ {Absent})

(* LogionClient.refreshTokens: nothing to do, or a request to the first    *)
(* node, with every token.                                                 *)
RefreshTokens ==
  /\ call = NoCall /\ idle >= Period
  /\ idle' = 0
  /\ call' = IF Known = {} \/ EarliestExpiration(left) > Threshold THEN NoCall
             ELSE [name |-> "refresh", for |-> Known, since |-> 0]
  /\ UNCHANGED <<left, current, held, failures>>

(* The answer has new tokens for those that were still valid; the store is *)
(* replaced by it.                                                         *)
Refreshed(served) ==
  LET renewed == [a \in Addresses |-> IF a \in served THEN Validity ELSE Absent] IN
  /\ call.name = "refresh"
  /\ served = {a \in call.for : left[a] > 0}
  /\ left' = renewed
  /\ held' = TokenOf(renewed, current)
  /\ call' = NoCall
  /\ failures' = 0
  /\ UNCHANGED <<current, idle>>

(* doWithFirstAvailableNode returns its promise without awaiting it: when  *)
(* the first node fails, so does the operation, whatever the other nodes.  *)
CallFails ==
  /\ call # NoCall
  /\ call.name = "refresh" => failures < MaxFailures
  /\ failures' = IF call.name = "refresh" THEN failures + 1 ELSE failures
  /\ call' = NoCall
  /\ UNCHANGED <<left, current, held, idle>>

-----------------------------------------------------------------------------
(* Time passes; the application and the nodes are punctual. *)
TimePasses ==
  /\ call = NoCall => idle < Period
  /\ call # NoCall => call.since < Latency
  /\ left' = [a \in Addresses |-> IF left[a] \in {0, Absent} THEN left[a] ELSE left[a] - 1]
  /\ held' = [held EXCEPT !.left = IF @ = 0 THEN 0 ELSE @ - 1]
  /\ idle' = IF idle < Period THEN idle + 1 ELSE idle
  /\ call' = IF call = NoCall THEN NoCall ELSE [call EXCEPT !.since = @ + 1]
  /\ UNCHANGED <<current, failures>>

SessionNext ==
  \/ \E addresses \in SUBSET Addresses : Authenticate(addresses)
  \/ Authenticated
  \/ \E a \in Addresses : WithCurrentAddress(a)
  \/ Logout
  \/ RefreshTokens
  \/ \E served \in SUBSET Addresses : Refreshed(served)
  \/ CallFails
  \/ TimePasses

-----------------------------------------------------------------------------
(* A session lives as long as its application refreshes it: through        *)
(* MaxFailures failures in a row, whatever the ages of the tokens of its   *)
(* addresses, none of them expires, and the legal officers are sent the    *)
(* token of the current address, the last one received.                    *)
SessionSurvives ==
  /\ \A a \in Known : left[a] > 0
  /\ current \in Known => held = [of |-> current, left |-> left[current]]
=============================================================================
