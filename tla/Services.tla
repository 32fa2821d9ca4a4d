------------------------------- MODULE Services -------------------------------
(***************************************************************************)
(* The services of the client that share no state: the votes, the nodes    *)
(* that answer, the session, the workloads.  They are independent, so a    *)
(* behaviour takes the steps of one of them: the interleavings of several  *)
(* add nothing to what each does.                                          *)
(***************************************************************************)
EXTENDS Votes, Nodes, Session, Workload

VARIABLE
  active  \* the service this behaviour is about

servicesVars == <<active, votesVars, nodesVars, sessionVars, workloadVars>>

ServicesInit ==
  /\ active \in {"votes", "nodes", "session", "workload"}
  /\ VotesInit /\ NodesInit /\ SessionInit /\ WorkloadInit

OnVotes ==
  /\ active = "votes" /\ VotesNext
  /\ UNCHANGED <<active, nodesVars, sessionVars, workloadVars>>

OnNodes ==
  /\ active = "nodes" /\ NodesNext
  /\ UNCHANGED <<active, votesVars, sessionVars, workloadVars>>

OnSession ==
  /\ active = "session" /\ SessionNext
  /\ UNCHANGED <<active, votesVars, nodesVars, workloadVars>>

OnWorkload ==
  /\ active = "workload" /\ WorkloadNext
  /\ UNCHANGED <<active, votesVars, nodesVars, sessionVars>>

ServicesNext == OnVotes \/ OnNodes \/ OnSession \/ OnWorkload

Spec == ServicesInit /\ [][ServicesNext]_servicesVars
=============================================================================
