SPECIFICATION Spec
CONSTANTS
  VoteIds <- MCVoteIds
  VoteCallers <- MCVoteCallers
  MaxVotes = 3
  NodeSet <- MCNodeSet
  HttpClients <- MCHttpClients
  MaxLogion = 2
  Addresses <- MCAddresses
  Validity = 9
  Threshold = 7
  Period = 2
  Latency = 1
  MaxFailures = 1
  Workloads <- MCWorkloads
  Readers <- MCReaders
  Ttl = 2
  Travel = 1
  n1 = n1
  n2 = n2
  h1 = h1
  h2 = h2
  c1 = c1
  c2 = c2
  r1 = r1
  r2 = r2
  r3 = r3
SYMMETRY MCSymmetry
INVARIANTS
  VotesLeadToListed
  NoNodeIsLost
  SessionSurvives
  WorkloadIsRecent
\* Bounded: MaxVotes Votes objects, MaxLogion clients.
CHECK_DEADLOCK FALSE
