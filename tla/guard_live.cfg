CONSTANTS
  Calls = {"c1", "c2", "c3"}
  NoCall = NoCall
  NoPayload = NoPayload
  Proposals <- MCProposals
  Records <- MCRecords
  Payloads <- MCPayloads
  Predicates <- MCPredicates
  Seeded <- MCSeeded
  ProposalOf <- WithRival
  Plan <- MCPlan
  Faults = {"lost_reply", "late_commit", "interrupt"}
  Dispatched = {"c1", "c2"}
SPECIFICATION FairSpec
CHECK_DEADLOCK FALSE
PROPERTIES
  StartedCallsEnd
  LaneIsFreedAgain
