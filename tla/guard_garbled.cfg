CONSTANTS
  Calls = {"c1", "c2", "c3"}
  NoCall = NoCall
  NoPayload = NoPayload
  Proposals <- MCProposals
  Records <- MCRecords
  Payloads <- MCPayloads
  Predicates <- MCPredicates
  Seeded <- MCSeeded
  ProposalOf <- WithRival
  Plan <- MCPlan
  Faults = {"garbled"}
  Dispatched = {"c1", "c2", "c3"}
SPECIFICATION Spec
CHECK_DEADLOCK FALSE
INVARIANTS
  FailedHasNoEffect
