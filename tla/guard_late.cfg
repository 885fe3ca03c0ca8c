CONSTANTS
  Calls = {"c1", "c2", "c3"}
  NoCall = NoCall
  NoPayload = NoPayload
  Proposals <- MCProposals
  Records <- MCRecords
  Payloads <- MCPayloads
  Predicates <- MCPredicates
  Seeded <- MCSeeded
  ProposalOf <- ThreeOfOne
  Plan <- MCPlan
  Faults = {"read_error", "lost_reply", "late_commit", "crash"}
  Dispatched = {"c1", "c2", "c3"}
SPECIFICATION Spec
CHECK_DEADLOCK FALSE
INVARIANTS
  OneRevisionPerProposal
  RevisionIsBacked
  FailedHasNoEffect
