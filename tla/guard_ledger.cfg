CONSTANTS
  Calls = {"c1", "c2", "c3"}
  NoCall = NoCall
  NoPayload = NoPayload
  Proposals <- MCProposals
  Records <- MCRecords
  Payloads <- MCPayloads
  Predicates <- MCPredicates
  Seeded <- MCSeeded
  ProposalOf <- WithProjection
  Plan <- MCPlan
  Faults = {"read_error", "garbled", "interrupt"}
  Dispatched = {"c1", "c2", "c3"}
SPECIFICATION Spec
CHECK_DEADLOCK FALSE
INVARIANTS
  NoDanglingReference
PROPERTIES
  ImplementsLedger
