CONSTANTS
  Calls = {"c1", "c2", "c3"}
  NoCall = NoCall
  NoPayload = NoPayload
  Proposals <- MCProposals
  Records <- MCRecords
  Payloads <- MCPayloads
  Predicates <- MCPredicates
  Seeded <- MCSeeded
  ProposalOf <- WithReuse
  Plan <- MCPlan
  Faults = {"lost_reply", "garbled", "crash"}
  Dispatched = {"c1", "c2", "c3"}
SPECIFICATION Spec
CHECK_DEADLOCK FALSE
INVARIANTS
  TypeOK
  LaneIsExclusive
  OneItemPerRecord
  ConvergedStaysCanonical
  AppliedIsOwnWrite
PROPERTIES
  SavesAreFenced
