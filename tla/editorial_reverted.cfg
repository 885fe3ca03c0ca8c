SPECIFICATION ReviewSpec
CONSTANTS
  official = official
  update = update
  lead = lead
  report = report
  before = before
  after = after
  Feeds <- MCFeeds
  Contents <- MCContents
  Policies <- MCPolicies
  DiscoveryOnly <- MCDiscoveryOnly
  Authoritative <- MCAuthoritative
  Relevant <- MCRelevant
  Restricted <- MCRestricted
  Pressing <- MCPressing
  Allowlisted <- MCAllowlisted
  MaxFetches = 3
  NoDocument = NoDocument
  NoItem = NoItem
  NoContent = NoContent
  Runs = {r1, r2}
  NoRun = NoRun
SYMMETRY MCSymmetry
INVARIANTS
  DocumentIsImmutable
