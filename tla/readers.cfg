SPECIFICATION Spec
CONSTANTS
    Entity <- MCEntity
    Claim <- MCClaim
    Event <- MCEvent
    Evidence <- MCEvidence
    Document <- MCDocument
    Source <- MCSource
    Angle <- MCAngle
    Language <- MCLanguage
    Fold <- MCFold
    Latin <- MCLatin
    Spelled <- MCSpelled
    Named <- MCNamed
    Aliased <- MCAliased
    Described <- MCDescribed
    Alphabet <- MCAlphabet
    Facets <- MCFacets
    Revised <- MCRevised
    CompactLength = 4
    QueryLength = 5
    HitLimit = 2
    ReviewAfter <- MCReviewAfter
    PollAfter <- MCPollAfter
    Feed <- MCFeed
    Plans <- MCPlans
    Steps <- MCSteps
    Seeded <- MCSeeded
    Target = "f15"
    Place <- MCPlace
    MaxReads = 2
    Shifts <- MCShifts
    Start = 2
    MaxNow = 3
    MaxReceipts = 2
    Work <- MCWork
    Requests <- MCRequests
INVARIANTS
    BundleIsCited
    BriefMissesNothing
PROPERTIES
    ViewsDoNotContradict
    PublishedCanBeFound
    BuiltViewsAreAccepted
CHECK_DEADLOCK FALSE
