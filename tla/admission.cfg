CONSTANTS
    rsaf = rsaf
    wing = wing
    force = force
    unit = unit
    service = service
    x1 = x1
    x2 = x2
    f15 = f15
    f16 = f16
    p = p
    q = q
    t = t
    u = u
    none = none
    NotExtracted = NotExtracted
    Entities <- MCEntities
    Mentions <- MCMentions
    Scalars <- MCScalars
    Predicates <- MCPredicates
    Validities <- MCValidities
    Points = {t, u}
    BlockedByPolicy = {q}
    Quantities = {}
    Signature <- MCSignature
    Named <- MCNamed
    Alike <- MCAlike
    Extractions = {x1, x2}
    ClaimsOf <- MCClaimsOf
    EventsOf <- MCEventsOf
    EvidenceOf <- MCEvidenceOf
    Seed <- MCSeed
    Curated <- MCCurated
    NoExtraction = NotExtracted
    Verdicts <- MCVerdicts
    MaxResolutions = 2
    MaxDecisions = 3
SPECIFICATION Spec
CHECK_DEADLOCK FALSE
INVARIANTS
    AdmissionTypeOK
    CanonicalIsApproved
    OneRecordPerId
    NoRivalOverlooked
    DisputesHaveTwoSides
    OneReadingPerMention
    NoTwinOverlooked
