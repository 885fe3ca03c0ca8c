SPECIFICATION Spec
CONSTANTS
    Runs <- MCRuns
    Kind <- MCKind
    Output <- MCOutput
    Together <- MCTogether
    Args <- MCArgs
    Corpora <- MCCorpora
    Responses <- MCResponses
    Official <- MCOfficial
    MaxResponseBytes = 2
    TextLength = 2
    Texts <- MCTexts
    Selections <- MCSelections
    HandMade <- MCHandMade
    Drafts <- MCDrafts
    Fitting <- MCFitting
    Registry = terms
    Restricted = {secret}
    Colliding = {base}
    None = None
    e1 = e1
    e2 = e2
    d1 = d1
    d2 = d2
    a1 = a1
    corpus = corpus
    article = article
    wide = wide
    narrow = narrow
    both = both
    loose = loose
    other = other
    ship = ship
    base = base
    v1 = v1
    v2 = v2
    secret = secret
    ev1 = ev1
    ev2 = ev2
    t = t
    u = u
    p = p
    k1 = k1
    k2 = k2
    k3 = k3
    gap = gap
    terms = terms
SYMMETRY MCSymmetry
INVARIANTS
    VouchedReportIsWhole
    QualifiedMeansProven
    AcceptedDraftIsGrounded
    CallsAreEvidenced
PROPERTIES
    EvidenceIsImmutable
CHECK_DEADLOCK FALSE
