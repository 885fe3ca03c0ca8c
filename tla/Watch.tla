-------------------------------- MODULE Watch --------------------------------
(***************************************************************************)
(* What is due: Claims whose verification has aged, and registered feeds   *)
(* that were not retrieved in time.  Both reports are pure functions of    *)
(* the records and an instant, and refuse what lies after it.              *)
(***************************************************************************)
EXTENDS Search

CONSTANTS
    ReviewAfter,  \* predicate -> the time a verification holds
    PollAfter,    \* feed -> the time a retrieval holds
    Feed          \* feed -> its Source

\* verified_at of a Claim that nobody verified
Never == 0

\* What holds for a time holds for some time at least.
ASSUME WatchAssumption ==
    /\ \A c \in DOMAIN Claim :
        Claim[c].verified \in Nat /\ ReviewAfter[Claim[c].predicate] \in Nat \ {0}
    /\ \A f \in DOMAIN Feed : PollAfter[f] \in Nat \ {0}

Report(asof, items) == [asof |-> asof, items |-> items]

-----------------------------------------------------------------------------
ReviewDue(c) == Claim[c].verified + ReviewAfter[Claim[c].predicate]

\* Mutant: a deadline is over only after its instant.
ReviewStatusLate(c, asof) ==
    IF Claim[c].verified = Never THEN "unverified"
    ELSE IF asof > ReviewDue(c) THEN "due" ELSE "fresh"

ReviewStatus(c, asof) ==
    IF Claim[c].verified = Never THEN "unverified"
    ELSE IF asof >= ReviewDue(c) THEN "due" ELSE "fresh"

StalenessBuilds(claims, asof) ==
    \A c \in claims : Visible(c) => Claim[c].verified <= asof

Staleness(claims, asof) ==
    Report(asof,
        {[claim |-> c, state |-> Claim[c].state, confidence |-> Claim[c].confidence,
          verified |-> Claim[c].verified, status |-> ReviewStatus(c, asof),
          due |-> IF Claim[c].verified = Never THEN Never ELSE ReviewDue(c)]
            : c \in {x \in claims : Visible(x)}})

-----------------------------------------------------------------------------
\* A receipt is a successful retrieval: [feed, at].
FreshnessBuilds(receipts, asof) ==
    \A r \in receipts : r.feed \in DOMAIN Feed /\ r.at <= asof

Times(receipts, feed) == {r.at : r \in {x \in receipts : x.feed = feed}}

LastRetrieved(receipts, feed) ==
    IF Times(receipts, feed) = {} THEN Never
    ELSE CHOOSE t \in Times(receipts, feed) : \A u \in Times(receipts, feed) : u <= t

PollStatus(receipts, feed, asof) ==
    LET last == LastRetrieved(receipts, feed)
    IN  IF last = Never THEN "never_retrieved"
        ELSE IF asof >= last + PollAfter[feed] THEN "due" ELSE "fresh"

\* Feeds of an inactive Source are not watched.
Freshness(receipts, asof) ==
    Report(asof,
        {[source |-> Feed[f], feed |-> f, class |-> Source[Feed[f]].class,
          latest |-> LastRetrieved(receipts, f), status |-> PollStatus(receipts, f, asof),
          due |-> IF LastRetrieved(receipts, f) = Never THEN Never
                  ELSE LastRetrieved(receipts, f) + PollAfter[f]]
            : f \in {x \in DOMAIN Feed : Source[Feed[x]].active}})
=============================================================================
