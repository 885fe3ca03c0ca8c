--------------------------- MODULE EditorialAudit ---------------------------
(***************************************************************************)
(* The editorial audit and its daily brief.  The audit derives findings    *)
(* from a staleness report, a freshness report and a snapshot of the       *)
(* queue, all of one instant; the brief trusts no report and checks every  *)
(* finding again before it passes it on.                                   *)
(***************************************************************************)
EXTENDS Watch

ClaimReasons(i) ==
    {<<"review", s>> : s \in {i.status} \ {"fresh"}}
    \cup {<<"claim_state", s>> : s \in {i.state} \cap {"disputed"}}
    \cup {<<"confidence", s>> : s \in {i.confidence} \cap {"unverified"}}
ClaimPriority(i) ==
    IF i.state = "disputed" \/ i.status = "unverified" \/ i.confidence = "unverified"
    THEN "high" ELSE "normal"
SourceReasons(i) == {<<"acquisition", i.status>>, <<"source_class", i.class>>}
SourcePriority(i) ==
    IF i.status = "never_retrieved" /\ i.class \in {"A", "B"} THEN "high" ELSE "normal"
QueueReasons(i) == {<<"lane", i.lane>>, <<"state", i.state>>, <<"queue_priority", i.priority>>}
QueuePriority(i) ==
    IF i.priority = "high" \/ i.lane = "restricted_human" THEN "high" ELSE "normal"

Finding(kind, subject, key, reasons, priority, context) ==
    [kind |-> kind, subject |-> subject, key |-> key, reasons |-> reasons,
     priority |-> priority, context |-> context]

ClaimFindings(staleness) ==
    {Finding("claim_review_required", i.claim, i.claim, ClaimReasons(i), ClaimPriority(i), i)
        : i \in {x \in staleness.items : ClaimReasons(x) # {}}}
SourceFindings(freshness) ==
    {Finding("source_monitoring_required", i.source, i.feed, SourceReasons(i), SourcePriority(i), i)
        : i \in {x \in freshness.items : x.status # "fresh"}}

\* Mutant: an item that somebody claimed needs nobody.
IsQueued(i) == i.state = "queued"

IsOpen(i) == i.state \in {"queued", "claimed"}
QueueFindings(queue) ==
    {Finding("queue_action_required", i.id, i.id, QueueReasons(i), QueuePriority(i), i)
        : i \in {x \in queue.items : IsOpen(x)}}

-----------------------------------------------------------------------------
(* The audit: its inputs are of its own instant.                           *)

IsAligned(staleness, freshness, queue, asof) ==
    staleness.asof = asof /\ freshness.asof = asof /\ queue.asof = asof

\* Only the extraction lane allows extraction.
QueueFits(queue, asof) ==
    \A i \in queue.items :
        i.created <= asof /\ (i.extraction <=> i.lane = "candidate_extraction")

AuditBuilds(staleness, freshness, queue, asof) ==
    IsAligned(staleness, freshness, queue, asof) /\ QueueFits(queue, asof)

Audit(staleness, freshness, queue, asof) ==
    [asof |-> asof,
     findings |-> ClaimFindings(staleness) \cup SourceFindings(freshness) \cup QueueFindings(queue)]

-----------------------------------------------------------------------------
(* The brief: each finding has to follow from its own context.             *)

\* The dates of a status: none, or a deadline that is over, or one to come.
DatesFit(from, due, over, asof) ==
    /\ from <= asof /\ from < due
    /\ over <=> due <= asof

ClaimFits(f, asof) ==
    LET i == f.context
    IN  /\ f.subject = i.claim
        /\ IF i.status = "unverified" THEN i.verified = Never /\ i.due = Never
           ELSE i.verified # Never /\ DatesFit(i.verified, i.due, i.status = "due", asof)
        /\ f.reasons = ClaimReasons(i) /\ f.reasons # {} /\ f.priority = ClaimPriority(i)
SourceFits(f, asof) ==
    LET i == f.context
    IN  /\ f.subject = i.source
        /\ i.status \in {"due", "never_retrieved"}
        /\ IF i.status = "never_retrieved" THEN i.latest = Never /\ i.due = Never
           ELSE i.latest # Never /\ DatesFit(i.latest, i.due, TRUE, asof)
        /\ f.reasons = SourceReasons(i) /\ f.priority = SourcePriority(i)
ItemFits(f, asof) ==
    LET i == f.context
    IN  /\ f.subject = i.id /\ IsOpen(i) /\ i.created <= asof
        /\ f.reasons = QueueReasons(i) /\ f.priority = QueuePriority(i)

FindingFits(f, asof) ==
    \/ f.kind = "claim_review_required" /\ ClaimFits(f, asof)
    \/ f.kind = "source_monitoring_required" /\ SourceFits(f, asof)
    \/ f.kind = "queue_action_required" /\ ItemFits(f, asof)

\* One action for a Claim, a queue item, a feed: a Source may have several feeds.
ActionKeysDiffer(findings) ==
    \A f, g \in findings : f.kind = g.kind /\ f.key = g.key => f = g

BriefBuilds(report) ==
    (\A f \in report.findings : FindingFits(f, report.asof)) /\ ActionKeysDiffer(report.findings)

OfKind(findings, kind) == {f \in findings : f.kind = kind}
Brief(report) ==
    [asof |-> report.asof,
     high_priority |-> {f \in report.findings : f.priority = "high"},
     claim_review |-> OfKind(report.findings, "claim_review_required"),
     source_monitoring |-> OfKind(report.findings, "source_monitoring_required"),
     editorial_queue |-> OfKind(report.findings, "queue_action_required")]
=============================================================================
