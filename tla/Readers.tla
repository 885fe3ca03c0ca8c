------------------------------- MODULE Readers -------------------------------
(***************************************************************************)
(* What readers and editors are shown of canonical records: a bundle, read *)
(* back through the adapter while plans write or taken from the records    *)
(* themselves, is published as views; the desk opens rounds, each with its *)
(* own instant, and takes two reports and a snapshot of the queue for it,  *)
(* one after another, while feeds are retrieved and the queue moves on.    *)
(***************************************************************************)
EXTENDS PublicRead

CONSTANTS
    Shifts,      \* what goes on: [kind, progress, plans], where the kind
                 \* is "adapter", "records" or "desk"
    Start,       \* the first instant
    MaxNow,      \* bound on the instants
    MaxReceipts, \* bound on the retrievals
    Work,        \* queue item -> [lane, priority, extraction]
    Requests     \* the graphs that are asked for: [roots, domains]

\* While the desk works no plan writes; the clock starts after Never.
ASSUME ShiftsAssumption ==
    \A s \in Shifts :
        /\ IsProgress(s.progress) /\ s.plans \subseteq Plans
        /\ s.kind = "desk" => s.plans = {}
ASSUME StartAssumption == Start \in Nat \ {Never}

VARIABLES
    shift,     \* which of Shifts this is
    site,      \* what is published: [bundle, staleness]
    now,
    receipts,
    queue,     \* queue items
    round      \* [pc, asof, staleness, freshness, queue, report, brief]

deskVars == <<now, receipts, queue>>
vars == <<readVars, deskVars, shift, site, round>>

NoReport == Report(Never, {})
Unread == [done |-> FALSE, bundle |-> NoBundle, staleness |-> NoReport]

Init ==
    /\ shift \in Shifts
    /\ ReadInit(shift.progress)
    /\ site = Unread
    /\ now = Start /\ receipts = {} /\ queue = {}
    /\ round = [pc |-> "none", asof |-> Never, staleness |-> NoReport, freshness |-> NoReport,
                queue |-> NoReport, report |-> {}, brief |-> {}]

-----------------------------------------------------------------------------
(* Publishing                                                              *)

\* The adapter's bundle once it is complete, or the records as they are.
Bundles ==
    CASE shift.kind = "adapter" /\ reader.pc = "read" -> {reader.bundle}
      [] shift.kind = "records" -> {Canon}
      [] OTHER -> {}

\* A bound: one publication, of any bundle there is.
Publish(b) ==
    /\ ~site.done /\ b \in Bundles
    /\ site' = [done |-> TRUE, bundle |-> b, staleness |-> round.staleness]
    /\ UNCHANGED <<readVars, deskVars, shift, round>>

-----------------------------------------------------------------------------
(* The desk: events                                                        *)

\* A bound: the shift of the desk ends with its brief.
AtDesk == shift.kind = "desk" /\ round.pc # "briefed"

Tick ==
    /\ AtDesk /\ now < MaxNow
    /\ now' = now + 1
    /\ UNCHANGED <<readVars, receipts, queue, shift, site, round>>

\* Only a successful retrieval leaves a receipt.
Retrieve(f) ==
    /\ AtDesk /\ Cardinality(receipts) < MaxReceipts
    /\ receipts' = receipts \cup {[feed |-> f, at |-> now]}
    /\ UNCHANGED <<readVars, now, queue, shift, site, round>>

Enqueue(id) ==
    /\ AtDesk /\ \A i \in queue : i.id # id
    /\ queue' = queue \cup {[id |-> id, state |-> "queued", lane |-> Work[id].lane,
                             priority |-> Work[id].priority, created |-> now,
                             extraction |-> Work[id].extraction]}
    /\ UNCHANGED <<readVars, now, receipts, shift, site, round>>

Handle(i, state) ==
    /\ AtDesk /\ i \in queue
    /\ <<i.state, state>> \in {<<"queued", "claimed">>, <<"claimed", "completed">>}
    /\ queue' = (queue \ {i}) \cup {[i EXCEPT !.state = state]}
    /\ UNCHANGED <<readVars, now, receipts, shift, site, round>>

-----------------------------------------------------------------------------
(* The desk: a round                                                       *)

OpenRound ==
    /\ shift.kind # "adapter" /\ round.pc \in {"none", "refused"}
    /\ round' = [round EXCEPT !.pc = "open", !.asof = now, !.staleness = NoReport,
                              !.freshness = NoReport, !.queue = NoReport]
    /\ UNCHANGED <<readVars, deskVars, shift, site>>

\* The inputs are taken in the order in which the audit names them.  A report
\* of what lies after its instant is refused.
TakeStaleness ==
    /\ round.pc = "open" /\ round.staleness = NoReport
    /\ round' = IF StalenessBuilds(Canon.claims, round.asof)
                THEN [round EXCEPT !.staleness = Staleness(Canon.claims, round.asof)]
                ELSE [round EXCEPT !.pc = "refused"]
    /\ UNCHANGED <<readVars, deskVars, shift, site>>

TakeFreshness ==
    /\ AtDesk /\ round.pc = "open" /\ round.staleness # NoReport /\ round.freshness = NoReport
    /\ round' = IF FreshnessBuilds(receipts, round.asof)
                THEN [round EXCEPT !.freshness = Freshness(receipts, round.asof)]
                ELSE [round EXCEPT !.pc = "refused"]
    /\ UNCHANGED <<readVars, deskVars, shift, site>>

\* A snapshot carries the instant of its capture.
SnapshotQueue ==
    /\ AtDesk /\ round.pc = "open" /\ round.freshness # NoReport /\ round.queue = NoReport
    /\ round' = [round EXCEPT !.queue = Report(now, queue)]
    /\ UNCHANGED <<readVars, deskVars, shift, site>>

WriteAudit ==
    /\ round.pc = "open" /\ NoReport \notin {round.staleness, round.freshness, round.queue}
    /\ LET audit == Audit(round.staleness, round.freshness, round.queue, round.asof)
       IN  round' = IF AuditBuilds(round.staleness, round.freshness, round.queue, round.asof)
                    THEN [round EXCEPT !.pc = "audited", !.report = {audit}]
                    ELSE [round EXCEPT !.pc = "refused"]
    /\ UNCHANGED <<readVars, deskVars, shift, site>>

\* The brief of the audit, unless it is refused.
WriteBrief ==
    /\ round.pc = "audited"
    /\ round' = [round EXCEPT !.pc = "briefed",
                              !.brief = {Brief(a) : a \in {r \in round.report : BriefBuilds(r)}}]
    /\ UNCHANGED <<readVars, deskVars, shift, site>>

Next ==
    \/ ReadNext(shift.plans, shift.kind = "adapter") /\ UNCHANGED <<deskVars, shift, site, round>>
    \/ \E b \in Bundles : Publish(b)
    \/ Tick
    \/ \E f \in DOMAIN Feed : Retrieve(f)
    \/ \E id \in DOMAIN Work : Enqueue(id)
    \/ \E i \in queue : Handle(i, "claimed") \/ Handle(i, "completed")
    \/ OpenRound \/ TakeStaleness \/ TakeFreshness \/ SnapshotQueue
    \/ WriteAudit \/ WriteBrief

Spec == Init /\ [][Next]_vars

-----------------------------------------------------------------------------
(* Properties                                                              *)

\* Whatever the plans write while the adapter reads, every Claim and every
\* Event of a complete bundle has its Evidence, Documents and Sources in it:
\* WikibaseM1ReadAdapter.read_bundle lists the items anew for each kind, and
\* the kinds that are cited after the kinds that cite.
BundleIsCited ==
    \A b \in {site.bundle} \cup (IF reader.pc = "read" THEN {reader.bundle} ELSE {}) :
        /\ \A c \in b.claims : ChainIsWhole(Claim[c].links, b)
        /\ \A e \in b.events : ChainIsWhole(Event[e].links, b)

\* A bundle that is published, with the report it is published with.
IsPublished == site' # site

GraphsShown(b, report) ==
    {Graph(q.roots, q.domains, b) : q \in {r \in Requests : GraphBuilds(r.roots, r.domains, b)}}
    \cup {DomainView(x[1], x[2], b).graph :
            x \in {y \in (DOMAIN Entity) \X (DOMAIN DomainEvents) : DomainBuilds(y[1], y[2], b, report)}}
PagesShown(b) == {Equipment(e, b) : e \in {x \in DOMAIN Entity : EquipmentBuilds(x, b)}}
MapShown(b) == IF MapBuilds(b) THEN PublicMapView(b) ELSE {}

\* What one view shows as settled no published record disputes, and no view
\* is silent on what another tells: a position on the map (build_public_map)
\* is that of all the eligible coordinates of its facility, none disputed,
\* and within half a cell of it; a page (build_equipment_view) has every
\* record of a graph (build_relationship_graph) that starts from its Entity.
Consistent(b) ==
    /\ \A x \in MapShown(b) : \A p \in Coordinates :
        /\ Disputed(x.entity, p, b) = {}
        /\ Eligible(x.entity, p, b) \subseteq x.coordinates
        /\ \A c \in Eligible(x.entity, p, b), a \in x.position[p] : a - Angle[c] \in -5..5
    /\ \A v \in PagesShown(b), d \in DOMAIN DomainEvents :
        GraphBuilds({v.id}, {d}, b) => Graph({v.id}, {d}, b).records \subseteq v.facts \cup v.events
ViewsDoNotContradict == [][IsPublished => Consistent(site'.bundle)]_vars

\* Every Entity that a graph, the map or the filters name can be looked up:
\* it has a search document (build_search_document), and the search for its
\* ID, unless that is too long to ask, finds it alone when one hit is asked
\* for (execute_reference_lexical_search); the search for a name of it finds
\* it as well, unless more records answer to that name than a query may have
\* hits.
Findable(b, report) ==
    LET docs == Index(b)
        shown == MapShown(b)
        named == (UNION {g.entities : g \in GraphsShown(b, report)})
                 \cup (UNION {{x.entity} \cup x.organizations : x \in shown})
                 \cup IF NavigationBuilds(docs, {})
                      THEN UNION {Options(docs, f) : f \in DOMAIN FacetTypes} ELSE {}
    IN  \A e \in named : \E d \in docs :
            /\ d.id = e
            /\ IsAskable(Spelled[e]) =>
                /\ SearchRuns(docs, Spelled[e], 1)
                /\ Hits(docs, Spelled[e], NoFilters, 1) = {d}
            /\ \A t \in Named[e] : IsAskable(t) =>
                /\ SearchRuns(docs, t, HitLimit)
                /\ d \in Hits(docs, t, NoFilters, HitLimit)
                   \/ Cardinality(Homonyms(docs, t)) > HitLimit
PublishedCanBeFound == [][IsPublished => Findable(site'.bundle, site'.staleness)]_vars

\* What one builder makes the next one accepts: a graph its figure and,
\* unless an Event cites one Evidence in two roles, the timeline; the map
\* its payload; an equipment view its page, which names only Entities of the
\* view; and the audit (build_editorial_audit_report) its brief
\* (build_daily_editorial_brief), which checks every finding again.
Accepted(b, report) ==
    LET graphs == GraphsShown(b, report)
    IN  /\ \A g \in graphs : FigureBuilds(g)
        /\ TimelineBuilds({g \in graphs : \A e \in g.events : OneRoleEach(Event[e].links)})
        /\ PayloadBuilds(MapShown(b))
        /\ \A v \in PagesShown(b), f \in DOMAIN FieldPredicates :
            PageShows(f, v) \subseteq
                {"unknown", "disputed", v.id} \cup v.related
                \cup {Claim[c].value : c \in {x \in v.facts : Claim[x].kind # "entity"}}
BuiltViewsAreAccepted ==
    [][/\ IsPublished => Accepted(site'.bundle, site'.staleness)
       /\ WriteBrief => round'.brief # {}]_vars

\* What was due at the instant of the brief: a visible Claim that is disputed,
\* unverified or not verified since its deadline, a watched feed without a
\* receipt in its interval, and an item from before that is still open.
NeedsReview(c) ==
    /\ Visible(c)
    /\ \/ Claim[c].state = "disputed" \/ Claim[c].confidence = "unverified"
       \/ Claim[c].verified = Never
       \/ Claim[c].verified \notin (round.asof - ReviewAfter[Claim[c].predicate] + 1)..round.asof
NeedsRetrieval(f) ==
    /\ Source[Feed[f]].active
    /\ \A r \in receipts : r.feed = f => r.at \notin (round.asof - PollAfter[f] + 1)..round.asof
NeedsWork(i) == i.state # "completed" /\ i.created < round.asof

\* A brief of the desk misses nothing that was due at its instant, though
\* its three inputs were taken one after another while feeds were retrieved
\* and the queue moved on (build_editorial_audit_report refuses the rest).
BriefMissesNothing ==
    \A b \in round.brief :
        /\ {c \in Canon.claims : NeedsReview(c)} = {f.key : f \in b.claim_review}
        /\ {f \in DOMAIN Feed : NeedsRetrieval(f)} \subseteq {f.key : f \in b.source_monitoring}
        /\ {i.id : i \in {x \in queue : NeedsWork(x)}} \subseteq {f.key : f \in b.editorial_queue}
        /\ {i.id : i \in {x \in queue : NeedsWork(x) /\ x.lane = "restricted_human"}}
              \subseteq {f.key : f \in b.high_priority}
=============================================================================
