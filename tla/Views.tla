-------------------------------- MODULE Views --------------------------------
(***************************************************************************)
(* The public views of canonical records: the relationship graph and its   *)
(* figure, the equipment page, the procurement and exercise views and the  *)
(* timeline.  Every builder is a pure function of one bundle, or refuses   *)
(* it: for a view V, VBuilds says which bundles it accepts and V what it   *)
(* makes of them.                                                          *)
(*                                                                         *)
(* Records are immutable and their identity is their content, so a bundle  *)
(* holds their IDs, kind by kind, and the tables say what they are.        *)
(***************************************************************************)
EXTENDS FiniteSets, Naturals, Sequences

CONSTANTS
    Entity,    \* ID -> [etype, subtype, status]
    Claim,     \* ID -> [subject, predicate, kind, value, scope, state, confidence, verified, links]
    Event,     \* ID -> [etype, dated, participants, related, claims, links]
    Evidence,  \* ID -> its Document
    Document,  \* ID -> its Source
    Source     \* ID -> [class, active]

Visible(c) == Claim[c].state \in {"active", "disputed"}

\* entity_value_id: NoEntity for a value of another kind
NoEntity == ""
ValueEntity(c) == IF Claim[c].kind = "entity" THEN Claim[c].value ELSE NoEntity

\* The schema asks for an ID wherever a Claim names an Entity.
ASSUME ClaimsAssumption ==
    /\ IsFiniteSet(DOMAIN Claim)
    /\ \A c \in DOMAIN Claim :
        Claim[c].subject # NoEntity /\ (Claim[c].kind = "entity" => Claim[c].value # NoEntity)

-----------------------------------------------------------------------------
(* Citations: a record is shown with every link of it, or not at all.      *)

\* Evidence is cited with its Document and its Source.
ChainIsWhole(links, b) ==
    \A l \in links :
        /\ l.evidence \in b.evidence
        /\ Evidence[l.evidence] \in b.documents
        /\ Document[Evidence[l.evidence]] \in b.sources

IsSupported(links) == \E l \in links : l.role = "supports"

\* Mutant: a link that contradicts is as good a citation as one that supports.
CitedByAny(links, b) == links # {} /\ ChainIsWhole(links, b)

Cited(links, b) == ChainIsWhole(links, b) /\ IsSupported(links)

-----------------------------------------------------------------------------
(* The relationship graph: one pass from the roots, never a second one.    *)

DomainPredicates ==
    [procurement |-> {"manufactures", "participates", "acquires", "part_of", "awarded_to"},
     exercise    |-> {"exercise_participant", "exercise_uses"}]
DomainEvents ==
    [procurement |-> {"contract_award", "delivery"}, exercise |-> {"exercise"}]

Participants(e) == {Event[e].participants[i].entity : i \in DOMAIN Event[e].participants}
Touched(e) == Participants(e) \cup Event[e].related

GraphClaims(roots, domains, b) ==
    {c \in b.claims :
        /\ Visible(c) /\ Claim[c].kind = "entity"
        /\ Claim[c].predicate \in UNION {DomainPredicates[d] : d \in domains}
        /\ {Claim[c].subject, ValueEntity(c)} \cap roots # {}}

GraphEvents(roots, domains, b) ==
    LET claims == GraphClaims(roots, domains, b)
    IN  {e \in b.events :
            /\ Event[e].etype \in UNION {DomainEvents[d] : d \in domains}
            /\ Touched(e) \cap roots # {} \/ Event[e].claims \cap claims # {}}

GraphEntities(roots, domains, b) ==
    roots \cup (UNION {{Claim[c].subject, ValueEntity(c)} : c \in GraphClaims(roots, domains, b)})
          \cup (UNION {Touched(e) : e \in GraphEvents(roots, domains, b)})

\* Mutant: an Entity that was merged into another one is still a node.
IsAnyNode(e, b) == e \in b.entities

IsNode(e, b) == e \in b.entities /\ Entity[e].status = "active"

\* One edge per participant and role.
RolesDiffer(e) ==
    LET p == Event[e].participants IN \A i, j \in DOMAIN p : p[i] = p[j] => i = j

GraphBuilds(roots, domains, b) ==
    /\ roots # {}
    /\ \A e \in GraphEntities(roots, domains, b) : IsNode(e, b)
    /\ \A c \in GraphClaims(roots, domains, b) : Cited(Claim[c].links, b)
    /\ \A e \in GraphEvents(roots, domains, b) : Cited(Event[e].links, b) /\ RolesDiffer(e)

ClaimEdge(c) ==
    [kind |-> "claim_relation", record |-> c, from |-> Claim[c].subject,
     to |-> ValueEntity(c), relation |-> Claim[c].predicate, links |-> Claim[c].links]
EventEdges(e) ==
    {[kind |-> "event_participation", record |-> e, from |-> e, to |-> p.entity,
      relation |-> p.role, links |-> Event[e].links]
        : p \in {Event[e].participants[i] : i \in DOMAIN Event[e].participants}}
    \cup {[kind |-> "event_related_entity", record |-> e, from |-> e, to |-> r,
           relation |-> "related_entity", links |-> Event[e].links] : r \in Event[e].related}

Graph(roots, domains, b) ==
    LET claims == GraphClaims(roots, domains, b)
        events == GraphEvents(roots, domains, b)
    IN  [roots |-> roots, domains |-> domains, entities |-> GraphEntities(roots, domains, b),
         events |-> events, timeline |-> {[event |-> e, links |-> Event[e].links] : e \in events},
         edges |-> {ClaimEdge(c) : c \in claims} \cup UNION {EventEdges(e) : e \in events},
         records |-> claims \cup events]

-----------------------------------------------------------------------------
(* The figure of a graph, laid out in three columns.                       *)

Column(g, n) ==
    IF n \in g.roots THEN "root" ELSE IF n \in g.events THEN "event" ELSE "related"
Columns(g) == [n \in g.entities \cup g.events |-> Column(g, n)]

FigureBuilds(g) ==
    /\ g.roots # {} /\ g.roots \subseteq DOMAIN Columns(g)
    /\ \A x \in g.edges : {x.from, x.to} \subseteq DOMAIN Columns(g) /\ IsSupported(x.links)

-----------------------------------------------------------------------------
(* The timeline merges the Events of several graphs.                       *)

TimelineLinks(graphs, e) ==
    UNION {x.links : x \in {y \in UNION {g.timeline : g \in graphs} : y.event = e}}

\* Evidence has one role in the timeline, though a graph cites it in any.
OneRoleEach(links) == \A x, y \in links : x.evidence = y.evidence => x.role = y.role

TimelineBuilds(graphs) ==
    \A e \in UNION {g.events : g \in graphs} :
        LET links == TimelineLinks(graphs, e)
        IN  e \in UNION {g.records : g \in graphs} /\ IsSupported(links) /\ OneRoleEach(links)

Timeline(graphs) ==
    {[event |-> e,
      domains |-> UNION {g.domains : g \in {h \in graphs : e \in h.events}},
      roots |-> UNION {g.roots : g \in {h \in graphs : e \in h.events}}]
        : e \in UNION {g.events : g \in graphs}}

-----------------------------------------------------------------------------
(* The equipment page.                                                     *)

Direction(c, entity) ==
    IF Claim[c].subject = entity THEN "outbound"
    ELSE IF ValueEntity(c) = entity THEN "inbound"
    ELSE IF entity \in Claim[c].scope THEN "scoped" ELSE "none"

Facts(entity, b) == {c \in b.claims : Visible(c) /\ Direction(c, entity) # "none"}
Story(entity, b) ==
    LET facts == Facts(entity, b)
    IN  {e \in b.events : entity \in Touched(e) \/ Event[e].claims \cap facts # {}}
\* Related Entities are named, whatever became of them.
RelatedTo(entity, b) ==
    ((UNION {{Claim[c].subject, ValueEntity(c)} : c \in Facts(entity, b)})
        \cup (UNION {Participants(e) : e \in Story(entity, b)})) \ {entity, NoEntity}

EquipmentBuilds(entity, b) ==
    /\ IsNode(entity, b) /\ Entity[entity].etype \in {"equipment", "equipment_variant"}
    /\ \A c \in Facts(entity, b) : Cited(Claim[c].links, b)
    /\ \A e \in Story(entity, b) : Cited(Event[e].links, b)
    /\ RelatedTo(entity, b) \subseteq b.entities

FieldPredicates ==
    [manufacturer |-> {"manufactures"}, operator |-> {"operates"},
     inventory_quantity |-> {"quantity"}, service_state |-> {"service_state"}]
About(field, facts) == {c \in facts : Claim[c].predicate \in FieldPredicates[field]}
FieldState(field, facts) ==
    IF About(field, facts) = {} THEN "unknown"
    ELSE IF \E c \in About(field, facts) : Claim[c].state = "disputed" THEN "disputed"
    ELSE "known"

Equipment(entity, b) ==
    [id |-> entity, facts |-> Facts(entity, b), events |-> Story(entity, b),
     related |-> RelatedTo(entity, b),
     fields |-> [f \in DOMAIN FieldPredicates |-> FieldState(f, Facts(entity, b))]]

\* What the page prints of a known field: one of the Claims that establish it.
Printed(c, v) ==
    CASE Direction(c, v.id) = "inbound" /\ Claim[c].subject \in v.related -> Claim[c].subject
      [] OTHER -> Claim[c].value
PageShows(field, v) ==
    IF v.fields[field] # "known" THEN {v.fields[field]}
    ELSE {Printed(c, v) : c \in About(field, v.facts)}

-----------------------------------------------------------------------------
(* Procurement and exercise views: a graph, its facts and how stale they   *)
(* are by a report that was made before.                                   *)

ProgramPredicates == {"lifecycle_state", "procurement_quantity"}
ProgramFacts(entity, b) ==
    {c \in b.claims : Visible(c) /\ Claim[c].subject = entity
                      /\ Claim[c].predicate \in ProgramPredicates}

Lifecycle(entity, b) ==
    LET seen == {c \in ProgramFacts(entity, b) : Claim[c].predicate = "lifecycle_state"}
    IN  IF seen = {} THEN "unknown"
        ELSE IF \E c \in seen : Claim[c].state = "disputed" THEN "disputed" ELSE "documented"

\* A report item of each Claim that is shown, and of that Claim as it is.
StalenessFits(report, claims) ==
    \A c \in claims : \E i \in report.items :
        /\ i.claim = c /\ i.state = Claim[c].state
        /\ i.confidence = Claim[c].confidence /\ i.verified = Claim[c].verified

DomainClaims(entity, domain, b) ==
    {x.record : x \in {y \in Graph({entity}, {domain}, b).edges : y.kind = "claim_relation"}}
    \cup IF domain = "procurement" THEN ProgramFacts(entity, b) ELSE {}

\* The two kinds of view differ in the Entity type and the facts they show.
DomainBuilds(entity, domain, b, report) ==
    /\ IsNode(entity, b)
    /\ Entity[entity].etype = IF domain = "procurement" THEN "procurement_program" ELSE "exercise"
    /\ GraphBuilds({entity}, {domain}, b)
    /\ \A c \in DomainClaims(entity, domain, b) : Cited(Claim[c].links, b)
    /\ \A c \in DomainClaims(entity, domain, b) :
        Claim[c].predicate = "lifecycle_state" => Claim[c].kind = "string"
    /\ StalenessFits(report, DomainClaims(entity, domain, b))

DomainView(entity, domain, b) ==
    [graph |-> Graph({entity}, {domain}, b), claims |-> DomainClaims(entity, domain, b),
     lifecycle |-> IF domain = "procurement" THEN Lifecycle(entity, b) ELSE "unknown"]
=============================================================================
