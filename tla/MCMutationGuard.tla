---------------------------- MODULE MCMutationGuard ---------------------------
(***************************************************************************)
(* Instances for TLC.  Proposal "write" creates a Document of a seeded     *)
(* Source and an Event on it; "project" adds the public-read projection of *)
(* a seeded Entity and of that Event; "rival" has another payload for the  *)
(* Document and a Claim on the Entity; "reuse" asks for the Document and,  *)
(* under another predicate of the Entity, for the same Claim ID.           *)
(***************************************************************************)
EXTENDS MutationGuardRefinement

NoBase == [record |-> "none", payload |-> "x"]

Create(r, d, refs) ==
  [kind |-> "item", record |-> r, payload |-> d, base |-> NoBase,
   predicate |-> "operates", refs |-> refs]

ClaimOn(e, p, d) ==
  [kind |-> "claim", record |-> "clm", payload |-> d,
   base |-> [record |-> e, payload |-> "x"], predicate |-> p, refs |-> {e}]

Project(k, r, e) ==
  [kind |-> k, record |-> r, payload |-> "x",
   base |-> [record |-> e, payload |-> "x"], predicate |-> "operates",
   refs |-> {e}]

MCRecords == {"none", "src", "ent", "doc", "evt", "clm", "ent_proj", "evt_proj"}
MCPayloads == {"x", "y"}
MCPredicates == {"operates", "manufactures"}
MCSeeded == {"none", "src", "ent"}

WritePlan == <<Create("doc", "x", {"src"}), Create("evt", "x", {"doc", "ent"})>>

ProjectPlan ==
  <<Project("entity_update", "ent_proj", "ent"),
    Project("event_update", "evt_proj", "evt")>>

RivalPlan == <<ClaimOn("ent", "operates", "x"), Create("doc", "y", {"src"})>>

ReusePlan == <<Create("doc", "x", {"src"}), ClaimOn("ent", "manufactures", "y")>>

MCProposals == {"write", "project", "rival", "reuse"}

MCPlan == [p \in MCProposals |->
             CASE p = "write" -> WritePlan
               [] p = "project" -> ProjectPlan
               [] p = "rival" -> RivalPlan
               [] p = "reuse" -> ReusePlan]

\* Three executions of one proposal.
ThreeOfOne == [c \in {"c1", "c2", "c3"} |-> "write"]

\* A proposal twice, and its rival.
WithRival == [c \in {"c1", "c2", "c3"} |-> IF c = "c3" THEN "rival" ELSE "write"]

\* The same with the Claim ID of the rival in the proposal too.
WithReuse == [c \in {"c1", "c2", "c3"} |-> IF c = "c3" THEN "rival" ELSE "reuse"]

\* The write, and the projection of what it writes, twice.
WithProjection ==
  [c \in {"c1", "c2", "c3"} |-> IF c = "c1" THEN "write" ELSE "project"]

\* The plans of the instances are such as the uniqueness theorems ask for.
ASSUME InstanceAssumption == RecordsAreDistinct /\ ProjectionsReferToEvents
===============================================================================
