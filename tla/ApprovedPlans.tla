----------------------------- MODULE ApprovedPlans ----------------------------
(***************************************************************************)
(* What the executor is given: calls, the exact approved proposal each one *)
(* executes, and the ordered mutations of every proposal.  A retry or a    *)
(* replay of a proposal is another call of it.                             *)
(***************************************************************************)
EXTENDS Naturals, Sequences

CONSTANTS
  Calls,        \* calls of the executor
  NoCall,       \* a value that is no call
  Proposals,    \* exact approved proposal payloads
  Records,      \* canonical record IDs, and IDs of read projections of one
  Payloads,     \* payload hashes
  Predicates,   \* the predicates the adapter can write (_claim_property)
  Seeded,       \* records that the M0 bootstrap created, one item each
  ProposalOf,   \* [Calls -> Proposals]
  Plan          \* [Proposals -> Seq(Mutation)]: the mutations in their order

Kinds == {"item", "claim", "entity_update", "event_update"}

(***************************************************************************)
(* base: the record (and its payload) that inspection must find first: the *)
(* subject of a claim, the item of an update.  predicate: of a claim, what *)
(* it says of its subject; no matter otherwise.  refs: what apply_effect   *)
(* resolves to Q-ids before it posts.                                      *)
(***************************************************************************)
Mutation == [kind: Kinds, record: Records, payload: Payloads,
             base: [record: Records, payload: Payloads],
             predicate: Predicates, refs: SUBSET Records]

\* What inspection finds an effect by.  An item or the projection of one: its
\* ID.  A claim: its ID among the statements its subject has under its
\* predicate, so that one Claim ID elsewhere is another statement.
Key(m) ==
  <<m.record,
    IF m.kind = "claim" THEN <<m.base.record, m.predicate>> ELSE <<>> >>

ItemKey(r) == <<r, <<>> >>

Keys == {ItemKey(r) : r \in Records}
        \cup UNION {{Key(Plan[p][i]) : i \in 1 .. Len(Plan[p])} : p \in Proposals}

Positions(c) == 1 .. Len(Plan[ProposalOf[c]])

PlannedMutation(c, i) == Plan[ProposalOf[c]][i]

(***************************************************************************)
(* A proposal is not empty.  No mutation targets a record the bootstrap    *)
(* made, the bootstrap made no Event, and a claim or an update resolves    *)
(* the item it edits before it posts.                                      *)
(***************************************************************************)
ASSUME PlansAssumption ==
  /\ NoCall \notin Calls
  /\ Seeded \subseteq Records
  /\ ProposalOf \in [Calls -> Proposals]
  /\ Plan \in [Proposals -> Seq(Mutation)]
  /\ \A p \in Proposals : Plan[p] # <<>>
  /\ \A p \in Proposals : \A i \in 1 .. Len(Plan[p]) :
        LET m == Plan[p][i] IN
        /\ m.record \notin Seeded
        /\ m.kind # "item" => m.base.record \in m.refs
        /\ m.kind = "event_update" => m.base.record \notin Seeded

\* What the uniqueness theorems ask of the plans: a proposal asks for an item
\* or a statement once, ...
RecordsAreDistinct ==
  \A p \in Proposals : \A i, j \in 1 .. Len(Plan[p]) :
     Key(Plan[p][i]) = Key(Plan[p][j]) => i = j

\* ... and whatever writes the projection of an Event refers to that Event.
ProjectionsReferToEvents ==
  \A p, q \in Proposals :
     \A i \in 1 .. Len(Plan[p]), j \in 1 .. Len(Plan[q]) :
        /\ Plan[p][i].kind = "event_update"
        /\ Key(Plan[q][j]) = Key(Plan[p][i])
        => Plan[p][i].base.record \in Plan[q][j].refs

\* A Claim ID is asked for on one subject and under one predicate only, in all
\* the proposals there are.  Nothing in the code makes it so.
ClaimsKeepTheirPlace ==
  \A p, q \in Proposals :
     \A i \in 1 .. Len(Plan[p]), j \in 1 .. Len(Plan[q]) :
        Plan[p][i].record = Plan[q][j].record => Key(Plan[p][i]) = Key(Plan[q][j])
===============================================================================
