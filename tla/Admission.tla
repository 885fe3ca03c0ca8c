----------------------------- MODULE Admission -----------------------------
(***************************************************************************)
(* How a candidate becomes canonical: an extraction is resolved against    *)
(* the canonical records of the moment, the proposal is put into a review  *)
(* packet, a reviewer decides, the decision is bound to packet and         *)
(* proposal, and what was approved is executed.  Time passes between all   *)
(* of these, other proposals are executed meanwhile, and every artifact    *)
(* can be used more than once.                                             *)
(*                                                                         *)
(* An execution is one step here: MutationGuard is the step by step model, *)
(* and this one keeps of it what is proved there (ExecutionsAdmitAPrefix): *)
(* a prefix of the missing mutations is admitted, and nothing by a clash.  *)
(***************************************************************************)
EXTENDS Resolver

CONSTANTS
    Seed,        \* the canonical records of the bootstrap
    Curated,     \* proposals written by hand (the M1 scripts)
    NoExtraction,
    Verdicts,    \* <<decision, actor>> of the decisions that are made
    MaxResolutions, MaxDecisions  \* bounds

VARIABLES
    store,       \* canonical records
    resolutions, \* [snapshot, proposal] of each run of the resolver
    packets,     \* the proposals that a review packet was built for
    decisions    \* [proposal, decision, by, informed]

vars == <<store, resolutions, packets, decisions>>

Dispositions == {"approve", "reject", "return_for_revision"}
Actors == {"human", "ai", "system"}

\* A ChangeProposal is its origin, its class and its exact mutations.
ProposalFrom(x, snapshot) ==
    [extraction |-> x, risk |-> "AMBER", outcome |-> "human_review_required",
     mutations |-> Mutations(x, snapshot)]

\* Without mutations there is no proposal.
Proposals ==
    {p \in {r.proposal : r \in resolutions} : p.mutations # {}} \cup Curated

\* What inspection finds of a record in another: an item by its ID, a Claim by
\* its ID among those of its subject under its predicate.
Meets(a, b) ==
    /\ a.id = b.id
    /\ a.kind = "claim" <=> b.kind = "claim"
    /\ a.kind = "claim" => a.subject = b.subject /\ a.predicate = b.predicate

\* Nothing in this code refuses a proposal that creates one record twice.
IsDistinct(records) == \A a, b \in records : Meets(a, b) => a = b
ASSUME DistinctAssumption ==
    IsDistinct(Seed) /\ \A p \in Curated : IsDistinct(p.mutations)

ASSUME AdmissionAssumption ==
    /\ Verdicts \subseteq Dispositions \X Actors
    /\ MaxResolutions \in Nat /\ MaxDecisions \in Nat /\ NoExtraction \notin Extractions
    /\ \A p \in Curated :
        /\ p.extraction = NoExtraction
        /\ p.risk \in {"GREEN", "AMBER", "RED"}
        /\ p.outcome \in {"auto_admit_allowed", "human_review_required", "rejected"}

Init ==
    /\ store = Seed
    /\ resolutions = {} /\ packets = {} /\ decisions = {}

-----------------------------------------------------------------------------
(* Preparation.                                                            *)

\* Mutant: the snapshot that the proposal is made from was read at the start.
ResolveFromSeed(x) ==
    /\ Cardinality(resolutions) < MaxResolutions
    /\ Resolves(x, Seed)
    /\ resolutions' = resolutions \cup
        {[snapshot |-> store, proposal |-> ProposalFrom(x, Seed)]}
    /\ UNCHANGED <<store, packets, decisions>>

Resolve(x) ==
    /\ Cardinality(resolutions) < MaxResolutions
    /\ Resolves(x, store)
    /\ resolutions' = resolutions \cup
        {[snapshot |-> store, proposal |-> ProposalFrom(x, store)]}
    /\ UNCHANGED <<store, packets, decisions>>

\* The queue item, the extraction and the Evidence of the proposal are checked
\* as well (EditorialReview has the queue item; the resolver's proposals always
\* carry the Evidence they use).
Package(p) ==
    /\ packets' = packets \cup {p}
    /\ UNCHANGED <<store, resolutions, decisions>>

-----------------------------------------------------------------------------
(* Authority.                                                              *)

\* A decision is made outside this code, on any proposal and by any actor.
\* Stamps are only compared with each other, so what is kept of them is whether
\* there was a packet of the proposal when it was decided.
Decide(p, verdict) ==
    /\ Cardinality(decisions) < MaxDecisions
    /\ decisions' = decisions \cup
        {[proposal |-> p, decision |-> verdict[1], by |-> verdict[2],
          informed |-> p \in packets]}
    /\ UNCHANGED <<store, resolutions, packets>>

\* validate_approval
Authorizes(d, p) ==
    /\ d.proposal = p
    /\ d.decision = "approve"
    /\ p.outcome \in {"auto_admit_allowed", "human_review_required"}
    /\ p.risk # "RED"
    /\ p.risk = "AMBER" => d.by = "human"
    /\ d.by = "system" => p.risk = "GREEN" /\ p.outcome = "auto_admit_allowed"

\* Mutant: a decision may be older than the packet.
MayBindAnyPacket(k, d) == d.proposal = k /\ d.by = "human"

\* build_editorial_decision_binding.  The binding and the dispatch envelope add
\* nothing to packet and decision but their own stamps, which are later, and
\* every use of them derives them again, so they are not state.
MayBind(k, d) ==
    /\ d.proposal = k
    /\ d.by = "human"
    /\ d.informed

\* build_canonical_mutation_dispatch
MayDispatch(k, d) == MayBind(k, d) /\ d.decision = "approve"

-----------------------------------------------------------------------------
(* Execution.                                                              *)

Rank(record) ==
    IF record.kind \in {"entity", "evidence"} THEN 1
    ELSE IF record.kind = "claim" THEN 2 ELSE 3

\* Records of one kind are in the order of their candidates.
Precedes(a, b) ==
    \/ Rank(a) < Rank(b)
    \/ a.kind = b.kind /\ a.kind # "entity" /\ a.id[3] < b.id[3]

\* Mutant: a record that exists under the id is not compared.
NeverClashes(p) == FALSE

\* Another payload than the one it meets: preflight stops before the first
\* write.  A Claim ID on another subject or predicate is absent, not a clash.
Clashes(p) == \E a \in p.mutations, b \in store : Meets(a, b) /\ a # b

\* Mutations are applied in order, evidence before claims before events, and
\* an execution may stop before any of them.
Admit(p) ==
    /\ ~Clashes(p)
    /\ \E done \in SUBSET (p.mutations \ store) :
        /\ done # {}
        /\ \A a \in done, b \in (p.mutations \ store) \ done : ~Precedes(b, a)
        /\ store' = store \cup done
    /\ UNCHANGED <<resolutions, packets, decisions>>

\* execute_dispatched_editorial_proposal, which checks the approval again
ExecuteDispatched(k, d) ==
    /\ MayDispatch(k, d)
    /\ Authorizes(d, k)
    /\ Admit(k)

\* The M1 scripts call execute_authorized_proposal with their own proposals.
ExecuteDirect(d) ==
    /\ d.proposal \in Curated
    /\ Authorizes(d, d.proposal)
    /\ Admit(d.proposal)

-----------------------------------------------------------------------------
Next ==
    \/ \E x \in Extractions : Resolve(x)
    \/ \E p \in Proposals \ Curated : Package(p)
    \/ \E p \in Proposals, v \in Verdicts : Decide(p, v)
    \/ \E k \in packets, d \in decisions : ExecuteDispatched(k, d)
    \/ \E d \in decisions : ExecuteDirect(d)

Spec == Init /\ [][Next]_vars
-----------------------------------------------------------------------------
(* Properties.                                                             *)

Records(kind) == {r \in store : r.kind = kind}
IsExtracted(r) == r \notin Seed /\ \A p \in Curated : r \notin p.mutations
ExtractedClaims == {r \in Records("claim") : IsExtracted(r)}
ExtractedEvents == {r \in Records("event") : IsExtracted(r)}

\* Every artifact is what its builder makes of artifacts that exist.
AdmissionTypeOK ==
    /\ \A r \in resolutions :
        /\ r.snapshot \subseteq store
        /\ \E x \in Extractions : r.proposal = ProposalFrom(x, r.snapshot)
    /\ packets \subseteq Proposals \ Curated
    /\ \A d \in decisions : /\ d.proposal \in Proposals
                            /\ <<d.decision, d.by>> \in Verdicts
                            /\ d.informed => d.proposal \in packets

\* A decision stands behind a record: it approved exactly the proposal the
\* record is in, under the rules for its risk class, and, when a model
\* extracted the record, the reviewer was a human who could have seen a packet
\* of exactly that proposal.
StandsBehind(d, r) ==
    /\ r \in d.proposal.mutations
    /\ d.decision = "approve"
    /\ d.proposal.risk # "RED"
    /\ d.proposal.risk = "AMBER" => d.by = "human"
    /\ d.proposal.extraction # NoExtraction => d.informed

\* Nothing is canonical that was not seeded or approved as the exact payload
\* it has, however often proposals are rebuilt, decided twice or executed again.
CanonicalIsApproved ==
    \A r \in store \ Seed : \E d \in decisions : StandsBehind(d, r)

\* A candidate that is resolved again after the canonical records have changed
\* may get another payload under the same record id; only one of them is ever
\* admitted.  Preflight refuses another payload of a Claim only on the same
\* subject, so this rests on every resolution reading the subject alike too.
OneRecordPerId == \A a, b \in store : a.id = b.id => a = b

\* What the code does not ensure of proposals written by hand: a Claim ID keeps
\* its subject and predicate, and is not the ID of an extracted record.
ByHand == Seed \cup UNION {p.mutations : p \in Curated}
ExtractedIds ==
    UNION {{<<x, "evidence", i>> : i \in EvidenceOf[x]}
           \cup {<<x, "claim", c.id>> : c \in ClaimsOf[x]}
           \cup {<<x, "event", v.id>> : v \in EventsOf[x]} : x \in Extractions}
HandIdsAreApart ==
    /\ \A a, b \in ByHand : a.id = b.id => Meets(a, b)
    /\ \A a \in ByHand : a.id \notin ExtractedIds

IsRival(a, b) ==
    /\ a.subject = b.subject /\ a.predicate = b.predicate
    /\ a.validity = b.validity /\ a.value # b.value

\* No canonical Claim of a resolution's snapshot is contradicted in silence:
\* two active Claims that contradict each other were prepared without sight of
\* each other.
NoRivalOverlooked ==
    \A a \in ExtractedClaims : a.state = "active" =>
        \E r \in resolutions :
            /\ a \in r.proposal.mutations
            /\ \A b \in Records("claim") :
                  b.state \in {"active", "disputed"} /\ IsRival(a, b)
                      => b \notin r.snapshot

\* A Claim is "disputed" only beside the canonical Claim it contradicts.
DisputesHaveTwoSides ==
    \A a \in ExtractedClaims : a.state = "disputed" =>
        \E b \in Records("claim") : IsRival(a, b)

\* All admitted Claims of one extraction about a mention (as their subject) are
\* about the same Entity, although Entities that match it appear between the
\* resolutions.
OneReadingPerMention ==
    \A x \in Extractions : \A c, d \in ClaimsOf[x] : c.subject = d.subject =>
        \A a, b \in ExtractedClaims :
            a.id = <<x, "claim", c.id>> /\ b.id = <<x, "claim", d.id>>
                => a.subject = b.subject

\* An Event that repeats a canonical one was prepared without sight of it.
NoTwinOverlooked ==
    \A a \in ExtractedEvents : \E r \in resolutions :
        /\ a \in r.proposal.mutations
        /\ \A b \in Records("event") :
              b.signature = a.signature => b \notin r.snapshot
=============================================================================
