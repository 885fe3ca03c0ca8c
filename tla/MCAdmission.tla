---------------------------- MODULE MCAdmission ----------------------------
(***************************************************************************)
(* Two extractions about one operator.  "rsaf" is canonical from the       *)
(* start; "wing" is added by a curated proposal, and from then on the      *)
(* mention "force" matches both, the mention "unit" no longer nothing.     *)
(***************************************************************************)
EXTENDS Admission, TLC

CONSTANTS rsaf, wing, force, unit, service, x1, x2, f15, f16, p, q, t, u, none,
          NotExtracted

MCEntities == {rsaf, wing}
MCMentions == {force, unit, service}
MCScalars == {f15, f16}
MCPredicates == {p, q}
MCValidities == {t, u, none}
MCSignature == {p} \X {rsaf, wing} \X {f15, f16}
MCNamed == (force :> {wing}) @@ (unit :> {wing}) @@ (service :> {rsaf})
MCAlike == (force :> {rsaf}) @@ (unit :> {}) @@ (service :> {rsaf})

MCCandidate(i, m, v, at) ==
    [id |-> i, subject |-> m, predicate |-> p, value |-> v, validity |-> at,
     vague |-> FALSE, evidence |-> {1}]
MCEvent(i, m) ==
    [id |-> i, what |-> f15, participants |-> {m}, related |-> {m},
     vague |-> FALSE, evidence |-> {1}]

MCClaimsOf ==
    (x1 :> {MCCandidate(1, force, f15, t), MCCandidate(2, force, f15, u)})
    @@ (x2 :> {MCCandidate(1, service, f16, t), MCCandidate(2, unit, f16, none)})
MCEventsOf == (x1 :> {MCEvent(1, force)}) @@ (x2 :> {MCEvent(1, service)})

MCEvidenceOf == (x1 :> {1}) @@ (x2 :> {1})

MCEntity(e) == [kind |-> "entity", id |-> e, status |-> "active"]
MCClaim(i, e, v, at, state) ==
    [kind |-> "claim", id |-> i, subject |-> e, predicate |-> p, value |-> v,
     validity |-> at, scoped |-> FALSE, state |-> state]
MCSeed == {MCEntity(rsaf), MCClaim(<<NotExtracted, "claim", 1>>, rsaf, f16, u, "disputed")}
MCByHand(mutations) ==
    [extraction |-> NotExtracted, risk |-> "GREEN",
     outcome |-> "auto_admit_allowed", mutations |-> mutations]
MCCurated ==
    {MCByHand({MCEntity(wing), MCClaim(<<NotExtracted, "claim", 2>>, wing, f15, t, "active")}),
     MCByHand({MCClaim(<<NotExtracted, "claim", 3>>, rsaf, f16, t, "active")})}
MCVerdicts ==
    {<<"approve", "human">>, <<"approve", "ai">>, <<"reject", "human">>}

\* What the uniqueness of IDs asks of the proposals written by hand.
ASSUME InstanceAssumption == HandIdsAreApart
=============================================================================
