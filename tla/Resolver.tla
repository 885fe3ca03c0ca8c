------------------------------ MODULE Resolver ------------------------------
(***************************************************************************)
(* The deterministic resolver and verifier: what it makes of the           *)
(* candidates of one accepted extraction run when it is shown a snapshot   *)
(* of the canonical records.  Everything here is a pure function of the    *)
(* extraction and of the snapshot; Admission says when it is called and    *)
(* with which snapshot.                                                    *)
(*                                                                         *)
(* A snapshot is a set of canonical records, each with its kind and id.    *)
(* The terms by which a mention finds an Entity are abstracted to the set  *)
(* of Entities of its type that share a name with it (Named) and those     *)
(* that share a name or a resolution alias (Alike).                        *)
(***************************************************************************)
EXTENDS Naturals, FiniteSets

CONSTANTS
    Entities,     \* canonical Entity ids
    Mentions,     \* candidate Entities
    Scalars,      \* claim values that are not Entities
    Predicates, Validities,
    Points,       \* validities that are one instant of known precision
    BlockedByPolicy, Quantities,  \* predicates never prepared
    Signature,    \* <<predicate, subject, value>> of a fitting shape
    Named, Alike, \* what a mention matches by name; by any safe term
    Extractions,
    ClaimsOf,     \* the candidate Claims of an extraction
    EventsOf,     \* the candidate Events of an extraction
    EvidenceOf    \* the numbers of its candidate Evidence

Values == Entities \cup Scalars

\* Candidate Claims and Events as the extraction boundary accepted them.
\* "vague": the text or one of the Evidence candidates is ambiguous_text.
CandidateClaims ==
    [id: Nat, subject: Mentions, predicate: Predicates,
     value: Mentions \cup Scalars, validity: Validities,
     vague: BOOLEAN, evidence: SUBSET Nat]
CandidateEvents ==
    [id: Nat, what: Scalars, participants: SUBSET Mentions,
     related: SUBSET Mentions, vague: BOOLEAN, evidence: SUBSET Nat]

IdsAreUnique(candidates) == \A c, d \in candidates : c.id = d.id => c = d

\* validate_ai_extraction_run: ids are unique, and everything rests on
\* Evidence of the same run.
IsAccepted(x) ==
    /\ IdsAreUnique(ClaimsOf[x]) /\ IdsAreUnique(EventsOf[x])
    /\ \A c \in ClaimsOf[x] \cup EventsOf[x] :
          c.evidence # {} /\ c.evidence \subseteq EvidenceOf[x]

ASSUME ResolverAssumption ==
    /\ Entities \cap Scalars = {} /\ Mentions \cap Scalars = {}
    /\ Mentions \cap Entities = {}
    /\ IsFiniteSet(Entities) /\ IsFiniteSet(Mentions)
    /\ Points \subseteq Validities
    /\ BlockedByPolicy \subseteq Predicates /\ Quantities \subseteq Predicates
    /\ Named \in [Mentions -> SUBSET Entities]
    /\ Alike \in [Mentions -> SUBSET Entities]
    /\ ClaimsOf \in [Extractions -> SUBSET CandidateClaims]
    /\ EventsOf \in [Extractions -> SUBSET CandidateEvents]
    /\ EvidenceOf \in [Extractions -> SUBSET Nat]
    /\ \A x \in Extractions : IsAccepted(x)

-----------------------------------------------------------------------------
(* Entities: exact matching only, and more than one match is no match.     *)

ActiveEntities(snapshot) ==
    {e \in Entities : [kind |-> "entity", id |-> e, status |-> "active"] \in snapshot}

\* Mutant: a name is taken before an alias.
NamesFirst(m, snapshot) ==
    LET named == Named[m] \cap ActiveEntities(snapshot)
    IN  IF named # {} THEN named ELSE Alike[m] \cap ActiveEntities(snapshot)

Matches(m, snapshot) == (Named[m] \cup Alike[m]) \cap ActiveEntities(snapshot)

IsMatched(m, snapshot)   == Cardinality(Matches(m, snapshot)) = 1
IsAmbiguous(m, snapshot) == Cardinality(Matches(m, snapshot)) > 1

Target(m, snapshot) == CHOOSE e \in Entities : e \in Matches(m, snapshot)

EntityOutcome(m, snapshot) ==
    IF IsMatched(m, snapshot) THEN "matched"
    ELSE IF IsAmbiguous(m, snapshot) THEN "ambiguous" ELSE "unresolved"

\* The value a Claim would have, once its mention is matched.
ResolvedValue(v, snapshot) == IF v \in Mentions THEN Target(v, snapshot) ELSE v

-----------------------------------------------------------------------------
(* Claims, in the order in which the outcomes are decided.                 *)

ClaimRefs(c) == {c.subject} \cup ({c.value} \cap Mentions)

\* Neither policy nor the text keeps the Claim from being compared.
IsStated(c) ==
    /\ c.predicate \notin BlockedByPolicy
    /\ c.predicate \notin Quantities
    /\ ~c.vague

IsLinked(c, snapshot) == \A m \in ClaimRefs(c) : IsMatched(m, snapshot)

\* A Claim that gets as far as its shape and does not fit raises, and with
\* it the whole run.
Fits(c, snapshot) ==
    IsStated(c) /\ IsLinked(c, snapshot) =>
        <<c.predicate, Target(c.subject, snapshot),
          ResolvedValue(c.value, snapshot)>> \in Signature

\* Mutant: a Claim that is already disputed is not looked at.
UndisputedOnly(c, snapshot) ==
    {r \in snapshot : /\ r.kind = "claim"
                      /\ r.subject = Target(c.subject, snapshot)
                      /\ r.predicate = c.predicate
                      /\ r.state = "active"}

Relevant(c, snapshot) ==
    {r \in snapshot : /\ r.kind = "claim"
                      /\ r.subject = Target(c.subject, snapshot)
                      /\ r.predicate = c.predicate
                      /\ r.state \in {"active", "disputed"}}

SameContext(c, snapshot) ==
    {r \in Relevant(c, snapshot) : r.validity = c.validity}

Duplicates(c, snapshot) ==
    {r \in SameContext(c, snapshot) : r.value = ResolvedValue(c.value, snapshot)}

\* Mutant: another value at any time is a conflict.
ConflictsAtAnyTime(c, snapshot) ==
    Relevant(c, snapshot) \ Duplicates(c, snapshot)

Conflicts(c, snapshot) == SameContext(c, snapshot) \ Duplicates(c, snapshot)

\* Neither the same time nor provably another one.
ProvenDistinctPoints(c, r) ==
    {c.validity, r.validity} \subseteq Points /\ c.validity # r.validity
Unclear(c, snapshot) ==
    {r \in Relevant(c, snapshot) \ SameContext(c, snapshot) :
        ~ProvenDistinctPoints(c, r)}

\* _preserve_ambiguity tells a mention that matches too much from one that
\* matches nothing.
BlockedLink(refs, snapshot) ==
    IF \E m \in refs : IsAmbiguous(m, snapshot)
    THEN "blocked_ambiguous" ELSE "blocked_unresolved"

Compared(c, snapshot) ==
    IF \E r \in Relevant(c, snapshot) : r.scoped THEN "blocked_ambiguous"
    ELSE IF Duplicates(c, snapshot) # {} THEN "duplicate"
    ELSE IF Conflicts(c, snapshot) # {} THEN "conflict"
    ELSE IF Unclear(c, snapshot) # {} THEN "blocked_ambiguous" ELSE "new"

ClaimOutcome(c, snapshot) ==
    IF c.predicate \in BlockedByPolicy THEN "blocked_policy"
    ELSE IF ~IsStated(c) THEN "blocked_ambiguous"
    ELSE IF ~IsLinked(c, snapshot) THEN BlockedLink(ClaimRefs(c), snapshot)
    ELSE Compared(c, snapshot)

PreparedClaims(x, snapshot) ==
    {c \in ClaimsOf[x] : ClaimOutcome(c, snapshot) \in {"new", "conflict"}}

-----------------------------------------------------------------------------
(* Events: compared by signature, in which participants are listed as often *)
(* as they are mentioned and related Entities once.                        *)

EventRefs(v) == v.participants \cup v.related

Participation(v, snapshot) ==
    [e \in Entities |->
        Cardinality({m \in v.participants : Target(m, snapshot) = e})]

EventSignature(v, snapshot) ==
    [what |-> v.what, participants |-> Participation(v, snapshot),
     related |-> {Target(m, snapshot) : m \in v.related}]

\* Mutant: canonical Events are not looked at.
EventOutcomeAlone(v, snapshot) ==
    IF v.vague \/ \E m \in EventRefs(v) : ~IsMatched(m, snapshot)
    THEN "blocked_unresolved" ELSE "new"

EventOutcome(v, snapshot) ==
    IF v.vague THEN "blocked_ambiguous"
    ELSE IF \E m \in EventRefs(v) : ~IsMatched(m, snapshot)
         THEN BlockedLink(EventRefs(v), snapshot)
    ELSE IF \E r \in snapshot : /\ r.kind = "event"
                                /\ r.signature = EventSignature(v, snapshot)
         THEN "possible_duplicate" ELSE "new"

PreparedEvents(x, snapshot) ==
    {v \in EventsOf[x] : EventOutcome(v, snapshot) = "new"}

-----------------------------------------------------------------------------
(* The one proposal: Evidence first, as far as something prepared uses it. *)
(* The id of a record is derived from the extraction and the candidate.    *)

EvidenceRecord(x, i) == [kind |-> "evidence", id |-> <<x, "evidence", i>>]

ClaimRecord(x, c, snapshot) ==
    [kind |-> "claim", id |-> <<x, "claim", c.id>>,
     subject |-> Target(c.subject, snapshot), predicate |-> c.predicate,
     value |-> ResolvedValue(c.value, snapshot), validity |-> c.validity,
     scoped |-> FALSE,
     state |-> IF ClaimOutcome(c, snapshot) = "conflict"
               THEN "disputed" ELSE "active"]

EventRecord(x, v, snapshot) ==
    [kind |-> "event", id |-> <<x, "event", v.id>>,
     signature |-> EventSignature(v, snapshot)]

UsedEvidence(x, snapshot) ==
    UNION ({c.evidence : c \in PreparedClaims(x, snapshot)}
           \cup {v.evidence : v \in PreparedEvents(x, snapshot)})

Mutations(x, snapshot) ==
    {EvidenceRecord(x, i) : i \in UsedEvidence(x, snapshot)}
    \cup {ClaimRecord(x, c, snapshot) : c \in PreparedClaims(x, snapshot)}
    \cup {EventRecord(x, v, snapshot) : v \in PreparedEvents(x, snapshot)}

\* The mentions of a run that something in it refers to.
MentionsOf(x) ==
    UNION ({ClaimRefs(c) : c \in ClaimsOf[x]} \cup {EventRefs(v) : v \in EventsOf[x]})

\* resolver-verifier-v0.4 names its run by the extraction alone.
ResolutionId(x, snapshot) == x

Resolution(x, snapshot) ==
    [id |-> ResolutionId(x, snapshot),
     entities |-> [m \in MentionsOf(x) |-> EntityOutcome(m, snapshot)],
     claims |-> [c \in ClaimsOf[x] |-> ClaimOutcome(c, snapshot)],
     events |-> [v \in EventsOf[x] |-> EventOutcome(v, snapshot)],
     mutations |-> Mutations(x, snapshot)]

\* The run raises for a Claim of a shape its predicate does not have.
Resolves(x, snapshot) == \A c \in ClaimsOf[x] : Fits(c, snapshot)
=============================================================================
