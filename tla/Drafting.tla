------------------------------ MODULE Drafting ------------------------------
(***************************************************************************)
(* Bilingual drafting: which canonical records become a drafting context,  *)
(* which contexts the adapter accepts, and which answers of the model      *)
(* become a draft.  Everything here is a pure function; Trials says when   *)
(* it is called.                                                           *)
(*                                                                         *)
(* Prose is kept as one flag of a unit: whether both locales are there,    *)
(* the registry terms are paired, no restricted detail is told and every   *)
(* number is one of the context's factual fields.                          *)
(***************************************************************************)
EXTENDS FiniteSets, Sequences, Naturals

CONSTANTS
    Registry,    \* the terminology registry of the caller
    Restricted,  \* values and entities whose text tells restricted detail
    Colliding    \* entities with an official name that is a registry term

\* A selection of canonical records.  targets: the Entities of value and scope;
\* supports, others: the Evidence a Claim links in that role and in the others.
IdsDiffer(records) == \A a, b \in records : a.id = b.id => a = b
Ids(records) == {a.id : a \in records}

\* Two active Claims conflict only in the same scope and validity.
AreConflicting(a, b) ==
    /\ a.subject = b.subject /\ a.predicate = b.predicate
    /\ a.scope = b.scope /\ a.validity = b.validity
    /\ a.value # b.value

\* _drafting_eligibility_gate, over names, factual fields and statements
TellsNothingRestricted(entities, claims, unknowns) ==
    Restricted \cap (entities \cup {c.value : c \in claims} \cup Ids(unknowns)) = {}

-----------------------------------------------------------------------------
(* The builder: from a selection of canonical records.                     *)

CanDraft(c, s) ==
    /\ c.recorded = "active" /\ c.state = "active"
    /\ {c.subject} \cup c.targets \subseteq Ids(s.entities)
    /\ c.supports \cup c.others \subseteq Ids(s.evidence)
    /\ c.supports # {} /\ c.supports \cap c.others = {}

Unknown(u, s) == u.about \subseteq Ids(s.entities)

CanBuild(s) ==
    /\ IdsDiffer(s.entities) /\ IdsDiffer(s.claims)
    /\ IdsDiffer(s.evidence) /\ IdsDiffer(s.unknowns)
    /\ \A r \in s.entities \cup s.evidence : r.recorded = "active"
    /\ \A e \in s.entities : e.named
    /\ \A c \in s.claims : CanDraft(c, s)
    /\ \A a, b \in s.claims : ~AreConflicting(a, b)
    /\ \A u \in s.unknowns : Unknown(u, s)
    /\ TellsNothingRestricted(Ids(s.entities), s.claims, s.unknowns)

\* The identity is a digest of everything a draft is made from.
ContextId(c) == <<c.entities, c.claims, c.evidence, c.unknowns, c.registry>>
Identified(c) == [c EXCEPT !.id = ContextId(c)]
ContextOf(s) ==
    Identified([id |-> <<>>, entities |-> Ids(s.entities), claims |-> s.claims,
                evidence |-> Ids(s.evidence), unknowns |-> s.unknowns,
                registry |-> Registry])

-----------------------------------------------------------------------------
(* The adapter checks any context again, the builder's or another's.       *)

\* Mutant: the adapter leaves conflicts to the builder.
IsValidContextIfConflictFree(c) ==
    /\ IdsDiffer(c.claims) /\ IdsDiffer(c.unknowns)
    /\ \A a \in c.claims :
        /\ {a.subject} \cup a.targets \subseteq c.entities
        /\ a.state = "active" /\ a.supports # {} /\ a.supports \cap a.others = {}
        /\ a.supports \cup a.others \subseteq c.evidence
    /\ \A u \in c.unknowns : u.about \subseteq c.entities
    /\ c.id = ContextId(c)
    /\ TellsNothingRestricted(c.entities, c.claims, c.unknowns)

IsValidContext(c) ==
    /\ IdsDiffer(c.claims) /\ IdsDiffer(c.unknowns)
    /\ \A a \in c.claims :
        /\ {a.subject} \cup a.targets \subseteq c.entities
        /\ a.state = "active" /\ a.supports # {} /\ a.supports \cap a.others = {}
        /\ a.supports \cup a.others \subseteq c.evidence
    /\ \A a, b \in c.claims : ~AreConflicting(a, b)
    /\ \A u \in c.unknowns : u.about \subseteq c.entities
    /\ c.id = ContextId(c)
    /\ TellsNothingRestricted(c.entities, c.claims, c.unknowns)

\* prepare_draft_input: the registry is the one the context is bound to, and
\* none of its terms is an official name.
CanRender(c) == c.registry = Registry /\ Colliding \cap c.entities = {}

-----------------------------------------------------------------------------
(* The model's answer: units of claims, evidence and prose, and an account *)
(* of what is left out.                                                    *)

ClaimsWith(c, ids) == {a \in c.claims : a.id \in ids}

\* Mutant: any Evidence that a Claim links counts as its support.
UnitIsSupportedByAny(c, u) ==
    /\ u.claims # {} /\ u.claims \subseteq Ids(c.claims) /\ u.evidence # {}
    /\ u.evidence \subseteq UNION {a.supports \cup a.others : a \in ClaimsWith(c, u.claims)}
    /\ \A a \in ClaimsWith(c, u.claims) : (a.supports \cup a.others) \cap u.evidence # {}
    /\ u.clean

UnitIsSupported(c, u) ==
    /\ u.claims # {} /\ u.claims \subseteq Ids(c.claims) /\ u.evidence # {}
    /\ u.evidence \subseteq UNION {a.supports \cup a.others : a \in ClaimsWith(c, u.claims)}
    /\ \A a \in ClaimsWith(c, u.claims) : a.supports \cap u.evidence # {}
    /\ u.clean

Drafted(units) == UNION {units[i].claims : i \in DOMAIN units}

ClaimsAreAccounted(c, a) ==
    /\ \A i, j \in DOMAIN a.units : i # j => a.units[i].claims \cap a.units[j].claims = {}
    /\ a.undrafted \cap Drafted(a.units) = {}
    /\ a.undrafted \cup Drafted(a.units) = Ids(c.claims)

UnknownsAreAccounted(c, a) ==
    /\ a.rendered \cap a.omitted = {}
    /\ a.rendered \cup a.omitted = Ids(c.unknowns)

IsAcceptable(c, a) ==
    /\ a.strict
    /\ \A i \in DOMAIN a.units : UnitIsSupported(c, a.units[i])
    /\ ClaimsAreAccounted(c, a)
    /\ UnknownsAreAccounted(c, a)

\* A rejected draft keeps no text.
DraftOf(c, a) ==
    IF IsAcceptable(c, a)
    THEN [status |-> "accepted_for_editorial_review", units |-> a.units,
          unknowns |-> a.rendered]
    ELSE [status |-> "rejected", units |-> <<>>, unknowns |-> {}]
=============================================================================
