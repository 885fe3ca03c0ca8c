---------------------------- MODULE AdmissionProofs ----------------------------
(***************************************************************************)
(* Theorems about what becomes canonical, for any extractions, canonical   *)
(* records and hand-written proposals, and any number of resolutions and   *)
(* decisions.                                                              *)
(***************************************************************************)
EXTENDS Admission, FiniteSetTheorems, TLAPS

\* Resolutions were made one after the other, and records are never removed.
SnapshotsAreOrdered ==
    \A r, s \in resolutions : r.snapshot \subseteq s.snapshot \/ s.snapshot \subseteq r.snapshot

\* The inductive invariant.
AdmissionInv ==
    AdmissionTypeOK /\ CanonicalIsApproved /\ IsDistinct(store) /\ SnapshotsAreOrdered

-----------------------------------------------------------------------------
(* Proposals                                                               *)

\* A prepared record is one of the three kinds, made of a candidate.
LEMMA MutationIsOfCandidate ==
  ASSUME NEW x \in Extractions, NEW snapshot, NEW a \in Mutations(x, snapshot)
  PROVE  \/ \E i \in UsedEvidence(x, snapshot) : a = EvidenceRecord(x, i)
         \/ \E c \in PreparedClaims(x, snapshot) : a = ClaimRecord(x, c, snapshot)
         \/ \E v \in PreparedEvents(x, snapshot) : a = EventRecord(x, v, snapshot)
BY DEF Mutations

\* The IDs of the records that one resolution prepares are distinct, since those
\* of the candidates are.
LEMMA MutationsAreDistinct ==
  ASSUME NEW x \in Extractions, NEW snapshot
  PROVE  IsDistinct(Mutations(x, snapshot))
<1>1. IdsAreUnique(ClaimsOf[x]) /\ IdsAreUnique(EventsOf[x])
  BY ResolverAssumption DEF IsAccepted
<1>2. /\ PreparedClaims(x, snapshot) \subseteq ClaimsOf[x]
      /\ PreparedEvents(x, snapshot) \subseteq EventsOf[x]
  BY DEF PreparedClaims, PreparedEvents
<1> SUFFICES ASSUME NEW a \in Mutations(x, snapshot), NEW b \in Mutations(x, snapshot), a.id = b.id
             PROVE  a = b
  BY DEF IsDistinct, Meets
<1>3. ASSUME NEW i PROVE EvidenceRecord(x, i).id[2] = "evidence" /\ EvidenceRecord(x, i).id[3] = i
  BY DEF EvidenceRecord
<1>4. ASSUME NEW c PROVE ClaimRecord(x, c, snapshot).id[2] = "claim" /\ ClaimRecord(x, c, snapshot).id[3] = c.id
  BY DEF ClaimRecord
<1>5. ASSUME NEW v PROVE EventRecord(x, v, snapshot).id[2] = "event" /\ EventRecord(x, v, snapshot).id[3] = v.id
  BY DEF EventRecord
<1>6. CASE \E i : a = EvidenceRecord(x, i)
  <2>1. PICK i : a = EvidenceRecord(x, i)
    BY <1>6
  <2>2. a.id[2] = "evidence" /\ a.id[3] = i
    BY <1>3, <2>1
  <2>3. PICK j : b = EvidenceRecord(x, j)
    BY <1>4, <1>5, <2>2, MutationIsOfCandidate
  <2>4. i = j
    BY <1>3, <2>2, <2>3
  <2> QED BY <2>1, <2>3, <2>4
<1>7. CASE \E c \in PreparedClaims(x, snapshot) : a = ClaimRecord(x, c, snapshot)
  <2>1. PICK c \in PreparedClaims(x, snapshot) : a = ClaimRecord(x, c, snapshot)
    BY <1>7
  <2>2. a.id[2] = "claim" /\ a.id[3] = c.id
    BY <1>4, <2>1
  <2>3. PICK d \in PreparedClaims(x, snapshot) : b = ClaimRecord(x, d, snapshot)
    BY <1>3, <1>5, <2>2, MutationIsOfCandidate
  <2>4. c.id = d.id
    BY <1>4, <2>2, <2>3
  <2>5. c = d
    BY <1>1, <1>2, <2>4 DEF IdsAreUnique
  <2> QED BY <2>1, <2>3, <2>5
<1>8. CASE \E v \in PreparedEvents(x, snapshot) : a = EventRecord(x, v, snapshot)
  <2>1. PICK v \in PreparedEvents(x, snapshot) : a = EventRecord(x, v, snapshot)
    BY <1>8
  <2>2. a.id[2] = "event" /\ a.id[3] = v.id
    BY <1>5, <2>1
  <2>3. PICK w \in PreparedEvents(x, snapshot) : b = EventRecord(x, w, snapshot)
    BY <1>3, <1>4, <2>2, MutationIsOfCandidate
  <2>4. v.id = w.id
    BY <1>5, <2>2, <2>3
  <2>5. v = w
    BY <1>1, <1>2, <2>4 DEF IdsAreUnique
  <2> QED BY <2>1, <2>3, <2>5
<1> QED BY <1>6, <1>7, <1>8, MutationIsOfCandidate

\* So are those of every proposal there is.
LEMMA ProposalsAreDistinct ==
  ASSUME AdmissionTypeOK, NEW p \in Proposals
  PROVE  IsDistinct(p.mutations)
<1>1. CASE p \in Curated
  BY <1>1, DistinctAssumption
<1>2. ASSUME NEW r \in resolutions, p = r.proposal PROVE IsDistinct(p.mutations)
  <2>1. PICK x \in Extractions : p = ProposalFrom(x, r.snapshot)
    BY <1>2 DEF AdmissionTypeOK
  <2> QED BY <2>1, MutationsAreDistinct DEF ProposalFrom
<1> QED BY <1>1, <1>2 DEF Proposals

-----------------------------------------------------------------------------
(* Execution                                                               *)

\* What an approved proposal adds is approved, and distinct from what is there.
LEMMA AdmitKeeps ==
  ASSUME AdmissionInv, NEW p \in Proposals, Admit(p),
         NEW d \in decisions, Authorizes(d, p), p.extraction # NoExtraction => d.informed
  PROVE  AdmissionInv'
<1>1. PICK new \in SUBSET (p.mutations \ store) : store' = store \cup new
  BY DEF Admit
<1>2. /\ UNCHANGED <<resolutions, packets, decisions>>
      /\ ~Clashes(p)
  BY DEF Admit
<1>3. AdmissionTypeOK'
  <2>1. Proposals' = Proposals
    BY <1>2 DEF Proposals
  <2> QED BY <1>1, <1>2, <2>1 DEF AdmissionInv, AdmissionTypeOK
<1>4. CanonicalIsApproved'
  <2>1. ASSUME NEW r \in store' \ Seed PROVE \E e \in decisions : StandsBehind(e, r)
    <3>1. CASE r \in store
      BY <3>1 DEF AdmissionInv, CanonicalIsApproved
    <3>2. CASE r \in new
      BY <1>1, <3>2 DEF Authorizes, StandsBehind
    <3> QED BY <1>1, <3>1, <3>2
  <2> QED BY <1>2, <2>1 DEF CanonicalIsApproved
<1>5. IsDistinct(store)'
  <2>1. ASSUME NEW a \in store', NEW b \in store', Meets(a, b) PROVE a = b
    <3>1. CASE a \in store /\ b \in store
      BY <2>1, <3>1 DEF AdmissionInv, IsDistinct
    <3>2. CASE a \in new /\ b \in new
      BY <1>1, <2>1, <3>2, ProposalsAreDistinct DEF AdmissionInv, IsDistinct
    <3>3. CASE a \in new /\ b \in store
      BY <1>1, <1>2, <2>1, <3>3 DEF Clashes
    <3>4. CASE a \in store /\ b \in new
      <4>1. Meets(b, a)
        BY <2>1 DEF Meets
      <4> QED BY <1>1, <1>2, <3>4, <4>1 DEF Clashes
    <3> QED BY <1>1, <3>1, <3>2, <3>3, <3>4
  <2> QED BY <2>1 DEF IsDistinct, Meets
<1>6. SnapshotsAreOrdered'
  BY <1>2 DEF AdmissionInv, SnapshotsAreOrdered
<1> QED BY <1>3, <1>4, <1>5, <1>6 DEF AdmissionInv

-----------------------------------------------------------------------------
(* The specification                                                       *)

LEMMA InitAdmission == Init => AdmissionInv
BY DistinctAssumption
   DEF Init, AdmissionInv, AdmissionTypeOK, CanonicalIsApproved, IsDistinct, SnapshotsAreOrdered

\* A resolution sees every record of the ones before.
LEMMA ResolveKeeps ==
  ASSUME AdmissionInv, NEW x \in Extractions, Resolve(x)
  PROVE  AdmissionInv'
<1>1. /\ UNCHANGED <<store, packets, decisions>>
      /\ resolutions' = resolutions \cup {[snapshot |-> store, proposal |-> ProposalFrom(x, store)]}
  BY DEF Resolve
<1>2. Proposals \subseteq Proposals'
  BY <1>1 DEF Proposals
<1>3. AdmissionTypeOK'
  <2>1. \A r \in resolutions' :
          r.snapshot \subseteq store' /\ \E y \in Extractions : r.proposal = ProposalFrom(y, r.snapshot)
    BY <1>1 DEF AdmissionInv, AdmissionTypeOK
  <2> QED BY <1>1, <1>2, <2>1 DEF AdmissionInv, AdmissionTypeOK
<1>4. CanonicalIsApproved' /\ IsDistinct(store)'
  BY <1>1 DEF AdmissionInv, CanonicalIsApproved, IsDistinct
<1>5. SnapshotsAreOrdered'
  <2>1. \A r \in resolutions : r.snapshot \subseteq store
    BY DEF AdmissionInv, AdmissionTypeOK
  <2> QED BY <1>1, <2>1 DEF AdmissionInv, SnapshotsAreOrdered
<1> QED BY <1>3, <1>4, <1>5 DEF AdmissionInv

LEMMA NextAdmission == AdmissionInv /\ [Next]_vars => AdmissionInv'
<1> SUFFICES ASSUME AdmissionInv, [Next]_vars PROVE AdmissionInv'
  OBVIOUS
<1>1. ASSUME NEW x \in Extractions, Resolve(x) PROVE AdmissionInv'
  BY <1>1, ResolveKeeps
<1>2. ASSUME NEW p \in Proposals \ Curated, Package(p) PROVE AdmissionInv'
  <2>1. /\ UNCHANGED <<store, resolutions, decisions>> /\ packets' = packets \cup {p}
        /\ Proposals' = Proposals
    BY <1>2 DEF Package, Proposals
  <2> QED BY <2>1 DEF AdmissionInv, AdmissionTypeOK, CanonicalIsApproved, IsDistinct,
                      SnapshotsAreOrdered
<1>3. ASSUME NEW p \in Proposals, NEW v \in Verdicts, Decide(p, v) PROVE AdmissionInv'
  <2>1. /\ UNCHANGED <<store, resolutions, packets>> /\ Proposals' = Proposals
        /\ decisions' = decisions \cup
             {[proposal |-> p, decision |-> v[1], by |-> v[2], informed |-> p \in packets]}
    BY <1>3 DEF Decide, Proposals
  <2>2. v = <<v[1], v[2]>>
    BY AdmissionAssumption
  <2>3. ASSUME NEW e \in decisions'
        PROVE  e.proposal \in Proposals /\ <<e.decision, e.by>> \in Verdicts /\ (e.informed => e.proposal \in packets)
    <3>1. CASE e \in decisions
      BY <3>1 DEF AdmissionInv, AdmissionTypeOK
    <3>2. CASE e = [proposal |-> p, decision |-> v[1], by |-> v[2], informed |-> p \in packets]
      BY <2>2, <3>2
    <3> QED BY <2>1, <3>1, <3>2
  <2>4. AdmissionTypeOK'
    BY <2>1, <2>3 DEF AdmissionInv, AdmissionTypeOK
  <2> QED BY <2>1, <2>4 DEF AdmissionInv, CanonicalIsApproved, IsDistinct, SnapshotsAreOrdered
<1>4. ASSUME NEW k \in packets, NEW d \in decisions, ExecuteDispatched(k, d) PROVE AdmissionInv'
  <2>1. k \in Proposals /\ Admit(k) /\ Authorizes(d, k) /\ d.informed
    BY <1>4 DEF ExecuteDispatched, MayDispatch, MayBind, AdmissionInv, AdmissionTypeOK
  <2> QED BY <2>1, AdmitKeeps
<1>5. ASSUME NEW d \in decisions, ExecuteDirect(d) PROVE AdmissionInv'
  <2>1. /\ d.proposal \in Proposals /\ Admit(d.proposal) /\ Authorizes(d, d.proposal)
        /\ d.proposal.extraction = NoExtraction
    BY <1>5, AdmissionAssumption DEF ExecuteDirect, Proposals
  <2> QED BY <2>1, AdmitKeeps
<1>6. CASE UNCHANGED vars
  BY <1>6 DEF vars, AdmissionInv, AdmissionTypeOK, CanonicalIsApproved, IsDistinct,
              SnapshotsAreOrdered, Proposals
<1> QED BY <1>1, <1>2, <1>3, <1>4, <1>5, <1>6 DEF Next

LEMMA AdmissionInvHolds == Spec => []AdmissionInv
BY InitAdmission, NextAdmission, PTL DEF Spec

\* Every artifact is what its builder makes of artifacts that exist.
THEOREM AdmissionIsTyped == Spec => []AdmissionTypeOK
<1>1. AdmissionInv => AdmissionTypeOK
  BY DEF AdmissionInv
<1> QED BY <1>1, AdmissionInvHolds, PTL

\* Nothing becomes canonical but the exact payload that a decision approved,
\* informed by a packet when a model extracted it (validate_approval,
\* build_editorial_decision_binding, execute_dispatched_editorial_proposal).
THEOREM CanonicalRecordsAreApproved == Spec => []CanonicalIsApproved
<1>1. AdmissionInv => CanonicalIsApproved
  BY DEF AdmissionInv
<1> QED BY <1>1, AdmissionInvHolds, PTL

-----------------------------------------------------------------------------
(* What the resolver saw of a record that it prepared                      *)

\* A record that no proposal by hand has and that was not there from the start
\* is one that a resolution prepared.
LEMMA ExtractedIsPrepared ==
  ASSUME AdmissionInv, NEW a \in store, IsExtracted(a)
  PROVE  \E r \in resolutions, x \in Extractions :
            a \in r.proposal.mutations /\ a \in Mutations(x, r.snapshot)
<1>1. PICK d \in decisions : a \in d.proposal.mutations
  BY DEF IsExtracted, AdmissionInv, CanonicalIsApproved, StandsBehind
<1>2. d.proposal \in Proposals /\ d.proposal \notin Curated
  BY <1>1 DEF IsExtracted, AdmissionInv, AdmissionTypeOK
<1>3. PICK r \in resolutions : d.proposal = r.proposal
  BY <1>2 DEF Proposals
<1>4. PICK x \in Extractions : r.proposal = ProposalFrom(x, r.snapshot)
  BY DEF AdmissionInv, AdmissionTypeOK
<1> QED BY <1>1, <1>3, <1>4 DEF ProposalFrom

\* The three kinds of prepared records are told apart by their kind.
LEMMA KindOfPrepared ==
  ASSUME NEW x \in Extractions, NEW snapshot, NEW a \in Mutations(x, snapshot)
  PROVE  /\ a.kind = "claim" => \E c \in PreparedClaims(x, snapshot) : a = ClaimRecord(x, c, snapshot)
         /\ a.kind = "event" => \E v \in PreparedEvents(x, snapshot) : a = EventRecord(x, v, snapshot)
<1>1. \A i : EvidenceRecord(x, i).kind = "evidence"
  BY DEF EvidenceRecord
<1>2. \A c : ClaimRecord(x, c, snapshot).kind = "claim"
  BY DEF ClaimRecord
<1>3. \A v : EventRecord(x, v, snapshot).kind = "event"
  BY DEF EventRecord
<1> QED BY <1>1, <1>2, <1>3, MutationIsOfCandidate

\* A prepared Claim is linked, and is compared with the snapshot: a new one has
\* no conflict there, a conflicting one has.
LEMMA PreparedIsCompared ==
  ASSUME NEW x \in Extractions, NEW snapshot, NEW c \in PreparedClaims(x, snapshot)
  PROVE  /\ c \in ClaimsOf[x] /\ IsLinked(c, snapshot)
         /\ ClaimOutcome(c, snapshot) = "new" => Conflicts(c, snapshot) = {}
         /\ ClaimOutcome(c, snapshot) = "conflict" => Conflicts(c, snapshot) # {}
         /\ ClaimOutcome(c, snapshot) \in {"new", "conflict"}
<1>1. c \in ClaimsOf[x] /\ ClaimOutcome(c, snapshot) \in {"new", "conflict"}
  BY DEF PreparedClaims
<1>2. BlockedLink(ClaimRefs(c), snapshot) \in {"blocked_ambiguous", "blocked_unresolved"}
  BY DEF BlockedLink
<1>3. IsLinked(c, snapshot) /\ ClaimOutcome(c, snapshot) = Compared(c, snapshot)
  BY <1>1, <1>2 DEF ClaimOutcome
<1>4. Compared(c, snapshot) = "new" => Conflicts(c, snapshot) = {}
  BY DEF Compared
<1>5. Compared(c, snapshot) = "conflict" => Conflicts(c, snapshot) # {}
  BY DEF Compared
<1> QED BY <1>1, <1>3, <1>4, <1>5

\* What conflicts with a Claim is a canonical Claim that its record contradicts,
\* and every canonical Claim that its record contradicts conflicts with it.
LEMMA ConflictsAreRivals ==
  ASSUME NEW x, NEW c, NEW snapshot, NEW b \in snapshot, b.kind = "claim",
         b.state \in {"active", "disputed"}
  PROVE  IsRival(ClaimRecord(x, c, snapshot), b) <=> b \in Conflicts(c, snapshot)
BY DEF IsRival, ClaimRecord, Conflicts, SameContext, Relevant, Duplicates

LEMMA RivalsAreSeen == AdmissionInv => NoRivalOverlooked
<1> SUFFICES ASSUME AdmissionInv, NEW a \in ExtractedClaims, a.state = "active"
             PROVE  \E r \in resolutions :
                      /\ a \in r.proposal.mutations
                      /\ \A b \in Records("claim") :
                            b.state \in {"active", "disputed"} /\ IsRival(a, b) => b \notin r.snapshot
  BY DEF NoRivalOverlooked
<1>1. a \in store /\ a.kind = "claim" /\ IsExtracted(a)
  BY DEF ExtractedClaims, Records
<1>2. PICK r \in resolutions, x \in Extractions :
         a \in r.proposal.mutations /\ a \in Mutations(x, r.snapshot)
  BY <1>1, ExtractedIsPrepared
<1>3. PICK c \in PreparedClaims(x, r.snapshot) : a = ClaimRecord(x, c, r.snapshot)
  BY <1>1, <1>2, KindOfPrepared
<1>4. ClaimOutcome(c, r.snapshot) # "conflict"
  BY <1>3 DEF ClaimRecord
<1>5. Conflicts(c, r.snapshot) = {}
  BY <1>4, PreparedIsCompared
<1>6. ASSUME NEW b \in Records("claim"), b.state \in {"active", "disputed"}, IsRival(a, b)
      PROVE  b \notin r.snapshot
  BY <1>3, <1>5, <1>6, ConflictsAreRivals DEF Records
<1> QED BY <1>2, <1>6

LEMMA DisputesAreBacked == AdmissionInv => DisputesHaveTwoSides
<1> SUFFICES ASSUME AdmissionInv, NEW a \in ExtractedClaims, a.state = "disputed"
             PROVE  \E b \in Records("claim") : IsRival(a, b)
  BY DEF DisputesHaveTwoSides
<1>1. a \in store /\ a.kind = "claim" /\ IsExtracted(a)
  BY DEF ExtractedClaims, Records
<1>2. PICK r \in resolutions, x \in Extractions : a \in Mutations(x, r.snapshot)
  BY <1>1, ExtractedIsPrepared
<1>3. PICK c \in PreparedClaims(x, r.snapshot) : a = ClaimRecord(x, c, r.snapshot)
  BY <1>1, <1>2, KindOfPrepared
<1>4. ClaimOutcome(c, r.snapshot) = "conflict"
  BY <1>3 DEF ClaimRecord
<1>5. PICK b : b \in Conflicts(c, r.snapshot)
  BY <1>4, PreparedIsCompared
<1>6. b \in r.snapshot /\ b.kind = "claim" /\ b.state \in {"active", "disputed"}
  BY <1>5 DEF Conflicts, SameContext, Relevant
<1>7. IsRival(a, b)
  BY <1>3, <1>5, <1>6, ConflictsAreRivals
<1>8. b \in Records("claim")
  BY <1>6 DEF Records, AdmissionInv, AdmissionTypeOK
<1> QED BY <1>7, <1>8

LEMMA TwinsAreSeen == AdmissionInv => NoTwinOverlooked
<1> SUFFICES ASSUME AdmissionInv, NEW a \in ExtractedEvents
             PROVE  \E r \in resolutions :
                      /\ a \in r.proposal.mutations
                      /\ \A b \in Records("event") : b.signature = a.signature => b \notin r.snapshot
  BY DEF NoTwinOverlooked
<1>1. a \in store /\ a.kind = "event" /\ IsExtracted(a)
  BY DEF ExtractedEvents, Records
<1>2. PICK r \in resolutions, x \in Extractions :
         a \in r.proposal.mutations /\ a \in Mutations(x, r.snapshot)
  BY <1>1, ExtractedIsPrepared
<1>3. PICK v \in PreparedEvents(x, r.snapshot) : a = EventRecord(x, v, r.snapshot)
  BY <1>1, <1>2, KindOfPrepared
<1>4. a.signature = EventSignature(v, r.snapshot)
  BY <1>3 DEF EventRecord
<1>5. BlockedLink(EventRefs(v), r.snapshot) \in {"blocked_ambiguous", "blocked_unresolved"}
  BY DEF BlockedLink
<1>6. EventOutcome(v, r.snapshot) = "new"
  BY DEF PreparedEvents
<1>7. ~ \E b \in r.snapshot : b.kind = "event" /\ b.signature = EventSignature(v, r.snapshot)
  BY <1>5, <1>6 DEF EventOutcome
<1> QED BY <1>2, <1>4, <1>7 DEF Records

-----------------------------------------------------------------------------
(* One reading of a mention                                                *)

\* A mention that one Entity matched, and that one Entity still matches when more
\* records are there, is matched by the same one.
LEMMA TargetIsStable ==
  ASSUME NEW m \in Mentions, NEW s, NEW t, s \subseteq t, IsMatched(m, s), IsMatched(m, t)
  PROVE  Target(m, s) = Target(m, t)
<1>1. Matches(m, s) \subseteq Matches(m, t)
  BY DEF Matches, ActiveEntities
<1>2. Matches(m, s) \subseteq Entities /\ Matches(m, t) \subseteq Entities
  BY DEF Matches, ActiveEntities
<1>3. IsFiniteSet(Matches(m, s)) /\ IsFiniteSet(Matches(m, t))
  BY <1>2, FS_Subset, ResolverAssumption
<1>4. PICK e : Matches(m, s) = {e}
  BY <1>3, FS_Singleton DEF IsMatched
<1>5. PICK f : Matches(m, t) = {f}
  BY <1>3, FS_Singleton DEF IsMatched
<1>6. Matches(m, s) = Matches(m, t)
  BY <1>1, <1>4, <1>5
<1> QED BY <1>6 DEF Target

LEMMA ReadingsAgree == AdmissionInv => OneReadingPerMention
<1> SUFFICES ASSUME AdmissionInv, NEW x \in Extractions,
                    NEW c \in ClaimsOf[x], NEW d \in ClaimsOf[x], c.subject = d.subject,
                    NEW a \in ExtractedClaims, NEW b \in ExtractedClaims,
                    a.id = <<x, "claim", c.id>>, b.id = <<x, "claim", d.id>>
             PROVE  a.subject = b.subject
  BY DEF OneReadingPerMention
<1>1. ASSUME NEW e \in ClaimsOf[x], NEW r \in ExtractedClaims, r.id = <<x, "claim", e.id>>
      PROVE  \E s \in resolutions :
                r.subject = Target(e.subject, s.snapshot) /\ IsMatched(e.subject, s.snapshot)
  <2>1. r \in store /\ r.kind = "claim" /\ IsExtracted(r)
    BY DEF ExtractedClaims, Records
  <2>2. PICK s \in resolutions, y \in Extractions : r \in Mutations(y, s.snapshot)
    BY <2>1, ExtractedIsPrepared
  <2>3. PICK f \in PreparedClaims(y, s.snapshot) : r = ClaimRecord(y, f, s.snapshot)
    BY <2>1, <2>2, KindOfPrepared
  <2>4. r.id[1] = y /\ r.id[3] = f.id /\ r.subject = Target(f.subject, s.snapshot)
    BY <2>3 DEF ClaimRecord
  <2>5. y = x /\ f.id = e.id
    BY <1>1, <2>4
  <2>6. f \in ClaimsOf[x] /\ IsLinked(f, s.snapshot)
    BY <2>5, PreparedIsCompared
  <2>7. f = e
    BY <2>5, <2>6, ResolverAssumption DEF IsAccepted, IdsAreUnique
  <2>8. IsMatched(e.subject, s.snapshot)
    BY <2>6, <2>7 DEF IsLinked, ClaimRefs
  <2> QED BY <2>4, <2>7, <2>8
<1>2. PICK r \in resolutions : a.subject = Target(c.subject, r.snapshot) /\ IsMatched(c.subject, r.snapshot)
  BY <1>1
<1>3. PICK s \in resolutions : b.subject = Target(d.subject, s.snapshot) /\ IsMatched(d.subject, s.snapshot)
  BY <1>1
<1>4. c.subject \in Mentions
  <2>1. ClaimsOf[x] \subseteq CandidateClaims
    BY ResolverAssumption
  <2> QED BY <2>1 DEF CandidateClaims
<1>5. CASE r.snapshot \subseteq s.snapshot
  BY <1>2, <1>3, <1>4, <1>5, TargetIsStable
<1>6. CASE s.snapshot \subseteq r.snapshot
  BY <1>2, <1>3, <1>4, <1>6, TargetIsStable
<1> QED BY <1>5, <1>6 DEF AdmissionInv, SnapshotsAreOrdered

\* An active Claim was prepared without sight of any Claim it contradicts, at
\* whatever time it is executed (build_resolution).
THEOREM RivalsAreNotOverlooked == Spec => []NoRivalOverlooked
BY RivalsAreSeen, AdmissionInvHolds, PTL

\* A disputed Claim has the canonical Claim it contradicts beside it.
THEOREM DisputesAreTwoSided == Spec => []DisputesHaveTwoSides
BY DisputesAreBacked, AdmissionInvHolds, PTL

\* An Event was prepared without sight of a canonical one like it.
THEOREM TwinsAreNotOverlooked == Spec => []NoTwinOverlooked
BY TwinsAreSeen, AdmissionInvHolds, PTL

\* The Claims of one extraction read a mention as one Entity, though others that
\* match it are admitted between the resolutions that prepared them.
THEOREM MentionsAreReadOnce == Spec => []OneReadingPerMention
BY ReadingsAgree, AdmissionInvHolds, PTL

-----------------------------------------------------------------------------
(* One record for an ID                                                    *)

\* What a record is told from others by, if a resolution prepared it.
LEMMA PreparedIds ==
  ASSUME NEW x \in Extractions, NEW s, NEW a \in Mutations(x, s)
  PROVE  /\ a.id \in ExtractedIds
         /\ a.kind \in {"evidence", "claim", "event"}
         /\ a.kind = "claim" => \E c \in ClaimsOf[x] :
               /\ c \in PreparedClaims(x, s) /\ a = ClaimRecord(x, c, s)
               /\ a.id = <<x, "claim", c.id>> /\ a.predicate = c.predicate
         /\ a.kind # "claim" => a.id[2] # "claim"
<1>1. /\ PreparedClaims(x, s) \subseteq ClaimsOf[x]
      /\ PreparedEvents(x, s) \subseteq EventsOf[x]
  BY DEF PreparedClaims, PreparedEvents
<1>2. UsedEvidence(x, s) \subseteq EvidenceOf[x]
  BY <1>1, ResolverAssumption DEF UsedEvidence, IsAccepted
<1>3. ASSUME NEW i \in UsedEvidence(x, s), a = EvidenceRecord(x, i)
      PROVE  /\ a.kind = "evidence" /\ a.id[2] = "evidence"
             /\ a.id \in {<<x, "evidence", j>> : j \in EvidenceOf[x]}
  BY <1>2, <1>3 DEF EvidenceRecord
<1>4. ASSUME NEW c \in PreparedClaims(x, s), a = ClaimRecord(x, c, s)
      PROVE  /\ a.kind = "claim" /\ a.id = <<x, "claim", c.id>>
             /\ a.predicate = c.predicate
             /\ a.id \in {<<x, "claim", d.id>> : d \in ClaimsOf[x]}
  BY <1>1, <1>4 DEF ClaimRecord
<1>5. ASSUME NEW v \in PreparedEvents(x, s), a = EventRecord(x, v, s)
      PROVE  /\ a.kind = "event" /\ a.id[2] = "event"
             /\ a.id \in {<<x, "event", w.id>> : w \in EventsOf[x]}
  BY <1>1, <1>5 DEF EventRecord
<1>6. a.id \in ExtractedIds
  BY <1>3, <1>4, <1>5, MutationIsOfCandidate DEF ExtractedIds
<1>7. /\ a.kind \in {"evidence", "claim", "event"}
      /\ a.kind # "claim" => a.id[2] # "claim"
  BY <1>3, <1>4, <1>5, MutationIsOfCandidate
<1>8. ASSUME a.kind = "claim"
      PROVE  \E c \in ClaimsOf[x] :
               /\ c \in PreparedClaims(x, s) /\ a = ClaimRecord(x, c, s)
               /\ a.id = <<x, "claim", c.id>> /\ a.predicate = c.predicate
  BY <1>1, <1>3, <1>4, <1>5, <1>8, MutationIsOfCandidate
<1> QED BY <1>6, <1>7, <1>8

\* Two prepared records of one ID are what inspection takes for one: Claims of
\* one candidate, read alike by the resolutions that prepared them.
LEMMA PreparedMeet ==
  ASSUME AdmissionInv, OneReadingPerMention, NEW a \in store, NEW b \in store,
         IsExtracted(a), IsExtracted(b), a.id = b.id
  PROVE  Meets(a, b)
<1>1. PICK r \in resolutions, x \in Extractions : a \in Mutations(x, r.snapshot)
  BY ExtractedIsPrepared
<1>2. PICK s \in resolutions, y \in Extractions : b \in Mutations(y, s.snapshot)
  BY ExtractedIsPrepared
<1>3. a.kind # "claim" => a.id[2] # "claim"
  BY <1>1, PreparedIds
<1>4. b.kind # "claim" => b.id[2] # "claim"
  BY <1>2, PreparedIds
<1>5. CASE a.kind = "claim"
  <2>1. PICK c \in ClaimsOf[x] : a.id = <<x, "claim", c.id>> /\ a.predicate = c.predicate
    BY <1>1, <1>5, PreparedIds
  <2>2. b.kind = "claim"
    BY <1>4, <2>1
  <2>3. PICK d \in ClaimsOf[y] : b.id = <<y, "claim", d.id>> /\ b.predicate = d.predicate
    BY <1>2, <2>2, PreparedIds
  <2>4. x = y /\ c.id = d.id
    <3>1. a.id[1] = x /\ a.id[3] = c.id
      BY <2>1
    <3>2. b.id[1] = y /\ b.id[3] = d.id
      BY <2>3
    <3> QED BY <3>1, <3>2
  <2>5. c = d
    BY <2>4, ResolverAssumption DEF IsAccepted, IdsAreUnique
  <2>6. a \in ExtractedClaims /\ b \in ExtractedClaims
    BY <1>5, <2>2 DEF ExtractedClaims, Records
  <2>7. a.subject = b.subject
    <3>1. \A k, l \in ExtractedClaims :
            k.id = <<x, "claim", c.id>> /\ l.id = <<x, "claim", c.id>> => k.subject = l.subject
      BY DEF OneReadingPerMention
    <3> QED BY <2>1, <2>6, <3>1
  <2> QED BY <1>5, <2>1, <2>2, <2>3, <2>5, <2>7 DEF Meets
<1>6. CASE a.kind # "claim"
  <2>1. b.kind # "claim"
    <3> SUFFICES ASSUME b.kind = "claim" PROVE FALSE
      OBVIOUS
    <3>1. b.id[2] = "claim"
      BY <1>2, PreparedIds
    <3> QED BY <1>3, <1>6, <3>1
  <2> QED BY <1>6, <2>1 DEF Meets
<1> QED BY <1>5, <1>6

LEMMA IdsAreUniqueInStore ==
  ASSUME HandIdsAreApart, AdmissionInv
  PROVE  OneRecordPerId
<1> SUFFICES ASSUME NEW a \in store, NEW b \in store, a.id = b.id PROVE a = b
  BY DEF OneRecordPerId
<1>1. ASSUME NEW r \in store, IsExtracted(r) PROVE r.id \in ExtractedIds
  BY <1>1, ExtractedIsPrepared, PreparedIds
<1>2. ASSUME NEW r \in store, ~IsExtracted(r) PROVE r \in ByHand
  BY <1>2 DEF IsExtracted, ByHand
<1>3. OneReadingPerMention
  BY ReadingsAgree
<1>4. CASE IsExtracted(a) /\ IsExtracted(b)
  BY <1>3, <1>4, PreparedMeet DEF AdmissionInv, IsDistinct
<1>5. CASE ~IsExtracted(a) /\ ~IsExtracted(b)
  BY <1>2, <1>5 DEF HandIdsAreApart, AdmissionInv, IsDistinct
<1>6. CASE IsExtracted(a) /\ ~IsExtracted(b)
  BY <1>1, <1>2, <1>6 DEF HandIdsAreApart
<1>7. CASE ~IsExtracted(a) /\ IsExtracted(b)
  BY <1>1, <1>2, <1>7 DEF HandIdsAreApart
<1> QED BY <1>4, <1>5, <1>6, <1>7

\* No record ID ever has two payloads, however often a candidate is resolved
\* again, if the Claim IDs of hand-written proposals keep their subject and
\* predicate and are their own.  Preflight refuses another payload at one place;
\* that an extracted Claim never comes back at another is that its mention is
\* read once (build_resolution, _claim_inspection, execute_authorized_proposal).
THEOREM RecordsAreUnique == HandIdsAreApart => (Spec => []OneRecordPerId)
<1> SUFFICES ASSUME HandIdsAreApart PROVE Spec => []OneRecordPerId
  OBVIOUS
<1>1. AdmissionInv => OneRecordPerId
  BY IdsAreUniqueInStore
<1> QED BY <1>1, AdmissionInvHolds, PTL
=============================================================================
