----------------------------- MODULE ReaderProofs ------------------------------
(***************************************************************************)
(* A bundle that is read while plans write is cited in full, for all       *)
(* records, all plans that admit Evidence before the Claims on it, all     *)
(* orders of the repository's items, and any number of bundles that are    *)
(* read; its views agree, each is accepted where it goes, and what they    *)
(* name is found; and a brief of the desk misses nothing, whenever its     *)
(* three inputs were taken.                                                *)
(***************************************************************************)
EXTENDS Readers, FiniteSetTheorems, FunctionTheorems, TLAPS

\* What the records of a bundle cite: Evidence, its Documents, their Sources.
CitedEvidence(b) ==
    (UNION {Linked(Claim[c].links) : c \in b.claims})
    \cup (UNION {Linked(Event[e].links) : e \in b.events})
CitedDocuments(b) == {Evidence[x] : x \in CitedEvidence(b)}
CitedSources(b) == {Document[d] : d \in CitedDocuments(b)}

HasEvidence(b) == CitedEvidence(b) \subseteq b.evidence
HasDocuments(b) == CitedDocuments(b) \subseteq b.documents
HasSources(b) == CitedSources(b) \subseteq b.sources
IsCited(b) == HasEvidence(b) /\ HasDocuments(b) /\ HasSources(b)

\* What is cited is fetched already or is still on the list of items.
Within(b, items) ==
    CitedEvidence(b) \cup CitedDocuments(b) \cup CitedSources(b) \subseteq items

\* What a bundle holds was admitted; a record is admitted after those it cites.
IsOfRecords(b) ==
    /\ b \in [DOMAIN Kinds -> SUBSET Admitted]
    /\ b.entities \subseteq Canon.entities
    /\ b.claims \subseteq Canon.claims /\ b.events \subseteq Canon.events

\* How far the adapter is with a bundle: the kinds of the stages behind it.
Gathered(b, stage) ==
    /\ stage > 4 => HasEvidence(b)
    /\ stage > 5 => HasDocuments(b)

WritersInv ==
    /\ done \in [Plans -> Nat] /\ \A p \in Plans : done[p] <= Len(Steps[p])
    /\ IsComplete(Admitted)
CacheInv ==
    /\ DOMAIN reader.cache \cup reader.todo \subseteq Items
    /\ \A i \in DOMAIN reader.cache : reader.cache[i].claims \subseteq Canon.claims
AdapterInv ==
    /\ reader \in [pc : {"idle", "reading", "read", "failed"}, stage : 1..6, todo : SUBSET Items,
                   cache : {reader.cache}, bundle : {reader.bundle}]
    /\ IsOfRecords(reader.bundle) /\ CacheInv
    /\ EvidenceGoesFirst /\ reader.pc = "reading" =>
        /\ Within(reader.bundle, DOMAIN reader.cache \cup reader.todo)
        /\ Gathered(reader.bundle, reader.stage)
    /\ EvidenceGoesFirst /\ reader.pc = "read" => IsCited(reader.bundle)
ShiftInv == shift \in Shifts
SiteInv == EvidenceGoesFirst => IsCited(site.bundle)

\* The inductive invariant.
ReadersInv == WritersInv /\ AdapterInv /\ ShiftInv /\ SiteInv

-----------------------------------------------------------------------------
(* Records and what they cite                                              *)

\* A chain of citations is whole when each kind of provenance is.
LEMMA CitedIsWhole ==
  ASSUME NEW b, IsCited(b)
  PROVE  /\ \A c \in b.claims : ChainIsWhole(Claim[c].links, b)
         /\ \A e \in b.events : ChainIsWhole(Event[e].links, b)
<1>1. ASSUME NEW x \in CitedEvidence(b)
      PROVE  x \in b.evidence /\ Evidence[x] \in b.documents /\ Document[Evidence[x]] \in b.sources
  BY <1>1 DEF IsCited, HasEvidence, HasDocuments, HasSources, CitedDocuments, CitedSources
<1>2. ASSUME NEW c \in b.claims PROVE ChainIsWhole(Claim[c].links, b)
  <2>1. Linked(Claim[c].links) \subseteq CitedEvidence(b)
    BY DEF CitedEvidence
  <2>2. \A l \in Claim[c].links : l.evidence \in CitedEvidence(b)
    BY <2>1 DEF Linked
  <2> QED BY <1>1, <2>2 DEF ChainIsWhole
<1>3. ASSUME NEW e \in b.events PROVE ChainIsWhole(Event[e].links, b)
  <2>1. Linked(Event[e].links) \subseteq CitedEvidence(b)
    BY DEF CitedEvidence
  <2>2. \A l \in Event[e].links : l.evidence \in CitedEvidence(b)
    BY <2>1 DEF Linked
  <2> QED BY <1>1, <2>2 DEF ChainIsWhole
<1> QED BY <1>2, <1>3

\* The kinds of records are told apart by their IDs.
LEMMA KindsAreDisjoint ==
  /\ DOMAIN Claim \cap DOMAIN Event = {} /\ DOMAIN Claim \cap DOMAIN Evidence = {}
  /\ DOMAIN Claim \cap DOMAIN Document = {} /\ DOMAIN Claim \cap DOMAIN Source = {}
  /\ DOMAIN Event \cap DOMAIN Evidence = {} /\ DOMAIN Event \cap DOMAIN Document = {}
  /\ DOMAIN Evidence \cap DOMAIN Document = {}
<1>1. DOMAIN Kinds = {"entities", "claims", "events", "evidence", "documents", "sources"}
  BY DEF Kinds
<1>2. \A j, k \in DOMAIN Kinds : j # k => Kinds[j] \cap Kinds[k] = {}
  BY RecordsAssumption
<1>3. /\ Kinds["claims"] = DOMAIN Claim /\ Kinds["events"] = DOMAIN Event
      /\ Kinds["evidence"] = DOMAIN Evidence /\ Kinds["documents"] = DOMAIN Document
      /\ Kinds["sources"] = DOMAIN Source
  BY DEF Kinds
<1> QED BY <1>1, <1>2, <1>3

\* The Evidence of a Claim that is admitted is admitted: its plan did so first.
LEMMA ClaimsFollowEvidence ==
  ASSUME EvidenceGoesFirst, WritersInv, NEW c \in DOMAIN Claim \cap Admitted
  PROVE  Linked(Claim[c].links) \subseteq Admitted
<1>1. Admitted = Seeded \cup {s.id : s \in {t \in StepsDone(done) : t.kind = "admit"}}
  BY DEF Admitted, Admits, Performed
<1>2. CASE c \in Seeded
  BY <1>1, <1>2 DEF EvidenceGoesFirst
<1>3. CASE c \notin Seeded
  <2>1. PICK t \in StepsDone(done) : t.kind = "admit" /\ t.id = c
    BY <1>1, <1>3
  <2>2. PICK p \in Plans : \E i \in 1..done[p] : t = Steps[p][i]
    BY <2>1 DEF StepsDone
  <2>3. PICK i \in 1..done[p] : t = Steps[p][i]
    BY <2>2
  <2>4. done[p] \in Nat /\ Len(Steps[p]) \in Nat /\ done[p] <= Len(Steps[p])
    BY StepsAssumption DEF WritersInv
  <2>5. i \in 1..Len(Steps[p]) /\ \A j \in 1..(i - 1) : j \in 1..done[p]
    BY <2>4
  <2>6. CitesEarlier(p, i)
    BY <2>1, <2>3, <2>5 DEF EvidenceGoesFirst
  <2>7. ASSUME NEW e \in Linked(Claim[c].links) PROVE e \in Admitted
    <3>1. PICK j \in 1..(i - 1) : Steps[p][j].kind = "admit" /\ Steps[p][j].id = e
      BY <2>1, <2>3, <2>6, <2>7 DEF CitesEarlier
    <3>2. Steps[p][j] \in StepsDone(done)
      BY <2>5, <3>1 DEF StepsDone
    <3> QED BY <1>1, <3>1, <3>2
  <2> QED BY <2>7
<1> QED BY <1>2, <1>3

\* What a record cites is admitted with it, and has an item.
LEMMA CitedIsAdmitted ==
  ASSUME EvidenceGoesFirst, WritersInv, NEW b,
         b.claims \subseteq Canon.claims, b.events \subseteq Canon.events
  PROVE  /\ Within(b, Items)
         /\ CitedEvidence(b) \subseteq DOMAIN Evidence
         /\ CitedDocuments(b) \subseteq DOMAIN Document
         /\ CitedSources(b) \subseteq DOMAIN Source
<1>0. IsComplete(Admitted)
  BY DEF WritersInv
<1>1. /\ Canon.claims = DOMAIN Claim \cap Admitted
      /\ Canon.events = DOMAIN Event \cap Admitted
  BY DEF Canon, Kinds
<1>2. ASSUME NEW c \in b.claims
      PROVE  Linked(Claim[c].links) \subseteq Admitted \cap DOMAIN Evidence
  <2>1. c \in DOMAIN Claim /\ c \in Admitted
    BY <1>1
  <2> QED BY <2>1, ClaimsFollowEvidence, RecordsAssumption
<1>3. ASSUME NEW e \in b.events
      PROVE  Linked(Event[e].links) \subseteq Admitted \cap DOMAIN Evidence
  <2>1. e \in DOMAIN Event /\ e \in Admitted /\ e \notin DOMAIN Claim
    BY <1>1, KindsAreDisjoint
  <2>2. References(e) = (Touched(e) \cup Linked(Event[e].links))
    BY <2>1, KindsAreDisjoint DEF References
  <2> QED BY <1>0, <2>1, <2>2, RecordsAssumption DEF IsComplete
<1>4. CitedEvidence(b) \subseteq Admitted \cap DOMAIN Evidence
  BY <1>2, <1>3 DEF CitedEvidence
<1>5. ASSUME NEW x \in Admitted \cap DOMAIN Evidence
      PROVE  Evidence[x] \in Admitted \cap DOMAIN Document
  <2>1. References(x) = {Evidence[x]}
    BY KindsAreDisjoint DEF References
  <2> QED BY <1>0, <2>1, RecordsAssumption DEF IsComplete
<1>6. ASSUME NEW d \in Admitted \cap DOMAIN Document
      PROVE  Document[d] \in Admitted \cap DOMAIN Source
  <2>1. References(d) = {Document[d]}
    BY KindsAreDisjoint DEF References
  <2> QED BY <1>0, <2>1, RecordsAssumption DEF IsComplete
<1>7. CitedDocuments(b) \subseteq Admitted \cap DOMAIN Document
  BY <1>4, <1>5 DEF CitedDocuments
<1>8. CitedSources(b) \subseteq Admitted \cap DOMAIN Source
  BY <1>6, <1>7 DEF CitedSources
<1> QED BY <1>4, <1>7, <1>8, KindsAreDisjoint DEF Within, Items

\* The records themselves are a bundle that is cited in full.
LEMMA CanonIsCited ==
  ASSUME EvidenceGoesFirst, WritersInv
  PROVE  IsCited(Canon)
<1>1. /\ Canon.evidence = DOMAIN Evidence \cap Admitted
      /\ Canon.documents = DOMAIN Document \cap Admitted
      /\ Canon.sources = DOMAIN Source \cap Admitted
  BY DEF Canon, Kinds
<1>2. /\ Within(Canon, Items)
      /\ CitedEvidence(Canon) \subseteq DOMAIN Evidence
      /\ CitedDocuments(Canon) \subseteq DOMAIN Document
      /\ CitedSources(Canon) \subseteq DOMAIN Source
  BY CitedIsAdmitted
<1>3. Items \subseteq Admitted
  BY DEF Items
<1> QED BY <1>1, <1>2, <1>3 DEF Within, IsCited, HasEvidence, HasDocuments, HasSources

-----------------------------------------------------------------------------
(* Writers                                                                 *)

\* A step of a plan adds at most its own record, which cites what is there.
LEMMA WriteGrows ==
  ASSUME WritersInv, NEW p \in Plans, Write(p)
  PROVE  WritersInv' /\ Admitted \subseteq Admitted'
<1> DEFINE s == Steps[p][done[p] + 1]
<1>1. /\ done \in [Plans -> Nat] /\ \A q \in Plans : done[q] <= Len(Steps[q])
      /\ IsComplete(Admitted)
      /\ done' = [done EXCEPT ![p] = @ + 1] /\ done[p] < Len(Steps[p])
      /\ s.id \in Admitted \/ References(s.id) \subseteq Admitted
  BY DEF WritersInv, Write, CanAdmit
<1>2. done' \in [Plans -> Nat] /\ \A q \in Plans : done'[q] <= Len(Steps[q])
  BY <1>1, StepsAssumption
<1>3. ASSUME NEW q \in Plans
      PROVE  /\ 1..done[q] \subseteq 1..done'[q]
             /\ \A i \in 1..done'[q] : i \in 1..done[q] \/ (q = p /\ i = done[p] + 1)
  <2>1. done[q] \in Nat /\ done'[q] = IF q = p THEN done[q] + 1 ELSE done[q]
    BY <1>1
  <2>2. CASE q = p
    <3>1. done'[q] = done[q] + 1 /\ done[p] = done[q]
      BY <2>1, <2>2
    <3> QED BY <2>1, <2>2, <3>1
  <2>3. CASE q # p
    BY <2>1, <2>3
  <2> QED BY <2>2, <2>3
<1>4. StepsDone(done) \subseteq StepsDone(done')
  BY <1>3 DEF StepsDone
<1>5. \A t \in StepsDone(done') : t \in StepsDone(done) \/ t = s
  BY <1>3 DEF StepsDone
<1> HIDE DEF s
<1>6. Admitted' = Admits(done')
  BY DEF Admitted
<1>7. Admitted \subseteq Admitted'
  BY <1>4, <1>6 DEF Admitted, Admits, Performed
<1>8. \A id \in Admitted' : id \in Admitted \/ id = s.id
  BY <1>5, <1>6 DEF Admitted, Admits, Performed
<1>9. IsComplete(Admitted)'
  BY <1>1, <1>7, <1>8 DEF IsComplete
<1> QED BY <1>2, <1>7, <1>9 DEF WritersInv

\* What the adapter has stays right as records are admitted.
LEMMA GrowthKeepsAdapter ==
  ASSUME AdapterInv, Admitted \subseteq Admitted', UNCHANGED reader
  PROVE  AdapterInv'
<1>1. Items \subseteq Items'
  BY DEF Items
<1>2. /\ Canon.claims \subseteq Canon'.claims
      /\ Canon.events \subseteq Canon'.events
      /\ Canon.entities \subseteq Canon'.entities
  BY DEF Canon, Kinds
<1>3. IsOfRecords(reader.bundle)'
  BY <1>2 DEF AdapterInv, IsOfRecords
<1>4. CacheInv'
  BY <1>1, <1>2 DEF AdapterInv, CacheInv
<1>5. /\ (EvidenceGoesFirst /\ reader.pc = "reading" =>
            /\ Within(reader.bundle, DOMAIN reader.cache \cup reader.todo)
            /\ Gathered(reader.bundle, reader.stage))'
      /\ (EvidenceGoesFirst /\ reader.pc = "read" => IsCited(reader.bundle))'
  BY DEF AdapterInv
<1>6. (reader \in [pc : {"idle", "reading", "read", "failed"}, stage : 1..6, todo : SUBSET Items,
                   cache : {reader.cache}, bundle : {reader.bundle}])'
  BY <1>1 DEF AdapterInv
<1> QED BY <1>3, <1>4, <1>5, <1>6 DEF AdapterInv

-----------------------------------------------------------------------------
(* The adapter                                                             *)

\* What is collected of a kind are admitted records of that kind.
LEMMA CollectedIsAdmitted ==
  ASSUME CacheInv, NEW kind \in DOMAIN Kinds
  PROVE  Collected(kind, reader.cache) \subseteq Canon[kind]
<1>1. DOMAIN Kinds = {"entities", "claims", "events", "evidence", "documents", "sources"}
      /\ Canon = [k \in DOMAIN Kinds |-> Kinds[k] \cap Admitted]
  BY DEF Kinds, Canon
<1>2. DOMAIN reader.cache \subseteq Admitted
  BY DEF CacheInv, Items
<1>3. CASE kind = "claims"
  <2>1. Collected(kind, reader.cache) \subseteq UNION {reader.cache[i].claims : i \in DOMAIN reader.cache}
    BY <1>3 DEF Collected
  <2>2. Canon.claims = Canon[kind]
    BY <1>3
  <2> QED BY <2>1, <2>2 DEF CacheInv
<1>4. CASE kind \in {"entities", "events"}
  BY <1>1, <1>2, <1>4 DEF Collected
<1>5. CASE kind \in {"evidence", "documents", "sources"}
  BY <1>1, <1>2, <1>5 DEF Collected
<1> QED BY <1>1, <1>3, <1>4, <1>5

\* The bundle after a stage: its records are admitted, all they cite has an
\* item, and what the stage was to gather is there.
LEMMA StageGathers ==
  ASSUME WritersInv, AdapterInv, reader.pc = "reading", reader.todo = {},
         NEW kind, kind = Order[reader.stage],
         NEW b, b = [reader.bundle EXCEPT ![kind] = Collected(kind, reader.cache)]
  PROVE  /\ IsOfRecords(b)
         /\ EvidenceGoesFirst =>
              /\ Within(b, Items) /\ Gathered(b, reader.stage + 1)
              /\ reader.stage = 6 => IsCited(b)
<1> DEFINE old == reader.bundle
<1> DEFINE got == Collected(kind, reader.cache)
<1>1. DOMAIN Kinds = {"entities", "claims", "events", "evidence", "documents", "sources"}
  BY DEF Kinds
<1>2. reader.stage \in 1..6 /\ CacheInv /\ IsOfRecords(old)
  BY DEF AdapterInv
<1>3. /\ kind = "entities" <=> reader.stage = 1
      /\ kind = "claims" <=> reader.stage = 2
      /\ kind = "events" <=> reader.stage = 3
      /\ kind = "evidence" <=> reader.stage = 4
      /\ kind = "documents" <=> reader.stage = 5
      /\ kind = "sources" <=> reader.stage = 6
  BY <1>2 DEF Order, Stages
<1>4. kind \in DOMAIN Kinds
  BY <1>1, <1>2, <1>3
<1>5. got \subseteq Canon[kind]
  BY <1>2, <1>4, CollectedIsAdmitted
<1>6. Canon = [k \in DOMAIN Kinds |-> Kinds[k] \cap Admitted]
  BY DEF Canon
<1>7. old \in [DOMAIN Kinds -> SUBSET Admitted]
  BY <1>2 DEF IsOfRecords
<1>8. \A k \in DOMAIN Kinds : b[k] = IF k = kind THEN got ELSE old[k]
  BY <1>4, <1>7
<1>9. IsOfRecords(b)
  <2>1. b \in [DOMAIN Kinds -> SUBSET Admitted]
    BY <1>4, <1>5, <1>6, <1>7
  <2>2. b.claims \subseteq Canon.claims
    BY <1>1, <1>2, <1>5, <1>8 DEF IsOfRecords
  <2>3. b.events \subseteq Canon.events
    BY <1>1, <1>2, <1>5, <1>8 DEF IsOfRecords
  <2>4. b.entities \subseteq Canon.entities
    BY <1>1, <1>2, <1>5, <1>8 DEF IsOfRecords
  <2> QED BY <2>1, <2>2, <2>3, <2>4 DEF IsOfRecords
<1>a. SUFFICES ASSUME EvidenceGoesFirst
               PROVE  /\ Within(b, Items) /\ Gathered(b, reader.stage + 1)
                      /\ reader.stage = 6 => IsCited(b)
  BY <1>9
<1>10. /\ Within(b, Items) /\ CitedEvidence(b) \subseteq DOMAIN Evidence
       /\ CitedDocuments(b) \subseteq DOMAIN Document /\ CitedSources(b) \subseteq DOMAIN Source
  BY <1>9, <1>a, CitedIsAdmitted DEF IsOfRecords
<1>11. ASSUME reader.stage > 3
       PROVE  /\ b.claims = old.claims /\ b.events = old.events
              /\ CitedEvidence(b) = CitedEvidence(old)
              /\ CitedDocuments(b) = CitedDocuments(old)
              /\ CitedSources(b) = CitedSources(old)
  <2>1. b.claims = old.claims /\ b.events = old.events
    BY <1>1, <1>2, <1>3, <1>8, <1>11
  <2> QED BY <2>1 DEF CitedEvidence, CitedDocuments, CitedSources
<1>12. Within(old, DOMAIN reader.cache) /\ Gathered(old, reader.stage)
  BY <1>a DEF AdapterInv, Within
<1>13. got = DOMAIN reader.cache \cap Kinds[kind] \/ reader.stage < 4
  BY <1>2, <1>3 DEF Collected
<1>14. /\ Kinds["evidence"] = DOMAIN Evidence /\ Kinds["documents"] = DOMAIN Document
       /\ Kinds["sources"] = DOMAIN Source
  BY DEF Kinds
<1> HIDE DEF got, old
<1>15. CASE reader.stage < 4
  BY <1>2, <1>9, <1>10, <1>15 DEF Gathered
<1>16. CASE reader.stage = 4
  <2>1. b.evidence = DOMAIN reader.cache \cap DOMAIN Evidence
    BY <1>1, <1>3, <1>8, <1>13, <1>14, <1>16
  <2>2. HasEvidence(b)
    BY <2>1, <1>10, <1>11, <1>12, <1>16 DEF HasEvidence, Within
  <2> QED BY <2>2, <1>9, <1>10, <1>16 DEF Gathered
<1>17. CASE reader.stage = 5
  <2>1. b.documents = DOMAIN reader.cache \cap DOMAIN Document /\ b.evidence = old.evidence
    BY <1>1, <1>3, <1>8, <1>13, <1>14, <1>17
  <2>2. HasEvidence(b) /\ HasDocuments(b)
    BY <2>1, <1>10, <1>11, <1>12, <1>17 DEF HasEvidence, HasDocuments, Within, Gathered
  <2> QED BY <2>2, <1>9, <1>10, <1>17 DEF Gathered
<1>18. CASE reader.stage = 6
  <2>1. /\ b.sources = DOMAIN reader.cache \cap DOMAIN Source
        /\ b.evidence = old.evidence /\ b.documents = old.documents
    BY <1>1, <1>3, <1>8, <1>13, <1>14, <1>18
  <2>2. HasEvidence(b) /\ HasDocuments(b)
    BY <2>1, <1>11, <1>12, <1>18 DEF HasEvidence, HasDocuments, Gathered
  <2>3. HasSources(b)
    BY <2>1, <1>10, <1>11, <1>12, <1>18 DEF HasSources, Within
  <2> QED BY <2>2, <2>3, <1>9, <1>10, <1>18 DEF Gathered, IsCited
<1> QED BY <1>2, <1>15, <1>16, <1>17, <1>18

\* A new adapter has read nothing.
LEMMA BeginReadKeeps ==
  ASSUME AdapterInv, BeginRead
  PROVE  AdapterInv'
<1>1. /\ reader' = [pc |-> "reading", stage |-> 1, todo |-> Items, cache |-> <<>>, bundle |-> NoBundle]
      /\ Items' = Items /\ Canon' = Canon /\ Admitted' = Admitted
  BY DEF BeginRead, Items, Canon, Admitted
<1>2. DOMAIN reader'.cache = {} /\ reader'.bundle = NoBundle
  BY <1>1
<1>3. /\ NoBundle \in [DOMAIN Kinds -> SUBSET Admitted]
      /\ NoBundle.claims = {} /\ NoBundle.events = {} /\ NoBundle.entities = {}
  BY DEF NoBundle, Kinds
<1>4. IsOfRecords(reader.bundle)'
  BY <1>1, <1>2, <1>3 DEF IsOfRecords
<1>5. CacheInv'
  BY <1>1, <1>2 DEF CacheInv
<1>6. CitedEvidence(NoBundle) = {} /\ CitedDocuments(NoBundle) = {} /\ CitedSources(NoBundle) = {}
  BY <1>3 DEF CitedEvidence, CitedDocuments, CitedSources
<1>7. Within(reader.bundle, DOMAIN reader.cache \cup reader.todo)' /\ Gathered(reader.bundle, reader.stage)'
  BY <1>1, <1>2, <1>6 DEF Within, Gathered
<1> QED BY <1>1, <1>4, <1>5, <1>7 DEF AdapterInv

\* A fetch moves an item from the list to the cache.
LEMMA FetchKeeps ==
  ASSUME AdapterInv, NEW i \in reader.todo, Fetch(i)
  PROVE  AdapterInv'
<1> DEFINE known == DOMAIN reader.cache \cup {i}
<1>1. /\ reader.pc = "reading" /\ Items' = Items /\ Canon' = Canon /\ Admitted' = Admitted
      /\ reader' = [reader EXCEPT !.todo = @ \ {i},
                                  !.cache = [j \in known |-> IF j = i THEN Snapshot(i) ELSE reader.cache[j]]]
  BY DEF Fetch, Items, Canon, Admitted
<1>2. /\ reader'.pc = "reading" /\ reader'.stage = reader.stage /\ reader'.bundle = reader.bundle
      /\ reader'.todo = reader.todo \ {i}
      /\ reader'.cache = [j \in known |-> IF j = i THEN Snapshot(i) ELSE reader.cache[j]]
      /\ reader' \in [pc : {"idle", "reading", "read", "failed"}, stage : 1..6, todo : SUBSET Items,
                      cache : {reader'.cache}, bundle : {reader'.bundle}]
  BY <1>1 DEF AdapterInv
<1>3. DOMAIN reader'.cache \cup reader'.todo = DOMAIN reader.cache \cup reader.todo
  BY <1>2
<1>4. Snapshot(i).claims \subseteq Canon.claims
  BY DEF Snapshot
<1>5. CacheInv'
  <2>1. (DOMAIN reader.cache \cup reader.todo \subseteq Items)'
    BY <1>1, <1>3 DEF AdapterInv, CacheInv
  <2>2. ASSUME NEW j \in DOMAIN reader'.cache PROVE reader'.cache[j].claims \subseteq Canon'.claims
    <3>1. CASE j = i
      BY <1>1, <1>2, <1>4, <3>1
    <3>2. CASE j # i
      BY <1>1, <1>2, <3>2 DEF AdapterInv, CacheInv
    <3> QED BY <3>1, <3>2
  <2> QED BY <2>1, <2>2 DEF CacheInv
<1>6. IsOfRecords(reader.bundle)'
  BY <1>1, <1>2 DEF AdapterInv, IsOfRecords
<1>7. ASSUME EvidenceGoesFirst
      PROVE  Within(reader.bundle, DOMAIN reader.cache \cup reader.todo)' /\ Gathered(reader.bundle, reader.stage)'
  <2>1. /\ Within(reader.bundle, DOMAIN reader.cache \cup reader.todo)
        /\ Gathered(reader.bundle, reader.stage)
    BY <1>1, <1>7 DEF AdapterInv
  <2> QED BY <2>1, <1>2, <1>3 DEF Within, Gathered
<1> QED BY <1>1, <1>2, <1>5, <1>6, <1>7 DEF AdapterInv

\* The next stage begins with every item that is not fetched yet.
LEMMA FinishStageKeeps ==
  ASSUME WritersInv, AdapterInv, FinishStage
  PROVE  AdapterInv'
<1> DEFINE kind == Order[reader.stage]
           b == [reader.bundle EXCEPT ![kind] = Collected(kind, reader.cache)]
           pc == Finished(b)
<1>1. /\ reader.pc = "reading" /\ reader.todo = {}
      /\ Items' = Items /\ Canon' = Canon /\ Admitted' = Admitted
      /\ reader' = [reader EXCEPT !.pc = pc, !.bundle = b,
                                  !.stage = IF pc = "reading" THEN @ + 1 ELSE @,
                                  !.cache = IF pc = "reading" THEN @ ELSE <<>>,
                                  !.todo = IF pc = "reading" THEN Uncached(reader.cache) ELSE {}]
  BY DEF FinishStage, Items, Canon, Admitted
<1>2. /\ IsOfRecords(b)
      /\ EvidenceGoesFirst =>
           /\ Within(b, Items) /\ Gathered(b, reader.stage + 1)
           /\ reader.stage = 6 => IsCited(b)
  BY <1>1, StageGathers
<1>3. /\ pc \in {"failed", "read", "reading"}
      /\ pc = "read" => reader.stage = 6
      /\ pc = "reading" => reader.stage # 6
  BY DEF Finished, Order, Stages
<1> HIDE DEF b, pc, kind
<1>4. /\ reader'.pc = pc /\ reader'.bundle = b
      /\ reader'.stage = IF pc = "reading" THEN reader.stage + 1 ELSE reader.stage
      /\ reader'.cache = IF pc = "reading" THEN reader.cache ELSE <<>>
      /\ reader'.todo = IF pc = "reading" THEN Uncached(reader.cache) ELSE {}
      /\ reader.stage \in 1..6
      /\ reader' \in [pc : {reader'.pc}, stage : {reader'.stage}, todo : {reader'.todo},
                      cache : {reader'.cache}, bundle : {reader'.bundle}]
  BY <1>1 DEF AdapterInv
<1>5. /\ Uncached(reader.cache) \subseteq Items
      /\ Items \subseteq DOMAIN reader.cache \cup Uncached(reader.cache)
      /\ DOMAIN reader.cache \subseteq Items
      /\ \A i \in DOMAIN reader.cache : reader.cache[i].claims \subseteq Canon.claims
  BY DEF Uncached, AdapterInv, CacheInv
<1>6. reader' \in [pc : {"idle", "reading", "read", "failed"}, stage : 1..6, todo : SUBSET Items',
                   cache : {reader'.cache}, bundle : {reader'.bundle}]
  BY <1>1, <1>3, <1>4, <1>5
<1>7. CacheInv'
  <2>1. CASE pc = "reading"
    BY <2>1, <1>1, <1>4, <1>5 DEF CacheInv
  <2>2. CASE pc # "reading"
    <3>1. DOMAIN reader'.cache = {} /\ reader'.todo = {}
      BY <2>2, <1>4
    <3> QED BY <3>1 DEF CacheInv
  <2> QED BY <2>1, <2>2
<1>8. IsOfRecords(reader.bundle)'
  BY <1>1, <1>2, <1>4 DEF IsOfRecords
<1>9. (EvidenceGoesFirst /\ reader.pc = "reading" =>
         /\ Within(reader.bundle, DOMAIN reader.cache \cup reader.todo)
         /\ Gathered(reader.bundle, reader.stage))'
  BY <1>2, <1>4, <1>5 DEF Within, Gathered
<1>10. (EvidenceGoesFirst /\ reader.pc = "read" => IsCited(reader.bundle))'
  BY <1>2, <1>3, <1>4 DEF IsCited, HasEvidence, HasDocuments, HasSources
<1> QED BY <1>6, <1>7, <1>8, <1>9, <1>10 DEF AdapterInv

-----------------------------------------------------------------------------
(* The specification                                                       *)

LEMMA InitReaders == Init => ReadersInv
<1> SUFFICES ASSUME Init PROVE ReadersInv
  OBVIOUS
<1>1. /\ shift \in Shifts /\ done = shift.progress /\ site = Unread
      /\ reader = [pc |-> "idle", stage |-> 1, todo |-> {}, cache |-> <<>>, bundle |-> NoBundle]
  BY DEF Init, ReadInit
<1>2. WritersInv
  BY <1>1, ShiftsAssumption DEF WritersInv, IsProgress, Admitted
<1>3. /\ NoBundle \in [DOMAIN Kinds -> SUBSET Admitted]
      /\ NoBundle.claims = {} /\ NoBundle.events = {} /\ NoBundle.entities = {}
  BY DEF NoBundle, Kinds
<1>4. IsOfRecords(reader.bundle)
  BY <1>1, <1>3 DEF IsOfRecords
<1>5. CacheInv
  BY <1>1 DEF CacheInv
<1>6. AdapterInv
  BY <1>1, <1>4, <1>5 DEF AdapterInv
<1>7. IsCited(NoBundle)
  BY <1>3 DEF IsCited, HasEvidence, HasDocuments, HasSources, CitedEvidence, CitedDocuments, CitedSources
<1>8. SiteInv
  BY <1>1, <1>7 DEF SiteInv, Unread
<1> QED BY <1>1, <1>2, <1>6, <1>8 DEF ReadersInv, ShiftInv

LEMMA NextReaders == ReadersInv /\ [Next]_vars => ReadersInv'
<1> SUFFICES ASSUME ReadersInv, [Next]_vars PROVE ReadersInv'
  OBVIOUS
<1> USE DEF ReadersInv
<1>0. ASSUME UNCHANGED done PROVE WritersInv'
  BY <1>0 DEF WritersInv, Admitted
<1>1. ASSUME UNCHANGED <<done, reader>>
      PROVE  WritersInv' /\ AdapterInv'
  BY <1>1, GrowthKeepsAdapter DEF WritersInv, Admitted
<1>2. ASSUME UNCHANGED shift PROVE ShiftInv'
  BY <1>2 DEF ShiftInv
<1>3. ASSUME UNCHANGED site PROVE SiteInv'
  BY <1>3 DEF SiteInv
<1>4. CASE ReadNext(shift.plans, shift.kind = "adapter") /\ UNCHANGED <<deskVars, shift, site, round>>
  <2>1. ASSUME NEW p \in shift.plans, Write(p) PROVE WritersInv' /\ AdapterInv'
    <3>1. p \in Plans
      BY ShiftsAssumption DEF ShiftInv
    <3>2. UNCHANGED reader
      BY <2>1 DEF Write
    <3> QED BY <2>1, <3>1, <3>2, WriteGrows, GrowthKeepsAdapter
  <2>2. ASSUME BeginRead PROVE WritersInv' /\ AdapterInv'
    <3>1. UNCHANGED done
      BY <2>2 DEF BeginRead
    <3> QED BY <1>0, <2>2, <3>1, BeginReadKeeps
  <2>3. ASSUME NEW i \in reader.todo, Fetch(i) PROVE WritersInv' /\ AdapterInv'
    <3>1. UNCHANGED done
      BY <2>3 DEF Fetch
    <3> QED BY <1>0, <2>3, <3>1, FetchKeeps
  <2>4. ASSUME FinishStage PROVE WritersInv' /\ AdapterInv'
    <3>1. UNCHANGED done
      BY <2>4 DEF FinishStage
    <3> QED BY <1>0, <2>4, <3>1, FinishStageKeeps
  <2>5. WritersInv' /\ AdapterInv'
    BY <1>4, <2>1, <2>2, <2>3, <2>4 DEF ReadNext
  <2> QED BY <1>2, <1>3, <1>4, <2>5
<1>5. ASSUME NEW b \in Bundles, Publish(b) PROVE ReadersInv'
  <2>1. EvidenceGoesFirst => IsCited(b)
    <3>1. b = Canon \/ (reader.pc = "read" /\ b = reader.bundle)
      BY <1>5 DEF Bundles
    <3> QED BY <3>1, CanonIsCited DEF AdapterInv
  <2>2. site'.bundle = b /\ UNCHANGED <<done, reader, shift>>
    BY <1>5 DEF Publish, readVars
  <2>3. SiteInv'
    BY <2>1, <2>2 DEF SiteInv, IsCited, HasEvidence, HasDocuments, HasSources
  <2> QED BY <1>1, <1>2, <2>2, <2>3
<1>6. CASE UNCHANGED <<done, reader, shift, site>>
  BY <1>1, <1>2, <1>3, <1>6
<1>7. CASE Tick \/ (\E f \in DOMAIN Feed : Retrieve(f)) \/ (\E id \in DOMAIN Work : Enqueue(id))
  BY <1>6, <1>7 DEF Tick, Retrieve, Enqueue, readVars
<1>8. CASE \E i \in queue : Handle(i, "claimed") \/ Handle(i, "completed")
  BY <1>6, <1>8 DEF Handle, readVars
<1>9. CASE OpenRound \/ TakeStaleness \/ TakeFreshness \/ SnapshotQueue \/ WriteAudit \/ WriteBrief
  BY <1>6, <1>9 DEF OpenRound, TakeStaleness, TakeFreshness, SnapshotQueue, WriteAudit, WriteBrief, readVars
<1>10. CASE UNCHANGED vars
  BY <1>6, <1>10 DEF vars, readVars
<1> QED BY <1>4, <1>5, <1>7, <1>8, <1>9, <1>10 DEF Next

\* The invariant says of the bundle that is published, and of the one that was
\* just read, that the chain of every citation is whole.
LEMMA ReadersInvIsCited == EvidenceGoesFirst /\ ReadersInv => BundleIsCited
<1> SUFFICES ASSUME EvidenceGoesFirst, ReadersInv,
                    NEW b \in {site.bundle} \cup (IF reader.pc = "read" THEN {reader.bundle} ELSE {})
             PROVE  /\ \A c \in b.claims : ChainIsWhole(Claim[c].links, b)
                    /\ \A e \in b.events : ChainIsWhole(Event[e].links, b)
  BY DEF BundleIsCited
<1>1. IsCited(b)
  BY DEF ReadersInv, SiteInv, AdapterInv
<1> QED BY <1>1, CitedIsWhole

\* Every bundle that WikibaseM1ReadAdapter.read_bundle completes, and every
\* bundle that is published, has the Evidence, the Documents and the Sources
\* of its Claims and Events, whatever the plans admit between two requests,
\* provided that a plan admits Evidence before the Claims that cite it: the
\* backend takes what a Claim cites from the proposal, not from the items.
THEOREM BundlesAreCited == EvidenceGoesFirst => (Spec => []BundleIsCited)
<1> SUFFICES ASSUME EvidenceGoesFirst PROVE Spec => []BundleIsCited
  OBVIOUS
<1>1. Init => ReadersInv
  BY InitReaders
<1>2. ReadersInv /\ [Next]_vars => ReadersInv'
  BY NextReaders
<1>3. ReadersInv => BundleIsCited
  BY ReadersInvIsCited
<1> QED BY <1>1, <1>2, <1>3, PTL DEF Spec

-----------------------------------------------------------------------------
(* The desk: its invariant                                                 *)

\* The desk: receipts and queue items have their instants, an ID names one item.
States == {"queued", "claimed", "completed"}
DeskInv ==
    /\ now \in Nat /\ Start <= now
    /\ \A r \in receipts : r.feed \in DOMAIN Feed /\ r.at \in Nat /\ Start <= r.at /\ r.at <= now
    /\ \A i \in queue :
        /\ i \in [id : {i.id}, state : States, lane : {i.lane}, priority : {i.priority},
                  created : Nat, extraction : {i.extraction}]
        /\ i.created <= now
    /\ \A i, j \in queue : i.id = j.id => i = j

\* Every item that is open and came before a snapshot is open in it.
Covers(q) ==
    \A i \in queue : i.created < q.asof /\ i.state # "completed" =>
        \E j \in q.items : j.id = i.id /\ j.lane = i.lane /\ IsOpen(j)

\* A round has an instant that is over, and reports of that instant: of the
\* records, of receipts that are there, of a queue that grew no older item.
RoundTyped ==
    /\ round \in [pc : {"none", "open", "refused", "audited", "briefed"}, asof : Nat,
                  staleness : {round.staleness}, freshness : {round.freshness},
                  queue : {round.queue}, report : {round.report}, brief : {round.brief}]
    /\ round.pc # "none" => Start <= round.asof /\ round.asof <= now
StalenessTold ==
    round.staleness # NoReport /\ shift.kind = "desk" =>
        /\ StalenessBuilds(Canon.claims, round.asof)
        /\ round.staleness = Staleness(Canon.claims, round.asof)
FreshnessTold ==
    round.freshness # NoReport =>
        /\ shift.kind = "desk"
        /\ \E R \in SUBSET receipts :
            FreshnessBuilds(R, round.asof) /\ round.freshness = Freshness(R, round.asof)
QueueTold ==
    round.queue # NoReport =>
        /\ Covers(round.queue) /\ round.queue.asof \in Nat /\ round.queue.asof <= now
        /\ \A i, j \in round.queue.items : i.id = j.id => i = j
\* What is written is made of the inputs of the round.
IsAudit(report) ==
    /\ NoReport \notin {round.staleness, round.freshness, round.queue}
    /\ AuditBuilds(round.staleness, round.freshness, round.queue, round.asof)
    /\ report = Audit(round.staleness, round.freshness, round.queue, round.asof)
ReportTold ==
    /\ \A r \in round.report : round.pc \in {"audited", "briefed"} /\ IsAudit(r)
    /\ round.pc = "audited" => round.report # {}
    /\ \A b \in round.brief : round.pc = "briefed" /\ \E r \in round.report : b = Brief(r)
RoundInv == RoundTyped /\ StalenessTold /\ FreshnessTold /\ QueueTold /\ ReportTold

\* The inductive invariant of the desk.
BriefInv == DeskInv /\ RoundInv

-----------------------------------------------------------------------------
(* Instants                                                                *)

\* The order of the natural numbers is well founded.
LEMMA NaturalOrder ==
  \E R : IsWellFoundedOn(R, Nat) /\ \A x, y \in Nat : x < y => <<x, y>> \in R
<1> DEFINE R == OpToRel(<, Nat)
<1>1. \A x, y \in Nat : x < y => <<x, y>> \in R
  BY DEF OpToRel
<1>2. IsWellFoundedOn(OpToRel(<, Nat), Nat)
  BY NatLessThanWellFounded
<1>3. IsWellFoundedOn(R, Nat)
  BY <1>2
<1> HIDE DEF R
<1> QED BY <1>1, <1>3

\* A set of instants that has a bound has a latest one.
LEMMA LatestTime ==
  ASSUME NEW T, T \subseteq Nat, T # {}, NEW n \in Nat, \A t \in T : t <= n
  PROVE  \E t \in T : \A u \in T : u <= t
<1> DEFINE S == {n - t : t \in T}
<1>1. \A t \in T : n - t \in Nat
  OBVIOUS
<1>2. S \subseteq Nat /\ S # {}
  BY <1>1
<1>3. PICK R : IsWellFoundedOn(R, Nat) /\ \A x, y \in Nat : x < y => <<x, y>> \in R
  BY NaturalOrder
<1>4. IsWellFoundedOn(R, Nat)
  BY <1>3
<1>5. PICK x \in S : \A y \in S : ~(<<y, x>> \in R)
  <2> HIDE DEF S
  <2> QED BY <1>2, <1>4, WFMin
<1>6. PICK t \in T : x = n - t
  OBVIOUS
<1>7. ASSUME NEW u \in T PROVE u <= t
  <2>1. n - u \in S /\ n - u \in Nat /\ x \in Nat
    BY <1>1, <1>2
  <2>2. ~(<<n - u, x>> \in R)
    BY <1>5, <2>1
  <2>3. ~(n - u < x)
    BY <1>3, <2>1, <2>2, Zenon
  <2> QED BY <1>6, <2>1, <2>3
<1> QED BY <1>7

-----------------------------------------------------------------------------
(* What the audit finds                                                    *)

\* Receipts of retrievals between the start and an instant.
IsTimed(R, asof) == \A r \in R : r.at \in Nat /\ Start <= r.at /\ r.at <= asof

\* The last retrieval of a feed is the latest of its receipts.
LEMMA LastIsLatest ==
  ASSUME NEW R, NEW asof \in Nat, NEW f, IsTimed(R, asof)
  PROVE  IF Times(R, f) = {} THEN LastRetrieved(R, f) = Never
         ELSE /\ LastRetrieved(R, f) \in Times(R, f)
              /\ \A u \in Times(R, f) : u <= LastRetrieved(R, f)
              /\ LastRetrieved(R, f) \in Nat /\ LastRetrieved(R, f) # Never
              /\ LastRetrieved(R, f) <= asof
<1>1. \A t \in Times(R, f) : t \in Nat /\ t # Never /\ t <= asof
  BY StartAssumption DEF IsTimed, Times, Never
<1>2. CASE Times(R, f) = {}
  BY <1>2 DEF LastRetrieved
<1>3. CASE Times(R, f) # {}
  <2>1. \E t \in Times(R, f) : \A u \in Times(R, f) : u <= t
    BY <1>1, <1>3, LatestTime
  <2>2. /\ LastRetrieved(R, f) \in Times(R, f)
        /\ \A u \in Times(R, f) : u <= LastRetrieved(R, f)
    BY <1>3, <2>1 DEF LastRetrieved
  <2> QED BY <1>1, <1>3, <2>2
<1> QED BY <1>2, <1>3

\* What a Claim is due for, at an instant.
IsDue(c, asof) ==
    /\ Visible(c)
    /\ \/ Claim[c].state = "disputed" \/ Claim[c].confidence = "unverified"
       \/ ReviewStatus(c, asof) # "fresh"

\* The line of a Claim in the staleness report, and what the audit finds of it.
StalenessItem(c, asof) ==
    [claim |-> c, state |-> Claim[c].state, confidence |-> Claim[c].confidence,
     verified |-> Claim[c].verified, status |-> ReviewStatus(c, asof),
     due |-> IF Claim[c].verified = Never THEN Never ELSE ReviewDue(c)]
ClaimFinding(i) ==
    Finding("claim_review_required", i.claim, i.claim, ClaimReasons(i), ClaimPriority(i), i)

\* The audit finds the Claims of the report that are due.
LEMMA ClaimsFound ==
  ASSUME NEW claims, NEW asof
  PROVE  ClaimFindings(Staleness(claims, asof)) =
            {ClaimFinding(StalenessItem(c, asof)) : c \in {x \in claims : IsDue(x, asof)}}
<1>1. Staleness(claims, asof).items = {StalenessItem(c, asof) : c \in {x \in claims : Visible(x)}}
  BY DEF Staleness, Report, StalenessItem
<1>2. ASSUME NEW c PROVE Visible(c) => (ClaimReasons(StalenessItem(c, asof)) # {} <=> IsDue(c, asof))
  <2> DEFINE i == StalenessItem(c, asof)
  <2>1. i.state = Claim[c].state /\ i.confidence = Claim[c].confidence /\ i.status = ReviewStatus(c, asof)
    BY DEF StalenessItem
  <2> HIDE DEF i
  <2>2. ClaimReasons(i) # {} <=>
          \/ i.status # "fresh" \/ i.state = "disputed" \/ i.confidence = "unverified"
    BY DEF ClaimReasons
  <2> QED BY <2>1, <2>2 DEF IsDue, i
<1>3. ASSUME NEW f
      PROVE  f \in ClaimFindings(Staleness(claims, asof)) <=>
               \E i \in {StalenessItem(c, asof) : c \in {x \in claims : Visible(x)}} :
                  ClaimReasons(i) # {} /\ f = ClaimFinding(i)
  BY <1>1 DEF ClaimFindings, ClaimFinding
<1>4. \A c \in claims : IsDue(c, asof) => Visible(c)
  BY DEF IsDue
<1>5. ASSUME NEW f
      PROVE  f \in ClaimFindings(Staleness(claims, asof)) <=>
               \E c \in claims : IsDue(c, asof) /\ f = ClaimFinding(StalenessItem(c, asof))
  BY <1>2, <1>3, <1>4, Zenon
<1> QED BY <1>5

\* What it finds of a Claim fits the brief.
LEMMA ClaimFindingsFit ==
  ASSUME NEW claims, claims \subseteq DOMAIN Claim, NEW asof \in Nat,
         StalenessBuilds(claims, asof),
         NEW f \in ClaimFindings(Staleness(claims, asof))
  PROVE  FindingFits(f, asof)
<1>1. PICK c \in claims : IsDue(c, asof) /\ f = ClaimFinding(StalenessItem(c, asof))
  BY ClaimsFound
<1> DEFINE i == StalenessItem(c, asof)
<1>2. /\ i.claim = c /\ i.state = Claim[c].state /\ i.confidence = Claim[c].confidence
      /\ i.verified = Claim[c].verified /\ i.status = ReviewStatus(c, asof)
      /\ i.due = IF Claim[c].verified = Never THEN Never ELSE ReviewDue(c)
  BY DEF StalenessItem
<1> HIDE DEF i
<1>3. /\ f.kind = "claim_review_required" /\ f.subject = i.claim /\ f.context = i
      /\ f.reasons = ClaimReasons(i) /\ f.priority = ClaimPriority(i)
  BY <1>1 DEF ClaimFinding, Finding, i
<1>4. ClaimReasons(i) # {}
  BY <1>1, <1>2 DEF IsDue, ClaimReasons
<1>5. /\ Claim[c].verified \in Nat /\ ReviewAfter[Claim[c].predicate] \in Nat \ {0}
      /\ Claim[c].verified <= asof
  BY <1>1, WatchAssumption DEF StalenessBuilds, IsDue
<1>6. IF i.status = "unverified" THEN i.verified = Never /\ i.due = Never
      ELSE i.verified # Never /\ DatesFit(i.verified, i.due, i.status = "due", asof)
  BY <1>2, <1>5 DEF ReviewStatus, ReviewDue, DatesFit, Never
<1>7. ClaimFits(f, asof)
  BY <1>3, <1>4, <1>6 DEF ClaimFits
<1> QED BY <1>3, <1>7 DEF FindingFits

\* A Claim is found if and only if it needs a review.
LEMMA ClaimsAreFound ==
  ASSUME NEW claims, claims \subseteq DOMAIN Claim, round.asof \in Nat,
         StalenessBuilds(claims, round.asof)
  PROVE  {c \in claims : NeedsReview(c)} =
            {f.key : f \in ClaimFindings(Staleness(claims, round.asof))}
<1> DEFINE asof == round.asof
<1>1. ASSUME NEW c \in claims PROVE NeedsReview(c) <=> IsDue(c, asof)
  <2>1. CASE Visible(c)
    <3>1. /\ Claim[c].verified \in Nat /\ ReviewAfter[Claim[c].predicate] \in Nat \ {0}
          /\ Claim[c].verified <= asof
      BY <2>1, WatchAssumption DEF StalenessBuilds
    <3>2. ReviewStatus(c, asof) # "fresh" <=>
            \/ Claim[c].verified = Never
            \/ Claim[c].verified \notin (asof - ReviewAfter[Claim[c].predicate] + 1)..asof
      BY <3>1 DEF ReviewStatus, ReviewDue
    <3> QED BY <3>2 DEF NeedsReview, IsDue
  <2> QED BY <2>1 DEF NeedsReview, IsDue
<1>2. \A c : ClaimFinding(StalenessItem(c, asof)).key = c
  BY DEF ClaimFinding, Finding, StalenessItem
<1>3. ClaimFindings(Staleness(claims, asof)) =
        {ClaimFinding(StalenessItem(c, asof)) : c \in {x \in claims : IsDue(x, asof)}}
  BY ClaimsFound
<1> HIDE DEF asof
<1> QED BY <1>1, <1>2, <1>3 DEF asof

\* The line of a feed in the freshness report, and what the audit finds of it.
FreshnessItem(R, f, asof) ==
    [source |-> Feed[f], feed |-> f, class |-> Source[Feed[f]].class,
     latest |-> LastRetrieved(R, f), status |-> PollStatus(R, f, asof),
     due |-> IF LastRetrieved(R, f) = Never THEN Never ELSE LastRetrieved(R, f) + PollAfter[f]]
SourceFinding(i) ==
    Finding("source_monitoring_required", i.source, i.feed, SourceReasons(i), SourcePriority(i), i)
IsUnpolled(R, f, asof) == Source[Feed[f]].active /\ PollStatus(R, f, asof) # "fresh"

\* The audit finds the watched feeds that are not fresh.
LEMMA SourcesFound ==
  ASSUME NEW R, NEW asof
  PROVE  SourceFindings(Freshness(R, asof)) =
            {SourceFinding(FreshnessItem(R, f, asof)) :
                f \in {x \in DOMAIN Feed : IsUnpolled(R, x, asof)}}
<1>1. Freshness(R, asof).items =
        {FreshnessItem(R, f, asof) : f \in {x \in DOMAIN Feed : Source[Feed[x]].active}}
  BY DEF Freshness, Report, FreshnessItem
<1>2. \A f : FreshnessItem(R, f, asof).status = PollStatus(R, f, asof)
  BY DEF FreshnessItem
<1>3. ASSUME NEW f
      PROVE  f \in SourceFindings(Freshness(R, asof)) <=>
               \E i \in {FreshnessItem(R, x, asof) : x \in {y \in DOMAIN Feed : Source[Feed[y]].active}} :
                  i.status # "fresh" /\ f = SourceFinding(i)
  BY <1>1 DEF SourceFindings, SourceFinding
<1>4. ASSUME NEW f
      PROVE  f \in SourceFindings(Freshness(R, asof)) <=>
               \E x \in DOMAIN Feed :
                  IsUnpolled(R, x, asof) /\ f = SourceFinding(FreshnessItem(R, x, asof))
  <2>1. (\E i \in {FreshnessItem(R, x, asof) : x \in {y \in DOMAIN Feed : Source[Feed[y]].active}} :
           i.status # "fresh" /\ f = SourceFinding(i))
        <=> \E x \in DOMAIN Feed :
              /\ Source[Feed[x]].active /\ FreshnessItem(R, x, asof).status # "fresh"
              /\ f = SourceFinding(FreshnessItem(R, x, asof))
    OBVIOUS
  <2> QED BY <1>2, <1>3, <2>1 DEF IsUnpolled
<1> QED BY <1>4

\* What it finds of a feed fits the brief.
LEMMA SourceFindingsFit ==
  ASSUME NEW R, NEW asof \in Nat, IsTimed(R, asof),
         NEW f \in SourceFindings(Freshness(R, asof))
  PROVE  FindingFits(f, asof)
<1>1. PICK x \in DOMAIN Feed :
        IsUnpolled(R, x, asof) /\ f = SourceFinding(FreshnessItem(R, x, asof))
  BY SourcesFound
<1> DEFINE i == FreshnessItem(R, x, asof)
           last == LastRetrieved(R, x)
<1>2. /\ i.source = Feed[x] /\ i.latest = last /\ i.status = PollStatus(R, x, asof)
      /\ i.due = IF last = Never THEN Never ELSE last + PollAfter[x]
  BY DEF FreshnessItem
<1>3. /\ f.kind = "source_monitoring_required" /\ f.subject = i.source /\ f.context = i
      /\ f.reasons = SourceReasons(i) /\ f.priority = SourcePriority(i)
  BY <1>1 DEF SourceFinding, Finding
<1>4. last = Never \/ (last \in Nat /\ last # Never /\ last <= asof)
  BY LastIsLatest
<1>5. PollAfter[x] \in Nat \ {0}
  BY WatchAssumption
<1>6. i.status = IF last = Never THEN "never_retrieved"
                 ELSE IF asof >= last + PollAfter[x] THEN "due" ELSE "fresh"
  BY <1>2 DEF PollStatus
<1>7. i.status # "fresh"
  BY <1>1, <1>2 DEF IsUnpolled
<1> HIDE DEF i, last
<1>8. /\ i.status \in {"due", "never_retrieved"}
      /\ IF i.status = "never_retrieved" THEN i.latest = Never /\ i.due = Never
         ELSE i.latest # Never /\ DatesFit(i.latest, i.due, TRUE, asof)
  BY <1>2, <1>4, <1>5, <1>6, <1>7 DEF DatesFit
<1> QED BY <1>3, <1>8 DEF FindingFits, SourceFits

\* A feed that has no receipt in its interval had none when it was looked at.
LEMMA FeedsAreFound ==
  ASSUME NEW R, R \subseteq receipts, round.asof \in Nat, IsTimed(R, round.asof),
         NEW x \in DOMAIN Feed, NeedsRetrieval(x)
  PROVE  x \in {f.key : f \in SourceFindings(Freshness(R, round.asof))}
<1> DEFINE asof == round.asof
           last == LastRetrieved(R, x)
<1>1. PollAfter[x] \in Nat \ {0}
  BY WatchAssumption
<1>2. IsUnpolled(R, x, asof)
  <2>1. CASE Times(R, x) = {}
    <3>1. last = Never
      BY <2>1, LastIsLatest
    <3> QED BY <3>1 DEF IsUnpolled, PollStatus, NeedsRetrieval
  <2>2. CASE Times(R, x) # {}
    <3>1. last \in Times(R, x) /\ last \in Nat /\ last # Never /\ last <= asof
      BY <2>2, LastIsLatest
    <3>2. PICK r \in receipts : r.feed = x /\ r.at = last
      BY <3>1 DEF Times
    <3>3. last \notin (asof - PollAfter[x] + 1)..asof
      BY <3>2 DEF NeedsRetrieval
    <3> HIDE DEF last
    <3>4. asof >= last + PollAfter[x]
      BY <1>1, <3>1, <3>3
    <3> QED BY <3>1, <3>4 DEF IsUnpolled, PollStatus, NeedsRetrieval, last
  <2> QED BY <2>1, <2>2
<1>3. SourceFinding(FreshnessItem(R, x, asof)).key = x
  BY DEF SourceFinding, Finding, FreshnessItem
<1>4. SourceFinding(FreshnessItem(R, x, asof)) \in SourceFindings(Freshness(R, asof))
  BY <1>2, SourcesFound
<1> QED BY <1>3, <1>4

\* What it finds of a queue item.
ItemFinding(i) ==
    Finding("queue_action_required", i.id, i.id, QueueReasons(i), QueuePriority(i), i)

\* That fits the brief as well.
LEMMA ItemFindingsFit ==
  ASSUME NEW q, NEW asof, QueueFits(q, asof), NEW f \in QueueFindings(q)
  PROVE  FindingFits(f, asof)
<1>1. PICK i \in q.items : IsOpen(i) /\ f = ItemFinding(i)
  BY DEF QueueFindings, ItemFinding
<1>2. /\ f.kind = "queue_action_required" /\ f.subject = i.id /\ f.context = i
      /\ f.reasons = QueueReasons(i) /\ f.priority = QueuePriority(i)
  BY <1>1 DEF ItemFinding, Finding
<1>3. i.created <= asof
  BY DEF QueueFits
<1> QED BY <1>1, <1>2, <1>3 DEF FindingFits, ItemFits

-----------------------------------------------------------------------------
(* The audit and its brief                                                 *)

\* What an audit of the desk was made of.
LEMMA AuditIsOf ==
  ASSUME BriefInv, NEW r \in round.report
  PROVE  /\ round.asof \in Nat /\ shift.kind = "desk"
         /\ StalenessBuilds(Canon.claims, round.asof)
         /\ \E R \in SUBSET receipts :
              /\ IsTimed(R, round.asof)
              /\ r = Audit(Staleness(Canon.claims, round.asof), Freshness(R, round.asof),
                           round.queue, round.asof)
         /\ QueueFits(round.queue, round.asof) /\ round.queue.asof = round.asof
         /\ Covers(round.queue)
         /\ \A i, j \in round.queue.items : i.id = j.id => i = j
<1>1. IsAudit(r) /\ round.asof \in Nat
  BY DEF BriefInv, RoundInv, RoundTyped, ReportTold
<1>2. /\ round.staleness # NoReport /\ round.freshness # NoReport /\ round.queue # NoReport
      /\ AuditBuilds(round.staleness, round.freshness, round.queue, round.asof)
      /\ r = Audit(round.staleness, round.freshness, round.queue, round.asof)
  BY <1>1 DEF IsAudit
<1>3. QueueFits(round.queue, round.asof) /\ round.queue.asof = round.asof
  BY <1>2 DEF AuditBuilds, IsAligned
<1>4. /\ Covers(round.queue)
      /\ \A i, j \in round.queue.items : i.id = j.id => i = j
  BY <1>2 DEF BriefInv, RoundInv, QueueTold
<1>5. shift.kind = "desk"
  BY <1>2 DEF BriefInv, RoundInv, FreshnessTold
<1>6. PICK R \in SUBSET receipts :
        FreshnessBuilds(R, round.asof) /\ round.freshness = Freshness(R, round.asof)
  BY <1>2 DEF BriefInv, RoundInv, FreshnessTold
<1>7. IsTimed(R, round.asof)
  BY <1>6 DEF FreshnessBuilds, IsTimed, BriefInv, DeskInv
<1>8. /\ StalenessBuilds(Canon.claims, round.asof)
      /\ round.staleness = Staleness(Canon.claims, round.asof)
  BY <1>2, <1>5 DEF BriefInv, RoundInv, StalenessTold
<1> QED BY <1>1, <1>2, <1>3, <1>4, <1>5, <1>6, <1>7, <1>8

\* Findings of one kind and one key are one finding.
LEMMA FindingsDiffer ==
  ASSUME NEW claims, NEW R, NEW asof, NEW q, \A i, j \in q.items : i.id = j.id => i = j
  PROVE  ActionKeysDiffer(Audit(Staleness(claims, asof), Freshness(R, asof), q, asof).findings)
<1> DEFINE A == ClaimFindings(Staleness(claims, asof))
           B == SourceFindings(Freshness(R, asof))
           C == QueueFindings(q)
<1>1. Audit(Staleness(claims, asof), Freshness(R, asof), q, asof).findings = A \cup B \cup C
  BY DEF Audit
<1>2. \A f \in A : /\ f.kind = "claim_review_required"
                   /\ f = ClaimFinding(StalenessItem(f.key, asof))
  <2>1. \A c : LET f == ClaimFinding(StalenessItem(c, asof))
               IN  f.kind = "claim_review_required" /\ f.key = c
    BY DEF ClaimFinding, Finding, StalenessItem
  <2> QED BY <2>1, ClaimsFound
<1>3. \A f \in B : /\ f.kind = "source_monitoring_required"
                   /\ f = SourceFinding(FreshnessItem(R, f.key, asof))
  <2>1. \A x : LET f == SourceFinding(FreshnessItem(R, x, asof))
               IN  f.kind = "source_monitoring_required" /\ f.key = x
    BY DEF SourceFinding, Finding, FreshnessItem
  <2> QED BY <2>1, SourcesFound
<1>4. \A f \in C : \E i \in q.items : f = ItemFinding(i)
  BY DEF QueueFindings, ItemFinding
<1>5. \A i : ItemFinding(i).kind = "queue_action_required" /\ ItemFinding(i).key = i.id
  BY DEF ItemFinding, Finding
<1> HIDE DEF A, B, C
<1>6. \A f, g \in C : f.key = g.key => f = g
  BY <1>4, <1>5
<1>7. \A f \in C : f.kind = "queue_action_required"
  BY <1>4, <1>5
<1>8. ASSUME NEW f \in A \cup B \cup C, NEW g \in A \cup B \cup C, f.kind = g.kind, f.key = g.key
      PROVE  f = g
  <2>1. CASE f \in A
    <3>1. g \in A
      BY <1>2, <1>3, <1>7, <1>8, <2>1
    <3> QED BY <1>2, <1>8, <2>1, <3>1
  <2>2. CASE f \in B
    <3>1. g \in B
      BY <1>2, <1>3, <1>7, <1>8, <2>2
    <3> QED BY <1>3, <1>8, <2>2, <3>1
  <2>3. CASE f \in C
    <3>1. g \in C
      BY <1>2, <1>3, <1>7, <1>8, <2>3
    <3> QED BY <1>6, <1>8, <2>3, <3>1
  <2> QED BY <2>1, <2>2, <2>3
<1> QED BY <1>1, <1>8 DEF ActionKeysDiffer

\* The Claims of the records are Claims.
LEMMA CanonClaims == Canon.claims \subseteq DOMAIN Claim
  BY DEF Canon, Kinds

\* The brief accepts the audit it is given.
LEMMA AuditIsAccepted ==
  ASSUME BriefInv, NEW r \in round.report
  PROVE  BriefBuilds(r)
<1> DEFINE asof == round.asof
           q == round.queue
<1>1. /\ asof \in Nat /\ StalenessBuilds(Canon.claims, asof) /\ QueueFits(q, asof)
      /\ \A i, j \in q.items : i.id = j.id => i = j
  BY AuditIsOf
<1>2. PICK R \in SUBSET receipts :
        /\ IsTimed(R, asof)
        /\ r = Audit(Staleness(Canon.claims, asof), Freshness(R, asof), q, asof)
  BY AuditIsOf
<1> HIDE DEF asof, q
<1>3. /\ r.asof = asof
      /\ r.findings = ClaimFindings(Staleness(Canon.claims, asof))
                        \cup SourceFindings(Freshness(R, asof)) \cup QueueFindings(q)
  BY <1>2 DEF Audit
<1>4. ASSUME NEW f \in r.findings PROVE FindingFits(f, asof)
  BY <1>1, <1>2, <1>3, CanonClaims, ClaimFindingsFit, SourceFindingsFit, ItemFindingsFit
<1>5. ActionKeysDiffer(r.findings)
  BY <1>1, <1>2, FindingsDiffer
<1> QED BY <1>3, <1>4, <1>5 DEF BriefBuilds

\* A brief sorts the findings of its audit by their kind.
LEMMA BriefOfAudit ==
  ASSUME NEW s, NEW h, NEW q, NEW asof,
         NEW b, b = Brief(Audit(s, h, q, asof)),
         \A f \in ClaimFindings(s) : f.kind = "claim_review_required",
         \A f \in SourceFindings(h) : f.kind = "source_monitoring_required",
         \A f \in QueueFindings(q) : f.kind = "queue_action_required"
  PROVE  /\ b.claim_review = ClaimFindings(s)
         /\ b.source_monitoring = SourceFindings(h)
         /\ b.editorial_queue = QueueFindings(q)
         /\ \A f \in QueueFindings(q) : f.priority = "high" => f \in b.high_priority
<1>1. Audit(s, h, q, asof).findings = ClaimFindings(s) \cup SourceFindings(h) \cup QueueFindings(q)
  BY DEF Audit
<1>2. /\ b.high_priority = {f \in Audit(s, h, q, asof).findings : f.priority = "high"}
      /\ b.claim_review = OfKind(Audit(s, h, q, asof).findings, "claim_review_required")
      /\ b.source_monitoring = OfKind(Audit(s, h, q, asof).findings, "source_monitoring_required")
      /\ b.editorial_queue = OfKind(Audit(s, h, q, asof).findings, "queue_action_required")
  BY DEF Brief
<1>3. b.claim_review = ClaimFindings(s)
  BY <1>1, <1>2 DEF OfKind
<1>4. b.source_monitoring = SourceFindings(h)
  BY <1>1, <1>2 DEF OfKind
<1>5. b.editorial_queue = QueueFindings(q)
  BY <1>1, <1>2 DEF OfKind
<1>6. \A f \in QueueFindings(q) : f.priority = "high" => f \in b.high_priority
  BY <1>1, <1>2
<1> QED BY <1>3, <1>4, <1>5, <1>6

\* Findings are of the kind they are made as.
LEMMA KindsOfFindings ==
  ASSUME NEW s, NEW h, NEW q
  PROVE  /\ \A f \in ClaimFindings(s) : f.kind = "claim_review_required"
         /\ \A f \in SourceFindings(h) : f.kind = "source_monitoring_required"
         /\ \A f \in QueueFindings(q) : f.kind = "queue_action_required"
  BY DEF ClaimFindings, SourceFindings, QueueFindings, Finding

\* An item that is open is found, and with high priority if it is restricted.
LEMMA ItemsAreFound ==
  ASSUME NEW q, Covers(q), q.asof = round.asof, NEW i \in queue, NeedsWork(i)
  PROVE  \E f \in QueueFindings(q) :
            f.key = i.id /\ (i.lane = "restricted_human" => f.priority = "high")
<1>1. PICK j \in q.items : j.id = i.id /\ j.lane = i.lane /\ IsOpen(j)
  BY DEF Covers, NeedsWork
<1>2. ItemFinding(j) \in QueueFindings(q)
  BY <1>1 DEF QueueFindings, ItemFinding
<1>3. ItemFinding(j).key = j.id /\ ItemFinding(j).priority = QueuePriority(j)
  BY DEF ItemFinding, Finding
<1>4. i.lane = "restricted_human" => QueuePriority(j) = "high"
  BY <1>1 DEF QueuePriority
<1> QED BY <1>1, <1>2, <1>3, <1>4

\* The invariant says that a brief names what was due.
LEMMA BriefInvMissesNothing == BriefInv => BriefMissesNothing
<1> SUFFICES ASSUME BriefInv, NEW b \in round.brief
             PROVE  /\ {c \in Canon.claims : NeedsReview(c)} = {f.key : f \in b.claim_review}
                    /\ {f \in DOMAIN Feed : NeedsRetrieval(f)} \subseteq {f.key : f \in b.source_monitoring}
                    /\ {i.id : i \in {x \in queue : NeedsWork(x)}} \subseteq {f.key : f \in b.editorial_queue}
                    /\ {i.id : i \in {x \in queue : NeedsWork(x) /\ x.lane = "restricted_human"}}
                          \subseteq {f.key : f \in b.high_priority}
  BY DEF BriefMissesNothing
<1> DEFINE q == round.queue
<1>1. PICK r \in round.report : b = Brief(r)
  BY DEF BriefInv, RoundInv, ReportTold
<1>2. /\ round.asof \in Nat /\ StalenessBuilds(Canon.claims, round.asof)
      /\ Covers(q) /\ q.asof = round.asof
  BY AuditIsOf
<1>3. PICK R \in SUBSET receipts :
        /\ IsTimed(R, round.asof)
        /\ r = Audit(Staleness(Canon.claims, round.asof), Freshness(R, round.asof), q, round.asof)
  BY AuditIsOf
<1> HIDE DEF q
<1>4. /\ b.claim_review = ClaimFindings(Staleness(Canon.claims, round.asof))
      /\ b.source_monitoring = SourceFindings(Freshness(R, round.asof))
      /\ b.editorial_queue = QueueFindings(q)
      /\ \A f \in QueueFindings(q) : f.priority = "high" => f \in b.high_priority
  BY <1>1, <1>3, BriefOfAudit, KindsOfFindings
<1>5. {c \in Canon.claims : NeedsReview(c)} = {f.key : f \in b.claim_review}
  BY <1>2, <1>4, CanonClaims, ClaimsAreFound
<1>6. ASSUME NEW x \in DOMAIN Feed, NeedsRetrieval(x)
      PROVE  x \in {f.key : f \in b.source_monitoring}
  BY <1>2, <1>3, <1>4, <1>6, FeedsAreFound
<1>7. ASSUME NEW i \in queue, NeedsWork(i)
      PROVE  /\ i.id \in {f.key : f \in b.editorial_queue}
             /\ i.lane = "restricted_human" => i.id \in {f.key : f \in b.high_priority}
  <2>1. PICK f \in QueueFindings(q) :
          f.key = i.id /\ (i.lane = "restricted_human" => f.priority = "high")
    BY <1>2, <1>7, ItemsAreFound
  <2> QED BY <1>4, <2>1
<1> QED BY <1>5, <1>6, <1>7

-----------------------------------------------------------------------------
(* The steps of the desk                                                   *)

\* A step that leaves the round alone.
LEMMA RoundStays ==
  ASSUME RoundInv, UNCHANGED <<round, shift>>, DeskInv, DeskInv',
         shift.kind = "desk" => UNCHANGED done,
         now <= now', receipts \subseteq receipts',
         round.queue # NoReport => Covers(round.queue)'
  PROVE  RoundInv'
<1>1. RoundTyped'
  <2>1. round.pc # "none" => Start <= round.asof /\ round.asof <= now
    BY DEF RoundInv, RoundTyped
  <2>2. round.asof \in Nat /\ now \in Nat /\ now' \in Nat
    BY DEF RoundInv, RoundTyped, DeskInv
  <2>3. round.pc # "none" => Start <= round.asof /\ round.asof <= now'
    BY <2>1, <2>2
  <2> QED BY <2>3 DEF RoundInv, RoundTyped
<1>2. StalenessTold'
  BY DEF RoundInv, StalenessTold, Canon, Admitted
<1>3. FreshnessTold'
  <2>1. SUBSET receipts \subseteq SUBSET receipts'
    OBVIOUS
  <2> QED BY <2>1 DEF RoundInv, FreshnessTold
<1>4. QueueTold'
  <2>1. round.queue # NoReport =>
          round.queue.asof \in Nat /\ round.queue.asof <= now
    BY DEF RoundInv, QueueTold
  <2>2. now \in Nat /\ now' \in Nat
    BY DEF DeskInv
  <2>3. round.queue # NoReport => round.queue.asof <= now'
    BY <2>1, <2>2
  <2> QED BY <2>3 DEF RoundInv, QueueTold
<1>5. ReportTold'
  BY DEF RoundInv, ReportTold, IsAudit
<1> QED BY <1>1, <1>2, <1>3, <1>4, <1>5 DEF RoundInv

\* A step that leaves the desk alone.
LEMMA DeskStays ==
  ASSUME BriefInv, UNCHANGED <<deskVars, round, shift>>,
         shift.kind = "desk" => UNCHANGED done
  PROVE  BriefInv'
<1>1. UNCHANGED <<now, receipts, queue>>
  BY DEF deskVars
<1>2. DeskInv'
  BY <1>1 DEF BriefInv, DeskInv
<1>3. round.queue # NoReport => Covers(round.queue)'
  BY <1>1 DEF BriefInv, RoundInv, QueueTold, Covers
<1>4. now <= now' /\ receipts \subseteq receipts'
  BY <1>1 DEF BriefInv, DeskInv
<1> QED BY <1>2, <1>3, <1>4, RoundStays DEF BriefInv

\* The steps of the desk: the clock, a retrieval, an item that comes or moves on.
LEMMA TickKeeps ==
  ASSUME BriefInv, Tick
  PROVE  BriefInv'
<1>1. now' = now + 1 /\ UNCHANGED <<done, receipts, queue, shift, round>> /\ now \in Nat
  BY DEF Tick, readVars, BriefInv, DeskInv
<1>2. DeskInv'
  <2>1. Start \in Nat
    BY StartAssumption
  <2> QED BY <1>1, <2>1 DEF BriefInv, DeskInv
<1>3. round.queue # NoReport => Covers(round.queue)'
  BY <1>1 DEF BriefInv, RoundInv, QueueTold, Covers
<1> QED BY <1>1, <1>2, <1>3, RoundStays DEF BriefInv

LEMMA RetrieveKeeps ==
  ASSUME BriefInv, NEW f \in DOMAIN Feed, Retrieve(f)
  PROVE  BriefInv'
<1>1. /\ receipts' = receipts \cup {[feed |-> f, at |-> now]}
      /\ UNCHANGED <<done, now, queue, shift, round>> /\ now \in Nat
  BY DEF Retrieve, readVars, BriefInv, DeskInv
<1>2. DeskInv'
  BY <1>1 DEF BriefInv, DeskInv
<1>3. round.queue # NoReport => Covers(round.queue)'
  BY <1>1 DEF BriefInv, RoundInv, QueueTold, Covers
<1> QED BY <1>1, <1>2, <1>3, RoundStays DEF BriefInv

LEMMA EnqueueKeeps ==
  ASSUME BriefInv, NEW id, Enqueue(id)
  PROVE  BriefInv'
<1> DEFINE new == [id |-> id, state |-> "queued", lane |-> Work[id].lane,
                   priority |-> Work[id].priority, created |-> now,
                   extraction |-> Work[id].extraction]
<1>1. /\ \A i \in queue : i.id # id
      /\ queue' = queue \cup {new}
      /\ UNCHANGED <<done, now, receipts, shift, round>> /\ now \in Nat
  BY DEF Enqueue, readVars, BriefInv, DeskInv
<1>2. /\ new.id = id /\ new.created = now
      /\ new \in [id : {new.id}, state : States, lane : {new.lane}, priority : {new.priority},
                  created : Nat, extraction : {new.extraction}]
  BY <1>1 DEF States
<1> HIDE DEF new
<1>3. DeskInv'
  <2>1. \A i, j \in queue' : i.id = j.id => i = j
    BY <1>1, <1>2 DEF BriefInv, DeskInv
  <2>2. \A i \in queue' :
          /\ i \in [id : {i.id}, state : States, lane : {i.lane}, priority : {i.priority},
                    created : Nat, extraction : {i.extraction}]
          /\ i.created <= now
    BY <1>1, <1>2 DEF BriefInv, DeskInv
  <2> QED BY <1>1, <2>1, <2>2 DEF BriefInv, DeskInv
<1>4. round.queue # NoReport => Covers(round.queue)'
  <2>1. round.queue # NoReport =>
          Covers(round.queue) /\ round.queue.asof \in Nat /\ round.queue.asof <= now
    BY DEF BriefInv, RoundInv, QueueTold
  <2>2. round.queue # NoReport => ~(new.created < round.queue.asof)
    BY <1>1, <1>2, <2>1
  <2> QED BY <1>1, <2>1, <2>2 DEF Covers
<1>5. now <= now'
  BY <1>1
<1> QED BY <1>1, <1>3, <1>4, <1>5, RoundStays DEF BriefInv

LEMMA HandleKeeps ==
  ASSUME BriefInv, NEW i \in queue, NEW state, Handle(i, state)
  PROVE  BriefInv'
<1> DEFINE new == [i EXCEPT !.state = state]
<1>1. /\ i.state # "completed" /\ state \in States
      /\ queue' = (queue \ {i}) \cup {new}
      /\ UNCHANGED <<done, now, receipts, shift, round>> /\ now \in Nat
  BY DEF Handle, readVars, BriefInv, DeskInv, States
<1>2. /\ i \in [id : {i.id}, state : States, lane : {i.lane}, priority : {i.priority},
                 created : Nat, extraction : {i.extraction}]
      /\ i.created <= now
  BY DEF BriefInv, DeskInv
<1>3. /\ new.id = i.id /\ new.created = i.created /\ new.lane = i.lane
      /\ new \in [id : {new.id}, state : States, lane : {new.lane}, priority : {new.priority},
                  created : Nat, extraction : {new.extraction}]
  BY <1>1, <1>2
<1> HIDE DEF new
<1>4. DeskInv'
  <2>1. \A j, k \in queue' : j.id = k.id => j = k
    BY <1>1, <1>3 DEF BriefInv, DeskInv
  <2>2. \A j \in queue' :
          /\ j \in [id : {j.id}, state : States, lane : {j.lane}, priority : {j.priority},
                    created : Nat, extraction : {j.extraction}]
          /\ j.created <= now
    BY <1>1, <1>2, <1>3 DEF BriefInv, DeskInv
  <2> QED BY <1>1, <2>1, <2>2 DEF BriefInv, DeskInv
<1>5. round.queue # NoReport => Covers(round.queue)'
  <2>1. round.queue # NoReport => Covers(round.queue)
    BY DEF BriefInv, RoundInv, QueueTold
  <2> QED BY <1>1, <1>3, <2>1 DEF Covers
<1>6. now <= now'
  BY <1>1
<1> QED BY <1>1, <1>4, <1>5, <1>6, RoundStays DEF BriefInv

\* A step of the round: the desk stays.
LEMMA DeskWaits ==
  ASSUME BriefInv, UNCHANGED <<deskVars, readVars, shift>>
  PROVE  /\ DeskInv' /\ Canon' = Canon /\ UNCHANGED <<now, receipts, queue>>
         /\ now \in Nat /\ Start <= now
         /\ \A q : Covers(q) => Covers(q)'
<1>1. UNCHANGED <<now, receipts, queue, done>>
  BY DEF deskVars, readVars
<1>2. Canon' = Canon
  BY <1>1 DEF Canon, Admitted
<1> QED BY <1>1, <1>2 DEF BriefInv, DeskInv, Covers

\* No report and no brief is there before the audit.
LEMMA NothingIsWritten ==
  ASSUME BriefInv, round.pc \notin {"audited", "briefed"}
  PROVE  round.report = {} /\ round.brief = {}
  BY DEF BriefInv, RoundInv, ReportTold

\* A new round has no report yet.
LEMMA OpenRoundKeeps ==
  ASSUME BriefInv, OpenRound
  PROVE  BriefInv'
<1>1. /\ round.pc \in {"none", "refused"}
      /\ round' = [round EXCEPT !.pc = "open", !.asof = now, !.staleness = NoReport,
                               !.freshness = NoReport, !.queue = NoReport]
      /\ UNCHANGED <<deskVars, readVars, shift>>
  BY DEF OpenRound
<1>2. DeskInv' /\ now' = now /\ now \in Nat /\ Start <= now
  BY <1>1, DeskWaits
<1>3. round.report = {} /\ round.brief = {}
  BY <1>1, NothingIsWritten
<1>4. /\ round'.pc = "open" /\ round'.asof = now /\ round'.staleness = NoReport
      /\ round'.freshness = NoReport /\ round'.queue = NoReport
      /\ round'.report = {} /\ round'.brief = {}
      /\ round' \in [pc : {"none", "open", "refused", "audited", "briefed"}, asof : Nat,
                    staleness : {round'.staleness}, freshness : {round'.freshness},
                    queue : {round'.queue}, report : {round'.report}, brief : {round'.brief}]
  BY <1>1, <1>2, <1>3 DEF BriefInv, RoundInv, RoundTyped
<1>5. RoundTyped'
  BY <1>2, <1>4 DEF RoundTyped
<1>6. StalenessTold' /\ FreshnessTold' /\ QueueTold' /\ ReportTold'
  <2>1. NoReport' = NoReport
    BY DEF NoReport
  <2> QED BY <2>1, <1>4 DEF StalenessTold, FreshnessTold, QueueTold, ReportTold
<1> QED BY <1>2, <1>5, <1>6 DEF BriefInv, RoundInv

\* The staleness report is of the records and the instant of the round.
LEMMA TakeStalenessKeeps ==
  ASSUME BriefInv, TakeStaleness
  PROVE  BriefInv'
<1>1. /\ round.pc = "open" /\ UNCHANGED <<deskVars, readVars, shift>>
      /\ round' = IF StalenessBuilds(Canon.claims, round.asof)
                  THEN [round EXCEPT !.staleness = Staleness(Canon.claims, round.asof)]
                  ELSE [round EXCEPT !.pc = "refused"]
  BY DEF TakeStaleness
<1>2. /\ DeskInv' /\ Canon' = Canon /\ now' = now /\ receipts' = receipts
      /\ \A q : Covers(q) => Covers(q)'
  BY <1>1, DeskWaits
<1>3. round.report = {} /\ round.brief = {}
  BY <1>1, NothingIsWritten
<1>4. /\ round'.pc \in {"open", "refused"} /\ round'.asof = round.asof
      /\ \/ round'.staleness = round.staleness
         \/ /\ StalenessBuilds(Canon.claims, round.asof)
            /\ round'.staleness = Staleness(Canon.claims, round.asof)
      /\ round'.freshness = round.freshness /\ round'.queue = round.queue
      /\ round'.report = {} /\ round'.brief = {}
      /\ round' \in [pc : {"none", "open", "refused", "audited", "briefed"}, asof : Nat,
                    staleness : {round'.staleness}, freshness : {round'.freshness},
                    queue : {round'.queue}, report : {round'.report}, brief : {round'.brief}]
  BY <1>1, <1>3 DEF BriefInv, RoundInv, RoundTyped
<1>5. RoundTyped'
  BY <1>1, <1>2, <1>4 DEF BriefInv, RoundInv, RoundTyped
<1>6. StalenessTold'
  BY <1>1, <1>2, <1>4 DEF BriefInv, RoundInv, StalenessTold, NoReport
<1>7. FreshnessTold'
  BY <1>1, <1>2, <1>4 DEF BriefInv, RoundInv, FreshnessTold, NoReport
<1>8. QueueTold'
  BY <1>1, <1>2, <1>4 DEF BriefInv, RoundInv, QueueTold, NoReport
<1>9. ReportTold'
  BY <1>4 DEF ReportTold
<1> QED BY <1>2, <1>5, <1>6, <1>7, <1>8, <1>9 DEF BriefInv, RoundInv

\* The freshness report is of receipts that are there.
LEMMA TakeFreshnessKeeps ==
  ASSUME BriefInv, TakeFreshness
  PROVE  BriefInv'
<1>1. /\ round.pc = "open" /\ UNCHANGED <<deskVars, readVars, shift>> /\ shift.kind = "desk"
      /\ round' = IF FreshnessBuilds(receipts, round.asof)
                  THEN [round EXCEPT !.freshness = Freshness(receipts, round.asof)]
                  ELSE [round EXCEPT !.pc = "refused"]
  BY DEF TakeFreshness, AtDesk
<1>2. /\ DeskInv' /\ Canon' = Canon /\ now' = now /\ receipts' = receipts
      /\ \A q : Covers(q) => Covers(q)'
  BY <1>1, DeskWaits
<1>3. round.report = {} /\ round.brief = {}
  BY <1>1, NothingIsWritten
<1>4. /\ round'.pc \in {"open", "refused"} /\ round'.asof = round.asof
      /\ \/ round'.freshness = round.freshness
         \/ /\ FreshnessBuilds(receipts, round.asof)
            /\ round'.freshness = Freshness(receipts, round.asof)
      /\ round'.staleness = round.staleness /\ round'.queue = round.queue
      /\ round'.report = {} /\ round'.brief = {}
      /\ round' \in [pc : {"none", "open", "refused", "audited", "briefed"}, asof : Nat,
                    staleness : {round'.staleness}, freshness : {round'.freshness},
                    queue : {round'.queue}, report : {round'.report}, brief : {round'.brief}]
  BY <1>1, <1>3 DEF BriefInv, RoundInv, RoundTyped
<1>5. RoundTyped'
  BY <1>1, <1>2, <1>4 DEF BriefInv, RoundInv, RoundTyped
<1>6. StalenessTold'
  BY <1>1, <1>2, <1>4 DEF BriefInv, RoundInv, StalenessTold, NoReport
<1>7. FreshnessTold'
  <2>1. receipts \in SUBSET receipts
    OBVIOUS
  <2>2. round.freshness # NoReport =>
          \E R \in SUBSET receipts :
            FreshnessBuilds(R, round.asof) /\ round.freshness = Freshness(R, round.asof)
    BY DEF BriefInv, RoundInv, FreshnessTold
  <2>3. round'.freshness # NoReport =>
          \E R \in SUBSET receipts' :
            FreshnessBuilds(R, round'.asof) /\ round'.freshness = Freshness(R, round'.asof)
    BY <1>2, <1>4, <2>1, <2>2
  <2> QED BY <1>1, <2>3 DEF FreshnessTold, NoReport
<1>8. QueueTold'
  BY <1>1, <1>2, <1>4 DEF BriefInv, RoundInv, QueueTold, NoReport
<1>9. ReportTold'
  BY <1>4 DEF ReportTold
<1> QED BY <1>2, <1>5, <1>6, <1>7, <1>8, <1>9 DEF BriefInv, RoundInv

\* The snapshot covers the queue: nothing was put in it since.
LEMMA SnapshotKeeps ==
  ASSUME BriefInv, SnapshotQueue
  PROVE  BriefInv'
<1>1. /\ round.pc = "open" /\ UNCHANGED <<deskVars, readVars, shift>>
      /\ round' = [round EXCEPT !.queue = Report(now, queue)]
  BY DEF SnapshotQueue
<1>2. /\ DeskInv' /\ Canon' = Canon /\ now' = now /\ receipts' = receipts /\ queue' = queue
      /\ now \in Nat
  BY <1>1, DeskWaits
<1>3. round.report = {} /\ round.brief = {}
  BY <1>1, NothingIsWritten
<1>4. /\ round'.pc = "open" /\ round'.asof = round.asof /\ round'.queue = Report(now, queue)
      /\ round'.staleness = round.staleness /\ round'.freshness = round.freshness
      /\ round'.report = {} /\ round'.brief = {}
      /\ round' \in [pc : {"none", "open", "refused", "audited", "briefed"}, asof : Nat,
                    staleness : {round'.staleness}, freshness : {round'.freshness},
                    queue : {round'.queue}, report : {round'.report}, brief : {round'.brief}]
  BY <1>1, <1>3 DEF BriefInv, RoundInv, RoundTyped
<1>5. RoundTyped'
  BY <1>1, <1>2, <1>4 DEF BriefInv, RoundInv, RoundTyped
<1>6. StalenessTold'
  BY <1>1, <1>2, <1>4 DEF BriefInv, RoundInv, StalenessTold, NoReport
<1>7. FreshnessTold'
  BY <1>1, <1>2, <1>4 DEF BriefInv, RoundInv, FreshnessTold, NoReport
<1>8. QueueTold'
  <2>1. round'.queue.asof = now /\ round'.queue.items = queue
    BY <1>4 DEF Report
  <2>2. \A i \in queue : i.state # "completed" => IsOpen(i)
    BY DEF BriefInv, DeskInv, States, IsOpen
  <2>3. Covers(round.queue)'
    BY <1>2, <2>1, <2>2 DEF Covers
  <2>4. \A i, j \in queue : i.id = j.id => i = j
    BY DEF BriefInv, DeskInv
  <2> QED BY <1>2, <2>1, <2>3, <2>4 DEF QueueTold
<1>9. ReportTold'
  BY <1>4 DEF ReportTold
<1> QED BY <1>2, <1>5, <1>6, <1>7, <1>8, <1>9 DEF BriefInv, RoundInv

\* The inputs of a round are the same as long as it only writes.
LEMMA InputsStay ==
  ASSUME BriefInv, UNCHANGED <<deskVars, readVars, shift>>,
         round'.asof = round.asof, round'.staleness = round.staleness,
         round'.freshness = round.freshness, round'.queue = round.queue
  PROVE  DeskInv' /\ StalenessTold' /\ FreshnessTold' /\ QueueTold'
<1>1. /\ DeskInv' /\ Canon' = Canon /\ now' = now /\ receipts' = receipts
      /\ \A q : Covers(q) => Covers(q)'
  BY DeskWaits
<1>2. StalenessTold'
  BY <1>1 DEF BriefInv, RoundInv, StalenessTold, NoReport
<1>3. FreshnessTold'
  BY <1>1 DEF BriefInv, RoundInv, FreshnessTold, NoReport
<1>4. QueueTold'
  BY <1>1 DEF BriefInv, RoundInv, QueueTold, NoReport
<1> QED BY <1>1, <1>2, <1>3, <1>4

\* The audit is made of the inputs, which are of its instant.
LEMMA WriteAuditKeeps ==
  ASSUME BriefInv, WriteAudit
  PROVE  BriefInv'
<1> DEFINE audit == Audit(round.staleness, round.freshness, round.queue, round.asof)
           builds == AuditBuilds(round.staleness, round.freshness, round.queue, round.asof)
<1>1. /\ round.pc = "open" /\ UNCHANGED <<deskVars, readVars, shift>>
      /\ NoReport \notin {round.staleness, round.freshness, round.queue}
      /\ round' = IF builds THEN [round EXCEPT !.pc = "audited", !.report = {audit}]
                  ELSE [round EXCEPT !.pc = "refused"]
  BY DEF WriteAudit
<1> HIDE DEF audit, builds
<1>2. round.report = {} /\ round.brief = {}
  BY <1>1, NothingIsWritten
<1>3. /\ round'.asof = round.asof /\ round'.queue = round.queue
      /\ round'.staleness = round.staleness /\ round'.freshness = round.freshness
      /\ round'.brief = {}
      /\ \/ round'.pc = "refused" /\ round'.report = {}
         \/ builds /\ round'.pc = "audited" /\ round'.report = {audit}
      /\ round' \in [pc : {"none", "open", "refused", "audited", "briefed"}, asof : Nat,
                    staleness : {round'.staleness}, freshness : {round'.freshness},
                    queue : {round'.queue}, report : {round'.report}, brief : {round'.brief}]
  BY <1>1, <1>2 DEF BriefInv, RoundInv, RoundTyped
<1>4. DeskInv' /\ StalenessTold' /\ FreshnessTold' /\ QueueTold'
  BY <1>1, <1>3, InputsStay
<1>5. RoundTyped'
  BY <1>1, <1>3 DEF BriefInv, RoundInv, RoundTyped, deskVars
<1>6. ReportTold'
  <2>1. \A r \in round'.report : builds /\ r = audit /\ round'.pc = "audited"
    BY <1>3
  <2>2. \A r \in round'.report : IsAudit(r)'
    BY <1>1, <1>3, <2>1 DEF IsAudit, builds, audit, NoReport
  <2>3. (round.pc = "audited" => round.report # {})'
    BY <1>3
  <2> QED BY <1>3, <2>1, <2>2, <2>3 DEF ReportTold
<1> QED BY <1>4, <1>5, <1>6 DEF BriefInv, RoundInv

\* The brief of a round is there, and is that of its audit.
LEMMA WriteBriefKeeps ==
  ASSUME BriefInv, WriteBrief
  PROVE  BriefInv' /\ round'.brief # {}
<1>1. /\ round.pc = "audited" /\ UNCHANGED <<deskVars, readVars, shift>>
      /\ round' = [round EXCEPT !.pc = "briefed",
                     !.brief = {Brief(a) : a \in {r \in round.report : BriefBuilds(r)}}]
  BY DEF WriteBrief
<1>2. /\ round'.asof = round.asof /\ round'.queue = round.queue
      /\ round'.staleness = round.staleness /\ round'.freshness = round.freshness
      /\ round'.pc = "briefed" /\ round'.report = round.report
      /\ round'.brief = {Brief(a) : a \in {r \in round.report : BriefBuilds(r)}}
      /\ round' \in [pc : {"none", "open", "refused", "audited", "briefed"}, asof : Nat,
                    staleness : {round'.staleness}, freshness : {round'.freshness},
                    queue : {round'.queue}, report : {round'.report}, brief : {round'.brief}]
  BY <1>1 DEF BriefInv, RoundInv, RoundTyped
<1>3. DeskInv' /\ StalenessTold' /\ FreshnessTold' /\ QueueTold'
  BY <1>1, <1>2, InputsStay
<1>4. RoundTyped'
  BY <1>1, <1>2 DEF BriefInv, RoundInv, RoundTyped, deskVars
<1>5. ReportTold'
  <2>1. \A r \in round.report : IsAudit(r)'
    BY <1>2 DEF BriefInv, RoundInv, ReportTold, IsAudit, NoReport
  <2> QED BY <1>2, <2>1 DEF ReportTold
<1>6. round'.brief # {}
  <2>1. round.report # {}
    BY <1>1 DEF BriefInv, RoundInv, ReportTold
  <2> QED BY <1>2, <2>1, AuditIsAccepted
<1> QED BY <1>3, <1>4, <1>5, <1>6 DEF BriefInv, RoundInv

\* The invariant of the desk holds at the start, and every step keeps it.
LEMMA InitBrief == Init => BriefInv
<1> SUFFICES ASSUME Init PROVE BriefInv
  OBVIOUS
<1>1. /\ now = Start /\ receipts = {} /\ queue = {}
      /\ round = [pc |-> "none", asof |-> Never, staleness |-> NoReport, freshness |-> NoReport,
                  queue |-> NoReport, report |-> {}, brief |-> {}]
  BY DEF Init
<1>2. DeskInv
  BY <1>1, StartAssumption DEF DeskInv
<1>3. RoundTyped
  BY <1>1 DEF RoundTyped, Never
<1>4. StalenessTold /\ FreshnessTold /\ QueueTold /\ ReportTold
  BY <1>1 DEF StalenessTold, FreshnessTold, QueueTold, ReportTold
<1> QED BY <1>2, <1>3, <1>4 DEF BriefInv, RoundInv

LEMMA NextBrief == ShiftInv /\ BriefInv /\ [Next]_vars => BriefInv'
<1> SUFFICES ASSUME ShiftInv, BriefInv, [Next]_vars PROVE BriefInv'
  OBVIOUS
<1>1. CASE ReadNext(shift.plans, shift.kind = "adapter") /\ UNCHANGED <<deskVars, shift, site, round>>
  <2>1. ASSUME shift.kind = "desk" PROVE UNCHANGED done
    <3>1. shift.plans = {}
      BY <2>1, ShiftsAssumption DEF ShiftInv
    <3>2. (\E i \in reader.todo : Fetch(i)) \/ FinishStage
      BY <1>1, <2>1, <3>1 DEF ReadNext
    <3> QED BY <3>2 DEF Fetch, FinishStage
  <2> QED BY <1>1, <2>1, DeskStays
<1>2. CASE \E b \in Bundles : Publish(b)
  BY <1>2, DeskStays DEF Publish, readVars
<1>3. CASE Tick \/ \E f \in DOMAIN Feed : Retrieve(f)
  BY <1>3, TickKeeps, RetrieveKeeps
<1>4. CASE \E id \in DOMAIN Work : Enqueue(id)
  BY <1>4, EnqueueKeeps
<1>5. CASE \E i \in queue : Handle(i, "claimed") \/ Handle(i, "completed")
  BY <1>5, HandleKeeps
<1>6. CASE OpenRound \/ TakeStaleness \/ TakeFreshness
  BY <1>6, OpenRoundKeeps, TakeStalenessKeeps, TakeFreshnessKeeps
<1>7. CASE SnapshotQueue \/ WriteAudit \/ WriteBrief
  BY <1>7, SnapshotKeeps, WriteAuditKeeps, WriteBriefKeeps
<1>8. CASE UNCHANGED vars
  BY <1>8, DeskStays DEF vars, readVars
<1> QED BY <1>1, <1>2, <1>3, <1>4, <1>5, <1>6, <1>7, <1>8 DEF Next

\* A brief of the desk names every Claim, feed and queue item that was due at
\* its instant, whatever came between its three inputs.
THEOREM BriefsMissNothing == Spec => []BriefMissesNothing
<1>1. Init => ReadersInv /\ BriefInv
  BY InitReaders, InitBrief
<1>2. (ReadersInv /\ BriefInv) /\ [Next]_vars => (ReadersInv /\ BriefInv)'
  BY NextReaders, NextBrief DEF ReadersInv
<1>3. BriefInv => BriefMissesNothing
  BY BriefInvMissesNothing
<1> QED BY <1>1, <1>2, <1>3, PTL DEF Spec

-----------------------------------------------------------------------------
(* The views of one bundle                                                 *)

\* A coarsened angle is a multiple of a hundredth of a degree, half of one away
\* at most, and stays within its extent.
LEMMA CoarsenedIsNear ==
  ASSUME NEW a \in Int
  PROVE  /\ Coarsened(a) \in Int /\ Coarsened(a) - a \in -5..5 /\ Coarsened(a) % 10 = 0
         /\ \A p \in Coordinates : a \in -Extent(p)..Extent(p) => Coarsened(a) \in -Extent(p)..Extent(p)
<1>1. ASSUME NEW n \in Int, n >= 0
      PROVE  LET r == ((n + 5) \div 10) * 10
             IN  /\ r \in Int /\ r - n \in -5..5 /\ r % 10 = 0 /\ (-r) % 10 = 0 /\ r >= 0
                 /\ n <= 90000 => r <= 90000
                 /\ n <= 180000 => r <= 180000
  <2> DEFINE q == (n + 5) \div 10
             m == (n + 5) % 10
  <2>1. q \in Int /\ m \in 0..9 /\ n + 5 = 10 * q + m
    BY <1>1
  <2> HIDE DEF m
  <2>2. q >= 0
    BY <1>1
  <2> HIDE DEF q
  <2>3. (q * 10) % 10 = 0 /\ (-(q * 10)) % 10 = 0
    BY <2>1
  <2>4. /\ q * 10 \in Int /\ q * 10 - n \in -5..5 /\ q * 10 >= 0
        /\ n <= 90000 => q * 10 <= 90000
        /\ n <= 180000 => q * 10 <= 180000
    BY <1>1, <2>1, <2>2
  <2> QED BY <2>3, <2>4 DEF q
<1>2. \A p \in Coordinates : Extent(p) \in {90000, 180000}
  BY DEF Extent
<1>3. CASE a >= 0
  <2> DEFINE r == ((a + 5) \div 10) * 10
  <2>1. Coarsened(a) = r
    BY <1>3 DEF Coarsened
  <2>2. /\ r \in Int /\ r - a \in -5..5 /\ r % 10 = 0 /\ r >= 0
        /\ a <= 90000 => r <= 90000
        /\ a <= 180000 => r <= 180000
    BY <1>1, <1>3
  <2> HIDE DEF r
  <2> QED BY <1>2, <1>3, <2>1, <2>2
<1>4. CASE ~(a >= 0)
  <2> DEFINE r == ((-a + 5) \div 10) * 10
  <2>1. Coarsened(a) = -r
    BY <1>4 DEF Coarsened
  <2>2. -a \in Int /\ -a >= 0
    BY <1>4
  <2>3. /\ r \in Int /\ r - (-a) \in -5..5 /\ (-r) % 10 = 0 /\ r >= 0
        /\ -a <= 90000 => r <= 90000
        /\ -a <= 180000 => r <= 180000
    BY <1>1, <2>2
  <2> HIDE DEF r
  <2> QED BY <1>2, <1>4, <2>1, <2>3
<1> QED BY <1>3, <1>4

\* A bundle of records.
IsTyped(b) ==
    /\ b.entities \subseteq DOMAIN Entity
    /\ b.claims \subseteq DOMAIN Claim /\ b.events \subseteq DOMAIN Event

\* Of a coordinate that is settled there is one Claim at most.
LEMMA SettledIsOne ==
  ASSUME NEW b, IsTyped(b), NEW f, NEW p, CoordinateIsSettled(f, p, b)
  PROVE  /\ IsFiniteSet(Eligible(f, p, b))
         /\ \A c, d \in Eligible(f, p, b) : c = d
<1> DEFINE S == Eligible(f, p, b)
<1>1. S \subseteq DOMAIN Claim
  BY DEF Eligible, ClaimsOf, IsTyped
<1>2. IsFiniteSet(S)
  BY <1>1, ClaimsAssumption, FS_Subset
<1>3. Cardinality(S) <= 1
  BY DEF CoordinateIsSettled
<1> HIDE DEF S
<1>4. ASSUME NEW c \in S, NEW d \in S, c # d PROVE FALSE
  <2>1. {c, d} \subseteq S
    OBVIOUS
  <2>2. Cardinality({c, d}) <= Cardinality(S)
    BY <1>2, <2>1, FS_Subset
  <2>3. IsFiniteSet({c}) /\ Cardinality({c}) = 1
    BY FS_Singleton
  <2>4. Cardinality({c} \cup {d}) = 2
    BY <1>4, <2>3, FS_AddElement
  <2>5. {c} \cup {d} = {c, d}
    OBVIOUS
  <2>6. Cardinality(S) \in Nat
    BY <1>2, FS_CardinalityType
  <2> QED BY <1>3, <2>2, <2>4, <2>5, <2>6
<1> QED BY <1>2, <1>4 DEF S

\* A facility of the map has one position, near what its Claims record.
LEMMA MapIsSettled ==
  ASSUME NEW b, IsTyped(b), NEW x \in MapShown(b), NEW p \in Coordinates
  PROVE  /\ Disputed(x.entity, p, b) = {}
         /\ Eligible(x.entity, p, b) \subseteq x.coordinates
         /\ \A c \in Eligible(x.entity, p, b), a \in x.position[p] : a - Angle[c] \in -5..5
<1>1. MapBuilds(b) /\ x \in PublicMapView(b)
  BY DEF MapShown
<1>2. PICK f \in Placed(b) : x = Feature(f, b)
  BY <1>1 DEF PublicMapView
<1>3. /\ x.entity = f
      /\ x.coordinates = UNION {Eligible(f, q, b) : q \in Coordinates}
      /\ x.position[p] = {Coarsened(Angle[c]) : c \in Eligible(f, p, b)}
  BY <1>2 DEF Feature
<1>4. CoordinateIsSettled(f, p, b) /\ Located(f, b)
  BY <1>1, <1>2 DEF MapBuilds, Placed
<1>5. Disputed(f, p, b) = {}
  BY <1>4 DEF CoordinateIsSettled
<1>6. ASSUME NEW c \in Eligible(f, p, b), NEW a \in x.position[p] PROVE a - Angle[c] \in -5..5
  <2>1. PICK d \in Eligible(f, p, b) : a = Coarsened(Angle[d])
    BY <1>3, <1>6
  <2>2. c = d
    BY <1>4, <1>6, <2>1, SettledIsOne
  <2>3. Angle[c] \in Int
    <3>1. Angle[c] \in -Extent(p)..Extent(p)
      BY <1>4, <1>6 DEF Located
    <3>2. Extent(p) \in Int
      BY DEF Extent
    <3> QED BY <3>1, <3>2
  <2> QED BY <2>1, <2>2, <2>3, CoarsenedIsNear
<1>7. Eligible(f, p, b) \subseteq x.coordinates
  BY <1>3
<1> QED BY <1>3, <1>5, <1>6, <1>7

\* A page has every record of a graph that starts from its Entity.
LEMMA PagesHoldGraphs ==
  ASSUME NEW b, NEW v \in PagesShown(b), NEW d
  PROVE  Graph({v.id}, {d}, b).records \subseteq v.facts \cup v.events
<1>1. PICK e : v = Equipment(e, b)
  BY DEF PagesShown
<1>2. v.id = e /\ v.facts = Facts(e, b) /\ v.events = Story(e, b)
  BY <1>1 DEF Equipment
<1>3. Graph({e}, {d}, b).records = GraphClaims({e}, {d}, b) \cup GraphEvents({e}, {d}, b)
  BY DEF Graph
<1>4. GraphClaims({e}, {d}, b) \subseteq Facts(e, b)
  BY DEF GraphClaims, Facts, Direction
<1>5. GraphEvents({e}, {d}, b) \subseteq Story(e, b)
  BY <1>4 DEF GraphEvents, Story
<1> QED BY <1>2, <1>3, <1>4, <1>5

\* So the views of a bundle of records agree.
LEMMA ViewsAgree ==
  ASSUME NEW b, IsTyped(b)
  PROVE  Consistent(b)
  BY MapIsSettled, PagesHoldGraphs DEF Consistent

\* What is published is a bundle of records.
LEMMA PublishedIsTyped ==
  ASSUME ReadersInv, [Next]_vars, IsPublished
  PROVE  IsTyped(site'.bundle)
<1>1. PICK b \in Bundles : Publish(b)
  BY DEF Next, vars, IsPublished, Tick, Retrieve, Enqueue, Handle, OpenRound, TakeStaleness,
         TakeFreshness, SnapshotQueue, WriteAudit, WriteBrief
<1>2. site'.bundle = b
  BY <1>1 DEF Publish
<1>3. b = Canon \/ b = reader.bundle
  BY DEF Bundles
<1>4. /\ Canon.claims \subseteq DOMAIN Claim /\ Canon.events \subseteq DOMAIN Event
      /\ Canon.entities \subseteq DOMAIN Entity
  BY DEF Canon, Kinds
<1>5. /\ reader.bundle.claims \subseteq Canon.claims /\ reader.bundle.events \subseteq Canon.events
      /\ reader.bundle.entities \subseteq Canon.entities
  BY DEF ReadersInv, AdapterInv, IsOfRecords
<1> QED BY <1>2, <1>3, <1>4, <1>5 DEF IsTyped

\* The views of a published bundle do not contradict each other: a position on
\* the map (build_public_map) is that of every eligible coordinate, none of
\* them disputed, and a page (build_equipment_view) has every record of a graph
\* (build_relationship_graph) that starts from its Entity.
THEOREM ViewsAgreeWithEachOther == Spec => ViewsDoNotContradict
<1>1. Init => ReadersInv
  BY InitReaders
<1>2. ReadersInv /\ [Next]_vars => ReadersInv'
  BY NextReaders
<1>3. ReadersInv /\ [Next]_vars => [IsPublished => Consistent(site'.bundle)]_vars
  BY PublishedIsTyped, ViewsAgree
<1> QED BY <1>1, <1>2, <1>3, PTL DEF Spec, ViewsDoNotContradict

-----------------------------------------------------------------------------
(* One builder and the next                                                *)

\* A graph that the builder made of a bundle.
IsGraph(g, b) ==
    \E r, d : GraphBuilds(r, d, b) /\ g = Graph(r, d, b)

\* Every graph that is shown is one.
LEMMA ShownAreGraphs ==
  ASSUME NEW b, NEW report, NEW g \in GraphsShown(b, report)
  PROVE  IsGraph(g, b)
<1>1. CASE g \in {Graph(q.roots, q.domains, b) : q \in {r \in Requests : GraphBuilds(r.roots, r.domains, b)}}
  BY <1>1 DEF IsGraph
<1>2. CASE g \in {DomainView(x[1], x[2], b).graph :
                    x \in {y \in (DOMAIN Entity) \X (DOMAIN DomainEvents) : DomainBuilds(y[1], y[2], b, report)}}
  <2>1. PICK x \in (DOMAIN Entity) \X (DOMAIN DomainEvents) :
          DomainBuilds(x[1], x[2], b, report) /\ g = DomainView(x[1], x[2], b).graph
    BY <1>2
  <2>2. g = Graph({x[1]}, {x[2]}, b)
    BY <2>1 DEF DomainView
  <2>3. GraphBuilds({x[1]}, {x[2]}, b)
    BY <2>1 DEF DomainBuilds
  <2> QED BY <2>2, <2>3 DEF IsGraph
<1> QED BY <1>1, <1>2 DEF GraphsShown

\* The edges of a graph join what it shows, each with support.
LEMMA GraphsHaveFigures ==
  ASSUME NEW b, NEW g, IsGraph(g, b)
  PROVE  FigureBuilds(g)
<1>1. PICK r, d : GraphBuilds(r, d, b) /\ g = Graph(r, d, b)
  BY DEF IsGraph
<1> DEFINE claims == GraphClaims(r, d, b)
           events == GraphEvents(r, d, b)
           nodes == GraphEntities(r, d, b)
<1>2. /\ g.roots = r /\ g.entities = nodes /\ g.events = events
      /\ g.edges = {ClaimEdge(c) : c \in claims} \cup UNION {EventEdges(e) : e \in events}
  BY <1>1 DEF Graph
<1>3. /\ r # {} /\ r \subseteq nodes
      /\ \A c \in claims : {Claim[c].subject, ValueEntity(c)} \subseteq nodes /\ IsSupported(Claim[c].links)
      /\ \A e \in events : Touched(e) \subseteq nodes /\ IsSupported(Event[e].links)
  BY <1>1 DEF GraphBuilds, GraphEntities, Cited
<1> HIDE DEF claims, events, nodes
<1>4. DOMAIN Columns(g) = nodes \cup events
  BY <1>2 DEF Columns
<1>5. ASSUME NEW c \in claims
      PROVE  {ClaimEdge(c).from, ClaimEdge(c).to} \subseteq nodes /\ IsSupported(ClaimEdge(c).links)
  BY <1>3 DEF ClaimEdge
<1>6. ASSUME NEW e \in events, NEW x \in EventEdges(e)
      PROVE  {x.from, x.to} \subseteq nodes \cup events /\ IsSupported(x.links)
  <2>1. x.from = e /\ x.links = Event[e].links /\ x.to \in Touched(e)
    BY DEF EventEdges, Touched, Participants
  <2> QED BY <1>3, <2>1
<1>7. \A x \in g.edges : {x.from, x.to} \subseteq nodes \cup events /\ IsSupported(x.links)
  BY <1>2, <1>5, <1>6
<1> QED BY <1>2, <1>3, <1>4, <1>7 DEF FigureBuilds

\* The timeline has an Event's own links, from whatever graphs it merges.
LEMMA GraphsHaveTimelines ==
  ASSUME NEW b, NEW graphs, \A g \in graphs : IsGraph(g, b),
         \A g \in graphs : \A e \in g.events : OneRoleEach(Event[e].links)
  PROVE  TimelineBuilds(graphs)
<1> SUFFICES ASSUME NEW h \in graphs, NEW e \in h.events
             PROVE  /\ e \in UNION {g.records : g \in graphs}
                    /\ IsSupported(TimelineLinks(graphs, e)) /\ OneRoleEach(TimelineLinks(graphs, e))
  BY DEF TimelineBuilds
<1>1. ASSUME NEW g \in graphs
      PROVE  /\ g.timeline = {[event |-> x, links |-> Event[x].links] : x \in g.events}
             /\ g.events \subseteq g.records
             /\ \A x \in g.events : IsSupported(Event[x].links)
  <2>1. PICK r, d : GraphBuilds(r, d, b) /\ g = Graph(r, d, b)
    BY DEF IsGraph
  <2>2. /\ g.events = GraphEvents(r, d, b)
        /\ g.timeline = {[event |-> x, links |-> Event[x].links] : x \in GraphEvents(r, d, b)}
        /\ g.records = GraphClaims(r, d, b) \cup GraphEvents(r, d, b)
    BY <2>1 DEF Graph
  <2>3. \A x \in GraphEvents(r, d, b) : IsSupported(Event[x].links)
    BY <2>1 DEF GraphBuilds, Cited
  <2> QED BY <2>2, <2>3
<1> DEFINE items == {y \in UNION {g.timeline : g \in graphs} : y.event = e}
<1>2. \A y \in items : y.links = Event[e].links
  BY <1>1
<1>3. [event |-> e, links |-> Event[e].links] \in items
  BY <1>1
<1> HIDE DEF items
<1>4. TimelineLinks(graphs, e) = UNION {x.links : x \in items}
  BY DEF TimelineLinks, items
<1>5. UNION {x.links : x \in items} = Event[e].links
  BY <1>2, <1>3
<1> QED BY <1>1, <1>4, <1>5

\* The renderer draws the map.
LEMMA MapsHavePayloads ==
  ASSUME NEW b, IsTyped(b)
  PROVE  PayloadBuilds(MapShown(b))
<1> SUFFICES ASSUME MapBuilds(b) PROVE PayloadBuilds(PublicMapView(b))
  BY DEF MapShown, PayloadBuilds
<1>1. \A f : Feature(f, b).entity = f
  BY DEF Feature
<1>2. \A x, y \in PublicMapView(b) : x.entity = y.entity => x = y
  BY <1>1 DEF PublicMapView
<1>3. ASSUME NEW x \in PublicMapView(b)
      PROVE  /\ x.category \in PublicCategories
             /\ Cardinality(x.coordinates) = 2
             /\ \A p \in Coordinates : \A a \in x.position[p] :
                  a \in -Extent(p)..Extent(p) /\ a % 10 = 0
             /\ IsSupported(x.links)
  <2>1. PICK f \in Placed(b) : x = Feature(f, b)
    BY DEF PublicMapView
  <2>2. /\ x.category = Entity[f].subtype
        /\ x.coordinates = UNION {Eligible(f, p, b) : p \in Coordinates}
        /\ \A p \in Coordinates : x.position[p] = {Coarsened(Angle[c]) : c \in Eligible(f, p, b)}
        /\ x.links = UNION {Claim[c].links : c \in Shown(f, b)}
    BY <2>1 DEF Feature
  <2>3. /\ f \in Candidates(b) /\ Located(f, b)
        /\ \A p \in Coordinates : CoordinateIsSettled(f, p, b)
        /\ \A c \in Shown(f, b) : Cited(Claim[c].links, b)
    BY DEF MapBuilds, Placed
  <2>4. x.category \in PublicCategories
    BY <2>2, <2>3 DEF Candidates
  <2>5. ASSUME NEW p \in Coordinates, NEW a \in x.position[p]
        PROVE  a \in -Extent(p)..Extent(p) /\ a % 10 = 0
    <3>1. PICK c \in Eligible(f, p, b) : a = Coarsened(Angle[c])
      BY <2>2
    <3>2. Angle[c] \in -Extent(p)..Extent(p)
      BY <2>3, <3>1 DEF Located
    <3>3. Angle[c] \in Int
      BY <3>2 DEF Extent
    <3> QED BY <3>1, <3>2, <3>3, CoarsenedIsNear
  <2>6. PICK c, d : Eligible(f, "latitude", b) = {c} /\ Eligible(f, "longitude", b) = {d}
    <3>1. \A p \in Coordinates : \E c : Eligible(f, p, b) = {c}
      <4> TAKE p \in Coordinates
      <4>1. PICK c : c \in Eligible(f, p, b)
        BY <2>3 DEF Located
      <4>2. Eligible(f, p, b) = {c}
        BY <2>3, <4>1, SettledIsOne
      <4> QED BY <4>2
    <3> QED BY <3>1 DEF Coordinates
  <2>7. c # d
    BY <2>6 DEF Eligible, ClaimsOf
  <2>8. x.coordinates = {c} \cup {d}
    BY <2>2, <2>6 DEF Coordinates
  <2>9. Cardinality(x.coordinates) = 2
    <3>1. IsFiniteSet({c}) /\ Cardinality({c}) = 1
      BY FS_Singleton
    <3>2. Cardinality({c} \cup {d}) = Cardinality({c}) + 1
      BY <2>7, <3>1, FS_AddElement
    <3> QED BY <2>8, <3>1, <3>2
  <2>10. IsSupported(x.links)
    <3>1. c \in Shown(f, b)
      BY <2>6 DEF Shown, FacilityPredicates, Coordinates
    <3>2. IsSupported(Claim[c].links)
      BY <2>3, <3>1 DEF Cited
    <3> QED BY <2>2, <3>1, <3>2 DEF IsSupported
  <2> QED BY <2>4, <2>5, <2>9, <2>10
<1> QED BY <1>2, <1>3 DEF PayloadBuilds

\* A page names its own Entity, those related to it, and nobody else.
LEMMA PagesNameTheRelated ==
  ASSUME NEW b, IsTyped(b), NEW v \in PagesShown(b), NEW f \in DOMAIN FieldPredicates
  PROVE  PageShows(f, v) \subseteq
            {"unknown", "disputed", v.id} \cup v.related
            \cup {Claim[c].value : c \in {x \in v.facts : Claim[x].kind # "entity"}}
<1>1. PICK e : v = Equipment(e, b)
  BY DEF PagesShown
<1>2. /\ v.id = e /\ v.facts = Facts(e, b) /\ v.related = RelatedTo(e, b)
      /\ v.fields[f] = FieldState(f, Facts(e, b))
  BY <1>1 DEF Equipment
<1>3. v.fields[f] \in {"unknown", "disputed", "known"}
  BY <1>2 DEF FieldState
<1>4. CASE v.fields[f] # "known"
  BY <1>3, <1>4 DEF PageShows
<1>5. CASE v.fields[f] = "known"
  <2>1. ASSUME NEW c \in About(f, v.facts)
        PROVE  Printed(c, v) \in {e} \cup v.related
                 \cup {Claim[x].value : x \in {y \in v.facts : Claim[y].kind # "entity"}}
    <3>1. c \in Facts(e, b) /\ c \in v.facts
      BY <1>2 DEF About
    <3>2. Printed(c, v) \in v.related \/ Printed(c, v) = Claim[c].value
      BY DEF Printed
    <3>3. CASE Claim[c].kind # "entity"
      BY <3>1, <3>2, <3>3
    <3>4. CASE Claim[c].kind = "entity"
      <4>1. ValueEntity(c) = Claim[c].value /\ Claim[c].value # NoEntity
        BY <3>1, <3>4, ClaimsAssumption DEF ValueEntity, Facts, IsTyped
      <4>2. Claim[c].value = e \/ Claim[c].value \in RelatedTo(e, b)
        BY <3>1, <4>1 DEF RelatedTo
      <4> QED BY <1>2, <3>2, <4>2
    <3> QED BY <3>3, <3>4
  <2>2. PageShows(f, v) = {Printed(c, v) : c \in About(f, v.facts)}
    BY <1>5 DEF PageShows
  <2> QED BY <1>2, <2>1, <2>2
<1> QED BY <1>4, <1>5

\* So every view of a bundle of records is accepted.
LEMMA ViewsAreAccepted ==
  ASSUME NEW b, IsTyped(b), NEW report
  PROVE  Accepted(b, report)
<1>1. \A g \in GraphsShown(b, report) : IsGraph(g, b) /\ FigureBuilds(g)
  BY ShownAreGraphs, GraphsHaveFigures
<1>2. TimelineBuilds({g \in GraphsShown(b, report) : \A e \in g.events : OneRoleEach(Event[e].links)})
  BY <1>1, GraphsHaveTimelines
<1> QED BY <1>1, <1>2, MapsHavePayloads, PagesNameTheRelated DEF Accepted

\* What one builder makes the next one accepts: figures, timelines, payloads
\* and pages of whatever bundle is published, and the brief of every audit that
\* the desk writes, which checks each finding again.
THEOREM AcceptedByTheNext == Spec => BuiltViewsAreAccepted
<1>1. Init => ReadersInv /\ BriefInv
  BY InitReaders, InitBrief
<1>2. (ReadersInv /\ BriefInv) /\ [Next]_vars => (ReadersInv /\ BriefInv)'
  BY NextReaders, NextBrief DEF ReadersInv
<1>3. (ReadersInv /\ BriefInv) /\ [Next]_vars =>
        [/\ IsPublished => Accepted(site'.bundle, site'.staleness)
         /\ WriteBrief => round'.brief # {}]_vars
  BY PublishedIsTyped, ViewsAreAccepted, WriteBriefKeeps
<1> QED BY <1>1, <1>2, <1>3, PTL DEF Spec, BuiltViewsAreAccepted

-----------------------------------------------------------------------------
(* The search (execute_reference_lexical_search over the documents that     *)
(* build_search_document makes): a document matches the query of its own ID *)
(* best, and no other document does; it matches a query of its name at      *)
(* least as a name, so fewer documents than all are ranked before it.       *)

\* The quality of a match is the best there is.
LEMMA QualityIsBest ==
  ASSUME NEW d, NEW query
  PROVE  /\ Quality(d, query) \in Qualities(d, query) \cup {Unmatched}
         /\ \A r \in Qualities(d, query) : Quality(d, query) <= r
         /\ Quality(d, query) \in 0..5
<1> DEFINE found == Qualities(d, query)
<1>1. found \subseteq 0..4
  BY DEF Qualities
<1> HIDE DEF found
<1>2. \E q \in found \cup {5} : \A r \in found : q <= r
  <2>1. CASE 0 \in found
    BY <1>1, <2>1
  <2>2. CASE 0 \notin found /\ 1 \in found
    BY <1>1, <2>2
  <2>3. CASE {0, 1} \cap found = {} /\ 2 \in found
    BY <1>1, <2>3
  <2>4. CASE {0, 1, 2} \cap found = {} /\ 3 \in found
    BY <1>1, <2>4
  <2>5. CASE {0, 1, 2, 3} \cap found = {}
    <3>1. \A r \in found : r = 4
      BY <1>1, <2>5
    <3> QED BY <3>1
  <2> QED BY <2>1, <2>2, <2>3, <2>4, <2>5
<1>3. Quality(d, query) = CHOOSE q \in found \cup {5} : \A r \in found : q <= r
  BY DEF Quality, Unmatched, found
<1>4. Quality(d, query) \in found \cup {5} /\ \A r \in found : Quality(d, query) <= r
  BY <1>2, <1>3
<1> QED BY <1>1, <1>4 DEF found, Unmatched

\* The documents that a query matches, and those that are ranked before one.
Found(docs, query) == {d \in docs : Quality(d, query) # Unmatched}
Ahead(x, d, query) ==
    \/ Quality(x, query) < Quality(d, query)
    \/ Quality(x, query) = Quality(d, query) /\ Alphabet[x.id] < Alphabet[d.id]
AllAhead(docs, d, query) == {x \in Found(docs, query) : Ahead(x, d, query)}

\* What a search without filters finds.
LEMMA HitsWithoutFilters ==
  ASSUME NEW docs, NEW text, NEW limit, NEW query, query = Normalized(text)
  PROVE  Hits(docs, text, NoFilters, limit) =
            {d \in Found(docs, query) : Cardinality(AllAhead(docs, d, query)) < limit}
<1> DEFINE open == {x \in docs : FiltersMatch(x, NoFilters)}
           quality == [d \in open |-> Quality(d, query)]
           found == {d \in DOMAIN quality : quality[d] # Unmatched}
<1>1. open = docs
  BY DEF FiltersMatch, NoFilters
<1>2. Hits(docs, text, NoFilters, limit) =
        {d \in found : Cardinality({x \in found : Better(x, d, quality)}) < limit}
  BY DEF Hits
<1> HIDE DEF open
<1>3. found = Found(docs, query)
  BY <1>1 DEF Found
<1>4. ASSUME NEW d \in found
      PROVE  {x \in found : Better(x, d, quality)} = AllAhead(docs, d, query)
  <2>1. \A x \in found : quality[x] = Quality(x, query)
    OBVIOUS
  <2>2. \A x \in found : Better(x, d, quality) <=> Ahead(x, d, query)
    BY <2>1 DEF Better, Ahead
  <2> HIDE DEF found, quality
  <2> QED BY <1>3, <2>2 DEF AllAhead
<1> HIDE DEF found, quality
<1> QED BY <1>2, <1>3, <1>4

\* The index of a bundle: one document per Entity that is indexed.
LEMMA IndexIsOf ==
  ASSUME NEW b, IsTyped(b)
  PROVE  /\ IsFiniteSet(Index(b))
         /\ \A d \in Index(b) : /\ d = SearchDocument(d.id) /\ d.id \in DOMAIN Entity
                                /\ d.fields = Fields(d.id) /\ IsDerived(d)
<1> DEFINE S == {x \in b.entities : IsIndexed(x, b)}
<1>1. IsFiniteSet(S)
  BY SearchAssumption, FS_Subset DEF IsTyped
<1>2. Index(b) = {SearchDocument(e) : e \in S}
  BY DEF Index
<1> HIDE DEF S
<1>3. IsFiniteSet(Index(b))
  <2> DEFINE f == [e \in S |-> SearchDocument(e)]
  <2>1. \A e \in S : f[e] = SearchDocument(e)
    OBVIOUS
  <2>2. f \in [S -> Index(b)]
    BY <1>2
  <2> HIDE DEF f
  <2>3. \A d \in Index(b) : \E e \in S : f[e] = d
    BY <1>2, <2>1
  <2>4. f \in Surjection(S, Index(b))
    BY <2>2, <2>3 DEF Surjection
  <2> QED BY <1>1, <2>4, FS_Surjection
<1>4. ASSUME NEW e \in S
      PROVE  /\ SearchDocument(e).id = e /\ SearchDocument(e).fields = Fields(e) /\ e \in DOMAIN Entity
             /\ SearchDocument(e).terms = UNION {Fields(e)[f] : f \in DOMAIN Fields(e)}
  <2>1. e \in DOMAIN Entity
    BY DEF S, IsTyped
  <2>2. SearchDocument(e).id = e /\ SearchDocument(e).fields = Fields(e)
    BY DEF SearchDocument
  <2>3. SearchDocument(e).terms = UNION {Fields(e)[f] : f \in DOMAIN Fields(e)}
    BY Zenon DEF SearchDocument
  <2> QED BY <2>1, <2>2, <2>3
<1>5. ASSUME NEW d \in Index(b)
      PROVE  d = SearchDocument(d.id) /\ d.id \in DOMAIN Entity /\ d.fields = Fields(d.id) /\ IsDerived(d)
  <2>1. PICK e \in S : d = SearchDocument(e)
    BY <1>2
  <2>2. d.id = e /\ d.fields = Fields(e) /\ e \in DOMAIN Entity
    BY <1>4, <2>1
  <2>3. d.terms = UNION {d.fields[f] : f \in DOMAIN d.fields}
    BY <1>4, <2>1
  <2>4. d = SearchDocument(d.id) /\ d.id \in DOMAIN Entity /\ d.fields = Fields(d.id)
    BY <2>1, <2>2
  <2>5. IsDerived(d)
    BY <2>3, <2>4 DEF IsDerived
  <2> QED BY <2>4, <2>5
<1> QED BY <1>3, <1>5

\* An Entity that is a node has a document.
LEMMA NodesAreIndexed ==
  ASSUME NEW b, IsTyped(b), NEW e, IsNode(e, b)
  PROVE  \E d \in Index(b) : d.id = e
<1>1. IsIndexed(e, b) /\ e \in b.entities
  BY SearchAssumption DEF IsNode, IsIndexed, IsTyped
<1>2. SearchDocument(e) \in Index(b)
  BY <1>1 DEF Index
<1>3. SearchDocument(e).id = e
  BY DEF SearchDocument
<1> QED BY <1>2, <1>3

\* The search for an ID finds its document, and that one first.
LEMMA FoundByID ==
  ASSUME NEW b, IsTyped(b), NEW d \in Index(b)
  PROVE  Hits(Index(b), Spelled[d.id], NoFilters, 1) = {d}
<1> DEFINE docs == Index(b)
           query == Normalized(Spelled[d.id])
<1>1. /\ IsFiniteSet(docs)
      /\ \A x \in docs : x = SearchDocument(x.id) /\ x.id \in DOMAIN Entity /\ x.fields = Fields(x.id)
  BY IndexIsOf
<1>2. \A e : Fields(e).id = Variants(Spelled[e], TRUE)
  BY DEF Fields
<1>3. query # <<>>
  BY <1>1, SearchAssumption
<1>4. query \in d.fields.id
  BY <1>1, <1>2, <1>3 DEF Variants
<1>5. \A x \in docs : query \in x.fields.id => x = d
  <2>1. ASSUME NEW x \in docs, query \in x.fields.id PROVE x = d
    <3>1. query \in Variants(Spelled[x.id], TRUE)
      BY <1>1, <1>2, <2>1
    <3>2. d.id \in DOMAIN Entity /\ x.id \in DOMAIN Entity
      BY <1>1
    <3>3. d.id = x.id
      BY <3>1, <3>2, SearchAssumption
    <3>4. d = SearchDocument(d.id) /\ x = SearchDocument(x.id)
      BY <1>1
    <3> QED BY <3>3, <3>4
  <2> QED BY <2>1
<1> HIDE DEF docs, query
<1>6. Quality(d, query) = 0
  <2>1. 0 \in Qualities(d, query)
    BY <1>4 DEF Qualities
  <2>2. Quality(d, query) \in 0..5 /\ Quality(d, query) <= 0
    BY <2>1, QualityIsBest
  <2> QED BY <2>2
<1>7. ASSUME NEW x \in docs, x # d PROVE Quality(x, query) \in 1..5
  <2>1. 0 \notin Qualities(x, query)
    BY <1>5, <1>7 DEF Qualities
  <2>2. Quality(x, query) \in Qualities(x, query) \cup {Unmatched} /\ Quality(x, query) \in 0..5
    BY QualityIsBest
  <2> QED BY <2>1, <2>2 DEF Unmatched
<1>8. d \in Found(docs, query)
  BY <1>6 DEF Found, Unmatched, docs
<1>9. AllAhead(docs, d, query) = {}
  <2>1. ASSUME NEW x \in docs, Ahead(x, d, query) PROVE FALSE
    <3>1. Alphabet[d.id] \in Int
      BY <1>1, SearchAssumption DEF docs
    <3>2. CASE x = d
      BY <1>6, <2>1, <3>1, <3>2 DEF Ahead
    <3>3. CASE x # d
      BY <1>6, <1>7, <2>1, <3>3 DEF Ahead
    <3> QED BY <3>2, <3>3
  <2> QED BY <2>1 DEF AllAhead, Found
<1>10. ASSUME NEW x \in Found(docs, query), x # d
       PROVE  ~(Cardinality(AllAhead(docs, x, query)) < 1)
  <2>1. x \in docs
    BY DEF Found
  <2>2. Ahead(d, x, query)
    BY <1>6, <1>7, <1>10, <2>1 DEF Ahead
  <2>3. d \in AllAhead(docs, x, query)
    BY <1>8, <2>2 DEF AllAhead
  <2>4. IsFiniteSet(AllAhead(docs, x, query))
    BY <1>1, FS_Subset DEF AllAhead, Found
  <2>5. Cardinality(AllAhead(docs, x, query)) \in Nat /\ Cardinality(AllAhead(docs, x, query)) # 0
    BY <2>3, <2>4, FS_CardinalityType, FS_EmptySet
  <2> QED BY <2>5
<1>11. Hits(docs, Spelled[d.id], NoFilters, 1) =
         {x \in Found(docs, query) : Cardinality(AllAhead(docs, x, query)) < 1}
  BY HitsWithoutFilters DEF query
<1>12. Cardinality(AllAhead(docs, d, query)) < 1
  BY <1>9, FS_EmptySet
<1>13. Hits(docs, Spelled[d.id], NoFilters, 1) = {d}
  BY <1>8, <1>10, <1>11, <1>12
<1> QED BY <1>13 DEF docs

\* The search for a name finds every document that has it, as long as those
\* that answer to it are not more than a query may have hits.
LEMMA FoundByName ==
  ASSUME NEW b, IsTyped(b), NEW d \in Index(b), NEW t \in Named[d.id]
  PROVE  /\ Normalized(t) # <<>>
         /\ \/ d \in Hits(Index(b), t, NoFilters, HitLimit)
            \/ Cardinality(Homonyms(Index(b), t)) > HitLimit
<1> DEFINE docs == Index(b)
           query == Normalized(t)
<1>1. IsFiniteSet(docs) /\ d \in docs /\ d.id \in DOMAIN Entity /\ d.fields = Fields(d.id)
  BY IndexIsOf
<1>2. query # <<>> /\ Alphabet[d.id] \in Int
  BY <1>1, SearchAssumption
<1>3. query \in d.fields.name
  <2>1. Fields(d.id).name = TermsOf(Named[d.id], TRUE)
    BY DEF Fields
  <2>2. query \in Variants(t, TRUE)
    BY <1>2 DEF Variants
  <2> QED BY <1>1, <2>1, <2>2 DEF TermsOf
<1> DEFINE same == Homonyms(docs, t)
<1>a. /\ same = {x \in docs : query \in x.fields.id \cup x.fields.name}
      /\ IsFiniteSet(same) /\ d \in same
  <2>1. same = {x \in docs : query \in x.fields.id \cup x.fields.name}
    BY DEF Homonyms
  <2> HIDE DEF docs, query, same
  <2> QED BY <1>1, <1>3, <2>1, FS_Subset
<1> HIDE DEF docs, query, same
<1>4. Quality(d, query) \in 0..1
  <2>1. 1 \in Qualities(d, query)
    BY <1>3 DEF Qualities
  <2>2. Quality(d, query) \in 0..5 /\ Quality(d, query) <= 1
    BY <2>1, QualityIsBest
  <2> QED BY <2>2
<1>5. d \in Found(docs, query)
  BY <1>1, <1>4 DEF Found, Unmatched
<1>6. AllAhead(docs, d, query) \subseteq same /\ d \notin AllAhead(docs, d, query)
  <2>1. ASSUME NEW x \in AllAhead(docs, d, query) PROVE x \in same
    <3>1. x \in docs /\ Ahead(x, d, query)
      BY <2>1 DEF AllAhead, Found
    <3>2. /\ Quality(x, query) \in 0..5
          /\ Quality(x, query) \in Qualities(x, query) \cup {Unmatched}
      BY QualityIsBest
    <3>3. Quality(x, query) \in {0, 1}
      BY <1>4, <3>1, <3>2 DEF Ahead
    <3>4. Quality(x, query) \in Qualities(x, query)
      BY <3>2, <3>3 DEF Unmatched
    <3>5. query \in x.fields.id \cup x.fields.name
      BY <3>3, <3>4 DEF Qualities
    <3> QED BY <1>a, <3>1, <3>5
  <2> QED BY <1>2, <1>4, <2>1 DEF AllAhead, Ahead
<1>7. Cardinality(AllAhead(docs, d, query)) < Cardinality(same)
  <2>1. AllAhead(docs, d, query) # same
    BY <1>a, <1>6
  <2>2. /\ Cardinality(AllAhead(docs, d, query)) <= Cardinality(same)
        /\ Cardinality(AllAhead(docs, d, query)) = Cardinality(same) => AllAhead(docs, d, query) = same
    BY <1>a, <1>6, FS_Subset
  <2>3. IsFiniteSet(AllAhead(docs, d, query))
    BY <1>a, <1>6, FS_Subset
  <2>4. Cardinality(AllAhead(docs, d, query)) \in Nat /\ Cardinality(same) \in Nat
    BY <1>a, <2>3, FS_CardinalityType
  <2> QED BY <2>1, <2>2, <2>4
<1>8. Hits(docs, t, NoFilters, HitLimit) =
        {x \in Found(docs, query) : Cardinality(AllAhead(docs, x, query)) < HitLimit}
  BY HitsWithoutFilters DEF query
<1>9. CASE Cardinality(same) > HitLimit
  BY <1>2, <1>9 DEF same, docs, query
<1>10. CASE ~(Cardinality(same) > HitLimit)
  <2>1. /\ Cardinality(same) \in Nat /\ HitLimit \in Nat
        /\ Cardinality(AllAhead(docs, d, query)) \in Nat
    BY <1>a, <1>6, FS_Subset, FS_CardinalityType, SearchAssumption
  <2>2. Cardinality(AllAhead(docs, d, query)) < HitLimit
    BY <1>7, <1>10, <2>1
  <2> QED BY <1>2, <1>5, <1>8, <2>2 DEF docs, query
<1> QED BY <1>9, <1>10

\* The Entities that the graphs, the map and the filters name.
LEMMA NamedAreIndexed ==
  ASSUME NEW b, IsTyped(b), NEW report, NEW e
  PROVE  /\ \A g \in GraphsShown(b, report) : e \in g.entities => \E d \in Index(b) : d.id = e
         /\ \A x \in MapShown(b) : e \in {x.entity} \cup x.organizations => \E d \in Index(b) : d.id = e
         /\ \A f \in DOMAIN FacetTypes :
              NavigationBuilds(Index(b), {}) /\ e \in Options(Index(b), f) => \E d \in Index(b) : d.id = e
<1>1. ASSUME NEW g \in GraphsShown(b, report), e \in g.entities PROVE IsNode(e, b)
  <2>1. PICK r, d : GraphBuilds(r, d, b) /\ g = Graph(r, d, b)
    BY ShownAreGraphs DEF IsGraph
  <2>2. g.entities = GraphEntities(r, d, b)
    BY <2>1 DEF Graph
  <2> QED BY <1>1, <2>1, <2>2 DEF GraphBuilds
<1>2. ASSUME NEW x \in MapShown(b), e \in {x.entity} \cup x.organizations PROVE IsNode(e, b)
  <2>1. MapBuilds(b) /\ x \in PublicMapView(b)
    BY DEF MapShown
  <2>2. PICK f \in Placed(b) : x = Feature(f, b)
    BY <2>1 DEF PublicMapView
  <2>3. x.entity = f /\ x.organizations = {ValueEntity(c) : c \in Eligible(f, "associated_with", b)}
    BY <2>2 DEF Feature
  <2>4. IsNode(f, b)
    BY DEF Placed, Candidates, IsNode
  <2>5. \A c \in Eligible(f, "associated_with", b) : IsNode(ValueEntity(c), b)
    BY <2>1 DEF MapBuilds, AssociationsHold, IsNode
  <2> QED BY <1>2, <2>3, <2>4, <2>5
<1>3. ASSUME NEW f \in DOMAIN FacetTypes, NavigationBuilds(Index(b), {}), e \in Options(Index(b), f)
      PROVE  \E d \in Index(b) : d.id = e
  BY <1>3 DEF NavigationBuilds, FiltersBuild
<1> QED BY <1>1, <1>2, <1>3, NodesAreIndexed

\* Whatever a view of a bundle names is found by its ID and by its names.
LEMMA ViewsAreFindable ==
  ASSUME NEW b, IsTyped(b), NEW report
  PROVE  Findable(b, report)
<1> DEFINE docs == Index(b)
           named == (UNION {g.entities : g \in GraphsShown(b, report)})
                    \cup (UNION {{x.entity} \cup x.organizations : x \in MapShown(b)})
                    \cup IF NavigationBuilds(docs, {})
                         THEN UNION {Options(docs, f) : f \in DOMAIN FacetTypes} ELSE {}
<1>1. ASSUME NEW e \in named PROVE \E d \in docs : d.id = e
  <2>1. CASE e \in UNION {g.entities : g \in GraphsShown(b, report)}
    BY <2>1, NamedAreIndexed
  <2>2. CASE e \in UNION {{x.entity} \cup x.organizations : x \in MapShown(b)}
    BY <2>2, NamedAreIndexed
  <2>3. CASE NavigationBuilds(docs, {}) /\ e \in UNION {Options(docs, f) : f \in DOMAIN FacetTypes}
    BY <2>3, NamedAreIndexed
  <2> QED BY <1>1, <2>1, <2>2, <2>3
<1> HIDE DEF named
<1>2. ASSUME NEW d \in docs
      PROVE  /\ IsAskable(Spelled[d.id]) =>
                  /\ SearchRuns(docs, Spelled[d.id], 1)
                  /\ Hits(docs, Spelled[d.id], NoFilters, 1) = {d}
             /\ \A t \in Named[d.id] : IsAskable(t) =>
                  /\ SearchRuns(docs, t, HitLimit)
                  /\ \/ d \in Hits(docs, t, NoFilters, HitLimit)
                     \/ Cardinality(Homonyms(docs, t)) > HitLimit
  <2>1. d.id \in DOMAIN Entity /\ \A x \in docs : IsDerived(x)
    BY IndexIsOf
  <2>2. 1 \in 1..HitLimit /\ HitLimit \in 1..HitLimit /\ Normalized(Spelled[d.id]) # <<>>
    BY <2>1, SearchAssumption
  <2> QED BY <2>1, <2>2, FoundByID, FoundByName DEF SearchRuns
<1> HIDE DEF docs
<1>3. \A e \in named : \E d \in docs :
        /\ d.id = e
        /\ IsAskable(Spelled[e]) =>
             /\ SearchRuns(docs, Spelled[e], 1)
             /\ Hits(docs, Spelled[e], NoFilters, 1) = {d}
        /\ \A t \in Named[e] : IsAskable(t) =>
             /\ SearchRuns(docs, t, HitLimit)
             /\ \/ d \in Hits(docs, t, NoFilters, HitLimit)
                \/ Cardinality(Homonyms(docs, t)) > HitLimit
  BY <1>1, <1>2
<1> QED BY <1>3 DEF Findable, named, docs

\* Every Entity that a published graph, the map or a filter names is indexed;
\* the search for its ID answers with its document alone, and the search for
\* any of its names finds it unless more records answer to it than there may
\* be hits, for all spellings, names, foldings of atoms and limits.
THEOREM NamedCanBeFound == Spec => PublishedCanBeFound
<1>1. ReadersInv /\ [Next]_vars => [IsPublished => Findable(site'.bundle, site'.staleness)]_vars
  BY PublishedIsTyped, ViewsAreFindable
<1> QED BY <1>1, InitReaders, NextReaders, PTL DEF Spec, PublishedCanBeFound
=============================================================================
