------------------------------ MODULE PublicRead ------------------------------
(***************************************************************************)
(* Reading canonical records back from Wikibase while plans write them.    *)
(*                                                                         *)
(* The repository has an item per record, except that a Claim is a         *)
(* statement on the item of its subject.  The adapter lists the items once *)
(* per stage and fetches those it has not fetched yet, one request each;   *)
(* what it fetched it never fetches again.  Writers go on meanwhile: a     *)
(* plan admits records one by one, or marks items for the public reader,   *)
(* and may stop anywhere.                                                  *)
(***************************************************************************)
EXTENDS EditorialAudit

CONSTANTS
    Plans,     \* the plans of approved proposals
    Steps,     \* plan -> sequence of [kind, id], kind "admit" or "mark"
    Seeded,    \* records of the bootstrap, which nothing marked
    Target,    \* the Entity the adapter is asked for
    Place,     \* item -> its place in the repository's list of pages
    MaxReads   \* bound on the bundles that are read

VARIABLES
    done,      \* plan -> how many of its steps are done
    reader,    \* the adapter: [pc, stage, todo, cache, bundle]
    reads      \* bundles begun

readVars == <<done, reader, reads>>

StepsDone(progress) == UNION {{Steps[p][i] : i \in 1..progress[p]} : p \in Plans}
Performed(progress, kind) == {s.id : s \in {t \in StepsDone(progress) : t.kind = kind}}
Admits(progress) == Seeded \cup Performed(progress, "admit")
Admitted == Admits(done)
Marked == Performed(done, "mark")

Kinds ==
    [entities |-> DOMAIN Entity, claims |-> DOMAIN Claim, events |-> DOMAIN Event,
     evidence |-> DOMAIN Evidence, documents |-> DOMAIN Document, sources |-> DOMAIN Source]
Canon == [k \in DOMAIN Kinds |-> Kinds[k] \cap Admitted]

Items == Admitted \ DOMAIN Claim
\* One request returns an item with the statements it has at that moment.
Snapshot(i) ==
    [marked |-> i \in Marked, claims |-> {c \in Canon.claims : Claim[c].subject = i}]

\* The items that a record refers to; the backend resolves them before it
\* writes.  A Claim has its Evidence by ID, as an Event its Claims.
Linked(links) == {l.evidence : l \in links}
References(id) ==
    CASE id \in DOMAIN Claim -> {Claim[id].subject, ValueEntity(id)} \ {NoEntity}
      [] id \in DOMAIN Event -> Touched(id) \cup Linked(Event[id].links)
      [] id \in DOMAIN Evidence -> {Evidence[id]}
      [] id \in DOMAIN Document -> {Document[id]}
      [] OTHER -> {}
IsComplete(records) == \A id \in records : References(id) \subseteq records

\* The payloads that a plan carries.  The references of a Claim are built from
\* them: nothing asks whether the repository has the Evidence as well.
Carried(p) == {Steps[p][i].id : i \in 1..Len(Steps[p])}
IsCarried(id, p) ==
    id \in DOMAIN Claim =>
        \A e \in Linked(Claim[id].links) : e \in Carried(p) /\ Evidence[e] \in Carried(p)
CanAdmit(id, p) == References(id) \subseteq Admitted /\ IsCarried(id, p)

\* What no module enforces and every builder of proposals does: a plan admits
\* Evidence before the Claims that cite it, and so did the bootstrap.
CitesEarlier(p, i) ==
    Linked(Claim[Steps[p][i].id].links)
        \subseteq {Steps[p][j].id : j \in {k \in 1..(i - 1) : Steps[p][k].kind = "admit"}}
EvidenceGoesFirst ==
    /\ \A c \in Seeded \cap DOMAIN Claim : Linked(Claim[c].links) \subseteq Seeded
    /\ \A p \in Plans : \A i \in 1..Len(Steps[p]) :
        Steps[p][i].kind = "admit" /\ Steps[p][i].id \in DOMAIN Claim => CitesEarlier(p, i)

\* Kinds share no ID, and provenance points to provenance.
ASSUME RecordsAssumption ==
    /\ \A j, k \in DOMAIN Kinds : j # k => Kinds[j] \cap Kinds[k] = {}
    /\ \A c \in DOMAIN Claim : Linked(Claim[c].links) \subseteq DOMAIN Evidence
    /\ \A e \in DOMAIN Event : Linked(Event[e].links) \subseteq DOMAIN Evidence
    /\ \A e \in DOMAIN Evidence : Evidence[e] \in DOMAIN Document
    /\ \A d \in DOMAIN Document : Document[d] \in DOMAIN Source
ASSUME StepsAssumption == \A p \in Plans : Len(Steps[p]) \in Nat

-----------------------------------------------------------------------------
Stages == <<"entities", "claims", "events", "evidence", "documents", "sources">>

\* Mutant: provenance is read before the records that cite it.
SourcesFirst == <<"entities", "sources", "documents", "evidence", "events", "claims">>

\* A bundle is collected kind by kind, in this order.
Order == Stages

\* The predicates that the projection has a property for
ReadPredicates == {"manufactures", "operates"}

\* An Entity or an Event is shown once it is marked.  The mark and the hash of
\* what it marks are one edit, so what is marked reads back as it was hashed.
IsShown(i, cache) == cache[i].marked

\* The records of one kind that the cached items show
Collected(kind, cache) ==
    CASE kind = "claims" ->
            {c \in UNION {cache[i].claims : i \in DOMAIN cache} :
                Claim[c].predicate \in ReadPredicates}
      [] kind \in {"entities", "events"} -> {i \in DOMAIN cache \cap Kinds[kind] : IsShown(i, cache)}
      [] OTHER -> DOMAIN cache \cap Kinds[kind]

NoBundle == [k \in DOMAIN Kinds |-> {}]
Uncached(cache) == Items \ DOMAIN cache

-----------------------------------------------------------------------------
\* A plan is as far as it got, and it got there by admitting records in order.
IsProgress(progress) ==
    /\ progress \in [Plans -> Nat] /\ \A p \in Plans : progress[p] <= Len(Steps[p])
    /\ IsComplete(Admits(progress))

ReadInit(progress) ==
    /\ done = progress
    /\ reader = [pc |-> "idle", stage |-> 1, todo |-> {}, cache |-> <<>>, bundle |-> NoBundle]
    /\ reads = 0

\* A plan does its steps in order, each when its references resolve; what is
\* there already is not written again.
Write(p) ==
    /\ done[p] < Len(Steps[p])
    /\ LET s == Steps[p][done[p] + 1]
       IN  s.id \in Admitted \/ (s.kind = "admit" /\ CanAdmit(s.id, p))
    /\ done' = [done EXCEPT ![p] = @ + 1]
    /\ UNCHANGED <<reader, reads>>

\* A new adapter, with nothing cached.
BeginRead ==
    /\ reader.pc \in {"idle", "read", "failed"} /\ reads < MaxReads
    /\ reader' = [pc |-> "reading", stage |-> 1, todo |-> Items, cache |-> <<>>, bundle |-> NoBundle]
    /\ reads' = reads + 1
    /\ UNCHANGED done

\* The next one of the list.
Fetch(i) ==
    /\ reader.pc = "reading" /\ i \in reader.todo
    /\ \A j \in reader.todo : Place[i] <= Place[j]
    /\ reader' = [reader EXCEPT !.todo = @ \ {i},
                                !.cache = [j \in DOMAIN @ \cup {i} |->
                                            IF j = i THEN Snapshot(i) ELSE reader.cache[j]]]
    /\ UNCHANGED <<done, reads>>

\* The first stage refuses a target that is not public.
Finished(bundle) ==
    IF reader.stage = 1 /\ Target \notin bundle.entities THEN "failed"
    ELSE IF reader.stage = Len(Order) THEN "read" ELSE "reading"

\* The records of the stage, and the list of items of the next one.
FinishStage ==
    /\ reader.pc = "reading" /\ reader.todo = {}
    /\ LET kind == Order[reader.stage]
           bundle == [reader.bundle EXCEPT ![kind] = Collected(kind, reader.cache)]
           pc == Finished(bundle)
       IN  reader' = [reader EXCEPT !.pc = pc, !.bundle = bundle,
                                    !.stage = IF pc = "reading" THEN @ + 1 ELSE @,
                                    !.cache = IF pc = "reading" THEN @ ELSE <<>>,
                                    !.todo = IF pc = "reading" THEN Uncached(reader.cache) ELSE {}]
    /\ UNCHANGED <<done, reads>>

ReadNext(open, reads_on) ==
    \/ \E p \in open : Write(p)
    \/ reads_on /\ BeginRead
    \/ \E i \in reader.todo : Fetch(i)
    \/ FinishStage
=============================================================================
