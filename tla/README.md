# Saudi Defense Atlas: a TLA+ model of its canonical pipeline

The Atlas turns archived public documents into canonical records (Sources,
Documents, Evidence, Claims, Events) in a Wikibase, under one rule: nothing is
written that a human has not approved as an exact payload, and what is reported
about a write is what can be observed in the backend.  This directory models the
parts of the code where that rule is hard to keep, model-checks them with TLC and
proves what matters most with TLAPS.

## 1. Inventory

| Component | Source | State | Operations | What makes it correct |
|---|---|---|---|---|
| Proposal executor | `services/governance/mutation_guard.py` | preflight, effect results of one execution | `execute_authorized_proposal` | at most one write per absent effect, no write after a conflict or an unknown, statuses that are true |
| Single-writer lane | `services/governance/canonical_mutation_dispatcher.py` | the permit | `try_acquire`, `release`, `execute_dispatched_editorial_proposal` | exclusive from preflight to result, always given back |
| Canonical backend | `spikes/wikibase/m1_*.py`, `wikibase_api.py` | items and statements of a Wikibase | `inspect_effect`, `apply_effect` | a record is one item, references exist, errors are classified truthfully |
| Revision builder | `services/governance/revision_builder.py` | project Revisions | `build_revision` | one Revision per proposal, only of what is there |
| Approval and binding | `services/governance/proposal_auth.py`, `editorial_decision_binding.py`, the dispatch artifact | approval, binding and dispatch artifacts | `validate_approval`, `build_/validate_editorial_decision_binding`, `build_/validate_canonical_mutation_dispatch` | what runs is what was approved |
| Document acquisition | `services/ingestion/acquisition.py`, `document_identity.py`, `registry.py` | fetch state, archived versions | `classify_fetch` and its callers | a version has one identity; unchanged and changed are told apart |
| Source adapters | `services/ingestion/usaf_f15sa_2020.py`, `html_paragraphs.py` | none | parsing | locators address what was archived |
| Editorial routing | `services/intelligence/editorial_routing.py` | review queue items | `build_monitoring_observation`, `route_observation` | RED reaches a human, duplicates merge, claimed work is not disturbed |
| Extraction boundary | `services/intelligence/ai_extraction_boundary.py`, `model_extraction_trial.py` | candidates | `validate_*` | AI output stays non-canonical and grounded |
| Resolver and verifier | `services/intelligence/_resolver_verifier_core.py`, `resolver_verifier.py` | a resolution artifact | `build_resolution_verification`, `validate_*` | decisions follow from the canonical snapshot named |
| Editorial review packet | `services/intelligence/editorial_review_packet.py`, `_editorial_review_packet_core.py` | packet | build, validate | a packet binds queue, extraction and proposal |
| Editorial audit and brief | `services/intelligence/editorial_audit.py` | report, brief | build, validate | a brief misses nothing that is due at its instant |
| Drafting | `services/intelligence/bilingual_drafting.py` | context, draft | `build_drafting_context`, `build_bilingual_draft_run`, validate | every sentence cites what it says, nothing is dropped silently |
| Trial drivers | `scripts/run_m4_model_extraction_trial.py`, `run_m4_drafting_trial.py` | a report and its sidecar | gates, the live calls, the writes | evidence of a call is whole, not lost, not overwritten |
| Read adapter | `spikes/wikibase/m1_read_adapter.py` | a cache of items | `read_bundle` | what a bundle tells it also cites |
| Views | `services/presentation/relationship_graph.py`, `relationship_visualization.py`, `equipment_view.py`, `domain_views.py`, `navigation.py`, `public_web.py` | none | pure builders that may refuse | views agree, and each accepts what the one before made |
| Search, map | `search_contract.py`, `public_map.py`, `map_geojson.py` | none | pure builders | what is shown can be found; no contested position is shown |
| Staleness, freshness | `staleness.py`, `source_freshness.py` | none | pure functions of records and an instant | deadlines agree between all that use them |
| Validators, experiments | `scripts/validate_*.py`, `spikes/opensearch`, `spikes/maplibre` | none | tests and experiments | not modelled |

How they interact: acquisition yields Document versions and monitoring
observations; routing files each observation in a review queue; extraction, the
resolver and the verifier prepare a proposal; the packet binds them for a human;
the human's decision is bound to the packet and the proposal; the dispatcher
executes the bound proposal through the guard and the backend; the caller builds a
Revision; the read adapter fetches the canonical records item by item while this goes
on, and the presentation builders turn a bundle of them into graphs, pages, a map and
an index.  Staleness, freshness and a snapshot of the queue feed the editorial audit,
whose brief tells the desk what is due.

**Hard behaviours.** Executions overlap and follow each other (two workers, a
retry, a replay, a script that bypasses the dispatcher).  The backend enforces no
uniqueness and takes no idempotency key, so uniqueness of a record is only what
inspections and the lane make of it.  Replies are lost, unreadable or late, edits
are saved after their client gave up, workers die with the permit in hand, plans
stop half way, and the only memory across executions is the store itself.
Upstream, everything is a pure function of artifacts that its callers store, and
what is hard is that the artifacts age: an observation was made under a policy that
has changed, a model runs on an item that absorbs documents or is routed to humans
in the meantime, a packet shows documents the item has since outgrown, exact copies
arrive from feeds of different standing in any order and more than once, a feed
returns to a text it served before, an extraction is resolved again over records that
have changed and its earlier proposal is still approved and executed.
Downstream, a bundle needs one request per item and writers do not wait for it, each
builder refuses a bundle for a reason of its own while the other views of the same
records are published, and the inputs of an audit are taken one after another.  The
trial drivers make one irrevocable call, race for one output and can be killed between
any two file operations.
`PROJECT.json` lists each of these at its line under `hazards`.

## 2. Modules

| Module | Models | Notes |
|---|---|---|
| `ApprovedPlans` | calls, proposals and their ordered mutations | constants and the assumptions on them |
| `SingleWriterLane` | the coordinator protocol | `lane` is the holder or `NoCall` |
| `WikibaseBackend` | the store, the requests on their way, inspection | `store` and `inflight` hold requests `<<call, position>>`; an item is the request that created it, so two items for one record are two members of `store` |
| `MutationGuard` | one execution per call, composed with lane and backend, up to the Revision | `pc[c]` is the place in `execute_authorized_proposal`; `seen[c]` is `preflight`; `effects[c]` is `results`; `result[c]` is `ProposalExecutionResult.status` |
| `CanonicalLedger` | what all this promises, without calls, lane or faults | admit a record once, immutable, after its references; one Revision per whole proposal |
| `MutationGuardRefinement` | the mapping from store to ledger | `Ledger == INSTANCE CanonicalLedger WITH ledger <- LedgerView` |
| `MCMutationGuard` | the instances for TLC | |
| `MutationGuardProofs`, `RevisionProofs`, `UniquenessProofs` | theorems | the last one also of `MutationGuardRefinement` |
| `EditorialRouting` | fetch, classification, observation and routing into the review queue, with editors who claim and close items | `latest[f]` is the caller's `previous_document`; `queue[c]` is the item whose ID is derived from content `c` |
| `EditorialReview` | extends it with extraction runs and review packets | `runs[r]` is an extraction run and what became of it |
| `MCEditorialReview` | the instance for TLC | |
| `EditorialProofs`, `EditorialReviewProofs` | theorems | |
| `Resolver` | what the resolver and verifier make of an extraction and a snapshot | pure: `ProposalFrom(x, snapshot)` in `Admission` is built from `Mutations` |
| `Admission` | resolution, packet, decision, binding, dispatch and execution | `resolutions`, `packets` and `decisions` are the artifacts kept; `store` the canonical records |
| `MCAdmission`, `AdmissionProofs` | the instance, the theorems | |
| `Provider` | route and response of the model's provider | shared by the two drivers |
| `Extraction`, `Drafting` | what becomes of one answer: to a case of the corpus, to a drafting context | pure |
| `Trials` | the two drivers, several processes at a time | `files[p]` is the report and the sidecar at an output |
| `MCTrials`, `TrialProofs` | the instance, the theorems | |
| `Views`, `PublicMap`, `Search`, `Watch`, `EditorialAudit` | the builders of the read side | pure: for a view `V`, `VBuilds` says what it accepts, `V` what it makes |
| `PublicRead` | the read adapter beside the plans that write | `done[p]` is how far plan `p` is, `reader` the adapter with its cache |
| `Readers` | publication of views, and the desk with its clock, queue and rounds | composes `PublicRead` with all the builders |
| `MCReaders`, `ReaderProofs` | the instance, the theorems | |

**Correspondence.** `Acquire`/`Refuse` are the two answers of `try_acquire`;
`StartDirect` is a caller that does not use the dispatcher (the M1 scripts).
`Inspect` is one turn of the preflight loop; `Block` the early return when any
state is conflict or unknown; `Skip`, `Apply` and `Reconcile` the apply loop;
`ReplyOk`, `ReplyLost`, `ReplyDeclined` and `ReplyGarbled` the ways a post comes
back, as `_translate_write_error` classifies them; `Converge` the final return.
Each early return also fills in the effects not reached (`_remaining_results`),
in the same step (`StoppedAt`).  `Return` is the `finally` of the dispatcher.
`RecordRevision` and `RefuseRevision` are the caller's `build_revision`.
`Interrupt` is an exception that is none of the two write errors; `Crash` is the
death of the process, after which no `finally` runs.

**Abstractions.** A record is its canonical ID, a payload its hash, a mutation its
record, payload, kind, the base it edits, the predicate of a Claim and the records
`apply_effect` resolves.  Inspection finds an item by its ID in all the repository, but a
Claim by its ID only among the statements of its own subject under its own predicate:
`Key(m)` is what it looks for, and the same Claim ID elsewhere is another key.
One inspection is one step: pages are listed before they are read and no item is
edited under the same record after it was created, so the scan answers for the
moment of the listing.  The projection version, which never changes within a run,
is part of the payload.  Proposals are exact payloads: their digest is modelled by
their identity.

**Correspondence, editorial side.** `Fetch` is `classify_fetch` and
`build_monitoring_observation` on one successful response; `Ignore`, `CreateItem`
and `Merge` are the three ways out of `route_observation`, and `Route` any of them
for an observation that was made at some time, now or again: the caller may deliver
late, out of order and more than once.  When `route_observation` raises, nothing
changes and the observation can be routed later.  `Invoke` is the gate
(`validate_trial_case`) and the call of the model, `Finish` what the adapter, the
boundary and the schema make of its answer, `Resolve` the proposal or none of
`build_resolution_verification`, `Package` the two `build_editorial_review_packet`.
`Claim`, `GiveBack`, `Close` and `ChangePolicy` are the environment: the code under
`src/` only reads what they change.

**Abstractions, editorial side.** A content is the SHA-256 of a canonical text, and
what a policy finds in a text (relevant, restricted, high-priority terms) is a
function of policy and content.  A feed stands for its source, key and class.
Receipts, reason codes and time stamps other than the fetch are left out, malformed
input is not produced.  The queue and `previous_document` are stored by callers the
repository does not have; the model stores them as `docs/M4_MONITORING_CONTRACT.md`
describes them, one item per content and the last Document of a feed.  Between
`Invoke` and `Finish` the boundary sees the item as it was at `Invoke`, as in
`execute_trial_case`, so it can only refuse for what the model wrote.  A run may use
any documents of the item, as the boundary admits; the trial harness uses one.

**Correspondence, admission.** `Resolve` is `build_resolution_verification` on the
records of the moment; `Package` the packet of a proposal; `Decide` a reviewer's
decision, made from a packet or without one; `Execute` everything from
`build_editorial_decision_binding` through the dispatch envelope to the guard.  The
guard is one step here: it admits a prefix of what is missing, or nothing when an id is
there with another payload (a Claim's, on its subject under its predicate: `Meets`), which
`ExecutionsAdmitAPrefix` proves of `MutationGuard`.  Every
artifact is kept and may be used again, out of order and after newer ones.  A Claim's
terms are the sets of Entities that share a name (`Named`) or also an alias (`Alike`)
with a mention.

**Correspondence, trials.** `BeginTrial`/`RefuseTrial` and `BeginDraft`/`RefuseDraft`
are all the gates of `main` and `run_trial`; `BlockCase`, `FailCase`, `AnswerCase` and
`EscapeCase` the ways out of one turn of the corpus loop; `OpenReport` to
`WriteSidecar` and `CheckAgain` to `CreateSidecar` the file operations one by one.
`write_bytes` truncates and then fills, so it is two steps; `open("xb")` fails when the
file is there.  `Kill` is the end of the process anywhere, `FailWrite` an exception on the
way from the last answer to the two files: a report that cannot be encoded, a file that
cannot be opened, written or read back.  A digest is the content it was taken of.  The
extraction driver reaches the model over HTTP or by the Copilot CLI, each with its own
gates (`MayCall`, `MayAsk`) and its own failures (`IsDelivered`); a run does not remember
which one it has, since both end in the same outcomes.  The drafting driver has HTTP
only.  Extraction trials over one output are run one after the other, since
nothing in the driver is meant to allow otherwise; drafting trials race, which their
driver guards against.

**Correspondence, reading.** `PublicRead` lists the items once per stage and fetches,
one request each and in the order of the repository's pages (`Place`), those it has not
fetched; it never fetches one again.  `Performed` is one mutation of a plan, done when the
items it refers to are there (`References`).  The Evidence of a Claim is not among them:
the backend takes it, and its Document, from the payloads of the proposal (`IsCarried`)
and never looks whether the repository has them.  A bundle holds record
IDs, and tables say what the records are, since they are immutable.  Claims sit on the
item of their subject; the mark of the public-read migration is a property of an item.
`Publish` builds all views of one bundle, `OpenRound` to `WriteBrief` are the calls of
one audit round, and the other desk actions are the world its inputs are taken from.

**Abstractions, reading.** Wording, layout, hashes and citations beyond record IDs are
left out.  A text is a sequence of atoms, folding what it does to each.  The limits of the
search contract are constants (`CompactLength` 64, `QueryLength` 256, `HitLimit` 50).
Angles are
thousandths of a degree.  The adapter is made afresh for each bundle, as the scripts do;
a cache kept between bundles is not modelled.  The integrity adapter's second listing of
Events and its object lookups fetch items that cannot change and are left out.

## 3. Runs

Instances: `write` creates a Document of a bootstrap Source and an Event on it;
`project` is the public-read migration of an Entity and of that Event; `rival`
gives the Document another payload and adds a Claim; `reuse`, which `guard_lane` runs
twice beside `rival`, writes the Document as `write` does and gives the rival's Claim ID
to a Claim under another predicate and with another payload.  Two mutations per plan make
every partial failure possible, one before and one after the stop; three calls
allow a retry, a replay and an overlap, or a proposal twice and a rival.  `Faults`
names which failures a run allows; they are split over the runs because their
union multiplies the states without new kinds of schedule.  `CHECK_DEADLOCK` is
off because the calls are finite: when all are closed the system stops.

| Run | Faults | Shows |
|---|---|---|
| `guard_lane` | lost and unreadable replies, crash | the lane is exclusive and fences saves; one item per record; converged stays canonical; "applied" is the call's own write |
| `guard_ledger` | failing reads, unreadable replies, exceptions | no dangling reference; implements `CanonicalLedger` |
| `guard_late` | failing reads, lost replies, late saves, crash | one Revision per proposal, backed; a reported failure left nothing |
| `guard_live` | lost replies, late saves, exceptions; a rival called directly; fair | every started call ends; the lane is freed |
| `guard_lost_revision` | finding | a replay is told to reuse a Revision that does not exist |
| `guard_garbled` | finding | a saved edit is reported as definitively rejected |
| `guard_late_duplicate` | finding | a late save and the serialized replay make two items |

Editorial instance: a class A feed and a class E feed that an allowlist names by
mistake, two texts, two policies (the later one finds a restricted term in the
report and the update relevant), at most three fetches, two runs.  Three fetches are
the least in which a feed serves one text, repeats it and changes, and in which a
copy from the second feed arrives between; two runs the least for two packets about
one item.  Runs are symmetric: nothing orders them.

| Run | Shows |
|---|---|
| `editorial` | an item is the join of what was routed to it; nothing routed is lost; restricted material is with humans, discovery-only material is not opened to extraction; claimed and closed items are undisturbed; versions point back; a packet covers all its item has by then, none of it restricted, and packets of one item are nested |
| `editorial_reverted` | finding: a Document ID is given to two different records |

The system does not stop here (items can be claimed and given back), so deadlock is
checked.

Admission instance: two extractions that mention one operator by three names, a
canonical Claim in dispute from the start, and two curated proposals, one of which adds
the Entity that changes what a mention matches.  Two resolutions and three decisions:
two resolutions are the least in which one is older than the other, of one extraction or
of two; three decisions allow both of them and a curated proposal to be executed, in any
order, with rejections and approvals by the wrong actor beside.

| Run | Shows |
|---|---|
| `admission` | only approved payloads become canonical; a record id keeps one payload; rivals and twins in a resolution's snapshot are not overlooked; a disputed Claim has its other side; the Claims of one extraction read a mention alike |

`NoRivalOverlooked` and `NoTwinOverlooked` say what the resolver can promise, and not
more: of two contradicting Claims prepared from snapshots without each other both may be
admitted as active.  The module comment of `resolver_verifier.py` says "One resolution
version implies one resolution payload for one extraction"; the run id depends on the
extraction alone while the payload depends on the canonical records, so it holds for one
snapshot only.  `OneRecordPerId` shows that the guard keeps this harmless.

Trial instance: two extraction trials over one output, two drafting trials over another,
one caller of the drafting adapter.  Two of each suffice for an overwritten report and
for a lost race; which runs are made together is `Together`, so that the three families
do not multiply.  The runs of a pair are symmetric: they differ in nothing but their name.  The corpus expects two records of which one candidate fits both, from a
text of exactly the greatest length (`TextLength`, 2 for 20 000), a rejection, and a case
that must not be sent because its text is one longer.

| Run | Shows |
|---|---|
| `trials` | a report that is vouched for is whole; a clean report proves its cases; a drafting call leaves evidence, which nobody overwrites; an accepted draft is grounded, whoever made its context |

Reader instance: an aircraft with maker and operator, a base, a program, an exercise, a
signature that nobody takes part in, an Organization that was merged away and a Claim in a
language the map does not take; five plans that add Sources, Documents and Evidence, then
Claims and Events, or mark items.  Open plans begin with their provenance already there
(`Behind`), as after an execution that stopped.  The search takes queries of up to 5
atoms, makes compact variants of up to 4 and answers with at most 2 of seven Entities, so
that each limit is met.  A behaviour is one of four shifts: the adapter beside two plans that write,
the views of every stage of two pairs of plans, and the desk over all records.
`MaxReads = 2` lets a second bundle follow the first; one publication per behaviour is
enough, because builders have no memory; the clock runs from 2 to 3, with Claims and feeds that become due exactly at 3 or
later, one Claim verified at 3, which a report of 2 must refuse, and one never verified;
two receipts let one feed be retrieved twice or two feeds once.  Audit inputs are taken in the order the audit names them: what matters is
what happens between them, and all of that is allowed.

| Run | Shows |
|---|---|
| `readers` | bundles are cited in full whatever is written meanwhile; views agree; what is named can be found; what one builder makes the next accepts; a brief misses nothing that was due at its instant |

These three runs stop (finite resolutions, trials or shifts), so `CHECK_DEADLOCK` is
off.

**Fairness.** `FairSpec` is weak fairness of each call's own steps, the replies it
waits for included: a process that runs is scheduled, and every request has
`timeout=30` (`wikibase_api.py`), so it is answered or given up.  Nothing is fair
about starting a call, recording a Revision, committing late, interrupts or
crashes.  `LaneIsFreedAgain` is checked without `crash`: a killed worker keeps a
permit that has no lease, which the protocol leaves to the deployment.  The other
modules assume no fairness: their properties are about what may not happen.

## 4. Proofs

For every set of calls, proposals, plans and faults:

* `TypeCorrect`: `TypeOK`, with `Shape`, which says how the four lists of a call
  fit its place (for instance that a call which waits for a reply has settled
  everything before the current effect and saw the current one absent).
  `TypeOK` is not inductive without it: `StoppedAt` reads `seen` at every position.
* `LaneExclusive`: from `HoldsPermit`, a dispatched call at work is the holder.
* `SavesFenced`: an action property, assuming no late saves, from `HoldsPermit`.
* `NothingDangles`: from `Grounded`, the same of what is saved or on its way; the
  store only grows (`StoreGrows`).
* `RevisionsBacked`: from `AllTruthful`: what a call saw as equivalent or settled
  is present, and stays present.
* `OneRevision`, assuming that every call is dispatched: if `c` converged before
  `d` ran, `d` saw nothing absent (`LaterSeesAll`), what is applied was seen
  absent (`Truthful`), so `c` and `d` did not both apply something, and a Revision
  needs an applied effect (`RevisionsFollow`).  No assumption on faults is needed:
  late saves can duplicate an item, never a Revision.
* `FailuresLeaveNothing`, assuming that replies can be read: a request that was sent is
  behind the loop of its call or the loop's current one (`SentIsAccounted`), and no
  stop of the loop but a rejection calls the current one failed.  Neither lane nor
  dispatcher is needed, and late saves do no harm.
* `ExecutionsAdmitAPrefix`, under the assumptions of the next item: wherever an
  execution stops, what it has saved is a prefix, in the order of the plan, of what its
  preflight saw absent, and nothing if one mutation clashed or could not be read.  It is
  the step `Admit` of `Admission`, so it joins the two models.  `SentInOrder` is
  inductive with `Cleared` (the loop is entered with nothing in the way) and `SkipsSeen`
  (it passes over what the preflight found, and nothing else), for all faults; that what
  was reported applied is this call's own save is `AppliedIsOwnWrite`.  TLC checked
  these on the instances of `guard_lane` and `guard_ledger`.
* `RecordsHaveOneItem`, `AppliedEffectsAreOwn`, `ConvergedStays`,
  `ExecutionImplementsLedger`, assuming that every call is dispatched and that no edit
  is saved after its client gave up (`Fenced`), that a proposal asks for an item or a
  statement once (`RecordsAreDistinct`) and that what writes the projection of an Event
  refers to the Event (`ProjectionsReferToEvents`; the instances satisfy both, and
  `InstanceAssumption` has TLC check it).  All four speak of keys: an item by its ID, a
  statement by its Claim ID on its subject under its predicate.  That is all the backend
  gives: two proposals that use one Claim ID in two places get two statements, as in
  `guard_lane`.  `ClaimIdsHaveOneStatement` says what follows for Claim IDs as such, if
  proposals give each of them one place (`ClaimsKeepTheirPlace`).  What the code relies on without saying so is
  `Unwritten`: between a preflight that saw a record absent and the post, nobody but the
  call itself writes the record.  It and `AppliedIsOwnWrite` need each other: only the
  current request of the call at work can be saved (`CommitIsCurrent`) because what was
  applied is saved already, and what a reconciliation finds is the call's own because
  nothing else was written.  `absent` of a projection may only mean that its Event is
  absent, so `Grounded` is needed as well.  One item per record then makes equivalence
  stable (`CanonicalStays`), and the steps that show in the ledger are the saves
  (`CommitAdmits`) and the first recording of a Revision (`RecordPublishes`).  Without
  `Fenced` or `RecordsAreDistinct` the conclusions fail: `guard_late_duplicate` shows
  the first, the second is listed under `hazards`.

For every set of feeds, contents and runs, every policy, and any number of fetches:

* `RoutingTypeCorrect`, `ItemsAreJoins`, `RoutedStaysFiled`, `RestrictedWithHumans`,
  `DiscoveryIsKept`: one inductive invariant, `RoutingInv`.  `ItemIsJoin` needs the
  types and `Filed` (an item holds observations that were made, of its own content,
  none of them ignored); the step is `MergeIsJoin`, that merging takes the join of a
  lane and one more observation, which needs that ranks order the lanes
  (`RankOrders`).  The two properties about restricted and discovery-only material
  follow from the join without further induction.
* `WorkUndisturbed`: an action property from the same invariant.
* `VersionsAreOlder`: from `LatestIsKept`: the Document a caller keeps of a feed is one
  of that feed, and none is younger than the last fetch.
* `ReviewTypeCorrect`, `ProvenanceKept`, `PacketsNested`, `PacketsWhole`: from
  `ReviewInv`, which adds that a run's documents are documents of its item.  It is
  preserved because items never lose documents (`DocumentsGrow`), and it is what
  makes packets nested: a new packet has all the documents of the item, an older one
  only documents the item still has.  `PacketsWhole` needs the join again: a lane of
  candidate extraction means that nothing absorbed is restricted.
* `ReviewKeepsRouting`: `ReviewSpec` implements `RoutingSpec`, so the theorems about
  routing hold of the composition, which is what the run checks.

For every set of extractions, canonical records, curated proposals and reviewers:

* `AdmissionIsTyped`, `CanonicalRecordsAreApproved`, `RecordsAreUnique`: one inductive
  invariant, `AdmissionInv`.  `OneRecordPerId` needs that one proposal names an id once
  (`MutationsAreDistinct`, from the uniqueness of candidate ids that the boundary
  demands), that the guard admits nothing that clashes, and `HandIdsAreApart`: records of
  the bootstrap and of curated proposals have ids that no extraction makes, and give a
  Claim ID one place.  Without it the guard does not see a clash of two Claims in two
  places.  Extractions need no such assumption for their own records: a Claim resolved
  anew keeps its subject, by `MentionsAreReadOnce`, and its predicate.
* `RivalsAreNotOverlooked`, `DisputesAreTwoSided`, `TwinsAreNotOverlooked`: an extracted
  record in the store was prepared by some resolution (`CanonicalIsApproved` and the
  types of the artifacts), whose snapshot is part of the store.
* `MentionsAreReadOnce`: two Claims of one extraction may come from two resolutions.
  Snapshots are ordered (`SnapshotsAreOrdered`), Entities are never removed, so the
  Entities that match a mention in the older are among those that match in the newer,
  and a mention is resolved only where exactly one matches.

For every set of records, plans, page orders and shifts:

* `BundlesAreCited`: from `ReadersInv`.  What a bundle cites is fetched or still on the
  list of the current stage (`Within`), and the kinds behind the current stage are
  complete (`Gathered`).  It holds because records are admitted after what they refer to
  (`IsComplete`), never removed, and the adapter lists the items anew for each kind,
  citing kinds first: with `SourcesFirst` the run finds the counterexample.  For the
  Evidence of Claims it assumes `EvidenceGoesFirst`: a plan admits Evidence before the
  Claims that cite it (`ClaimsFollowEvidence`).  The backend does not enforce it; every
  builder of proposals orders its mutations so (`f15sa_proposal.py:149`,
  `_resolver_verifier_core.py:628`), and the instance's plans do (`InstanceAssumption`).  The
  invariant also bounds a bundle by the records admitted, which is what the next three
  theorems start from: whatever is published is a bundle of records (`PublishedIsTyped`),
  and each theorem is a lemma about the builders over any such bundle.
* `ViewsAgreeWithEachOther`: `MapIsSettled` (a position is taken of one eligible Claim
  for each coordinate, and coarsening it moves it by less than a step,
  `CoarsenedIsNear`) and `PagesHoldGraphs`.
* `AcceptedByTheNext`: `GraphsHaveFigures`, `GraphsHaveTimelines`, `MapsHavePayloads`
  and `PagesNameTheRelated` for the published views; that the desk's audits have their
  briefs comes from `WriteBriefKeeps` and the invariant below.
* `NamedCanBeFound`: every Entity that a view names is a node and so indexed
  (`NamedAreIndexed`); for the query of its ID, if short enough to be asked, its document
  alone has quality 0 (`FoundByID`), for a query of its name it has quality 0 or 1, so
  only documents with that ID or name are before it (`Homonyms`), and it is among the
  hits unless there are more of those than the limit (`FoundByName`).  The search
  is a limit over a ranking, hence cardinalities: a lemma restates it without filters
  (`HitsWithoutFilters`).
* `BriefsMissNothing`: from `BriefInv`, which TLC checked first.  The property speaks of
  the queue as it was and of Claims and feeds at an instant, a brief is only made of
  reports; so the invariant says what each report tells: `StalenessTold` (the Claims at
  the round's instant), `FreshnessTold` (receipts that are there, not necessarily all),
  `QueueTold` (every item that came before the snapshot and is open is open in it:
  `Covers`, which holds because an item is never reopened), `ReportTold` (the audit and
  the brief are made of these three).  `DeskInv` adds that no instant lies in the
  future and that an ID names one item.  That a Claim or a feed that is due has a finding is
  `ClaimsAreFound` and `FeedsAreFound`; for feeds it needs the latest receipt
  (`LatestTime`), which exists by the well-foundedness of the naturals.

For every set of trials, outputs and answers of the model:

* `VouchedReportsAreWhole`, `CallsLeaveEvidence`, `EvidenceIsNotOverwritten`: from
  `TrialInv`: a sidecar is only of a whole report (`PathInv`); a drafting trial that has
  written finds its own report in its output, one that was refused after its call the
  report of another (`DraftingInv`); extraction trials of one output are not underway
  together (`OneAtATime`), without which reading the report back would not prove who
  wrote it.
* `AcceptedDraftsAreGrounded`: from `DraftInv`: a draft answers the context of its run,
  which the adapter found fit and which no later step changes.  What a draft tells then
  follows from the gate of the context and that of the answer alone.
* `QualifiedReportsAreProven`: from `CasesInv`, which counts: while cases are put, as
  many calls as sendable cases with a result (`Sent`), and nothing is written before
  each case has one.  That a pass is a matching is `ServedIsMatched`: the loop of
  `_all_expected_records_match`, which takes away the first actual record that fits,
  leaves a one to one assignment when it ends with nothing left.  `Serve`, one turn of
  that loop, is a definition of its own so that the proof can speak of the list after
  `n` turns.

Assumed are only the named `ASSUME`s on the constants, all of which TLC evaluates on the
instances:

* that class A, B and E feeds are disjoint, that policies are functions, and that null
  values are none of the values they stand beside;
* `ResolverAssumption`: candidate ids are unique within an extraction
  (`validate_ai_extraction_run` checks it); `DistinctAssumption`: record ids are unique
  within the seed and each curated proposal;
* `RecordsAssumption`: kinds of records share no id and provenance points to provenance;
  `ClaimsAssumption`: there are finitely many Claims, each has a subject, and an Entity
  for its value if that is its kind, as the schema of a Claim asks;
* `WatchAssumption`: verification dates are instants and the periods of the review and
  polling policies are positive;
* `SearchAssumption`: an Entity that is put before the index has a Revision, and a name
  and an ID that are not blank once folded; IDs differ even without their case and
  hyphens (two that differ in nothing else would rank beside each other, and the search
  for one would answer with the other first);
* `ShiftsAssumption`: a shift starts where every record has what it refers to, and the
  desk works on records that stay; `StartAssumption`: its clock starts after `Never`;
* `TrialsAssumption`: the two kinds of trial have outputs of their own;
  `InputsAssumption`: fixtures and answers hold lists; `TextLengthAssumption`: the limit
  of a text is positive.

Hypotheses of single theorems are written in their statements: `Fenced`,
`RecordsAreDistinct`, `ProjectionsReferToEvents`, `ClaimsKeepTheirPlace`,
`HandIdsAreApart` and `EvidenceGoesFirst`.  All but the first say how proposals are
written, which no module enforces.

Proving changed the model where it had not followed the code.  `GraphsHaveTimelines`
could not be proved while the timeline took an Event's citations from the edges of the
graph: an Event with neither participants nor related Entities has no edge.  The code
takes them from the graph's own timeline, and so does `Graph` now; the instance has such
an Event (`signed`).  `ClaimsAreFound` showed that a Claim that was never verified was
missing from `NeedsReview`, and `PagesNameTheRelated` that a page also shows the name of
its own Entity.

Only model-checked: the two liveness properties, `StartedCallsEnd` and
`LaneIsFreedAgain` (liveness under fairness is out of the prover's reach).  The four runs
that show a finding are counterexamples and have nothing to prove.  The proofs use
`Normalized`, `TokensOf` and `Drafts` as they stand and do not say what they compute for
every text: that would be induction over sequences, which is out of reach too.

## 5. Plan

Done: the guard with lane and backend, with the proof that it implements its abstract
specification, the editorial queue up to the review packet, admission, the trials, and
the read side; and every safety property that a run checks is a theorem.  Next, in this
order:

1. `Admission` over `MutationGuard` instead of over what is proved of it: the two
   modules composed, so that two executions of one approval overlap with new decisions.
2. A desk that works while plans write, so that the two reports of a round speak of
   different records.
3. A read adapter that is kept between bundles, should the code come to keep one.

## 6. Not modelled, and why

* Validators under `scripts/`: they are the tests.
* The WSGI applications: routes, status codes and `Cache-Control` (a reader may be up to
  60 seconds behind), and everything a page only lays out.
* HTTP, redirects and HTML parsing (`fetch_https`, `html_paragraphs.py`, the USAF
  adapter): no state; a fetch that fails makes no observation.
* What the model writes and what the text matching finds: the choice is left open.
* The files a drafting trial digests after its call: an edit of a fixture during the
  call is vouched for though the model never saw it (listed under `hazards`).
* Which of two decisions about one proposal counts: nothing in the code compares them,
  and no document says.
* Records that are admitted while the desk works: its shift begins when the plans are
  done, so both reports of a round and its brief speak of the same Claims.
* Terms and wording, JSON Schemas, the layout of Wikibase statements, the seed and
  the demo bundle.
* `spikes/opensearch` and `spikes/maplibre`: experiments with external software.
* What the M1 backend refuses for the form of a payload alone: a Claim of a predicate it
  has no property for (inspection answers "unknown", so nothing of the proposal is
  executed), a Claim whose value is not an Entity, and the creation of Entities.  Records
  of such kinds, as `Admission` and `Readers` have them, reach a repository by other
  writers.  It also wants the Document of each cited Evidence among the payloads of the
  proposal; the resolver's own proposals carry no Document, so as they stand this backend
  refuses their Claims.  `Admission` takes the guard for any backend that inspects alike.
* Anything after an uncaught exception of a trial driver: `EscapeCase`, `GarbleDraft` and
  `FailWrite` end a run with the files as they are, and `CallsAreEvidenced` excepts it.
* An older copy of a queue item in the hands of who builds a packet: `Package` takes the
  item as it is, while the code takes what its caller passes (listed under `hazards`).
* Withdrawal of a packet, of an approval or of a lease: the code has none, and
  `docs/reviews/M4_EDITORIAL_DECISION_BINDING_FIRST_PASS.md` and
  `M4_CANONICAL_MUTATION_DISPATCHER_FIRST_PASS.md` say so.
