---------------------------- MODULE MutationGuard -----------------------------
(***************************************************************************)
(* Execution of approved proposals (mutation_guard.py) through the         *)
(* dispatcher or directly (canonical_mutation_dispatcher.py), against the  *)
(* backend, up to the project Revision (revision_builder.py).              *)
(*                                                                         *)
(* A call first inspects every mutation of its proposal, and writes only   *)
(* if no inspection says conflict or unknown.  It then posts each absent   *)
(* effect once, in order, and inspects again after each post.  Whatever    *)
(* stops the loop, the mutations not reached are reported from the         *)
(* preflight.  A dispatched call holds the lane from before the preflight  *)
(* until after its result is known.                                        *)
(***************************************************************************)
EXTENDS WikibaseBackend, SingleWriterLane

CONSTANT Dispatched   \* the calls that go through the dispatcher

ASSUME DispatchedAssumption == Dispatched \subseteq Calls

VARIABLES
  pc,         \* where each call is
  seen,       \* its preflight: inspection states, in the order of the plan
  effects,    \* statuses of its effects, in the order of the plan
  result,     \* status of its execution, "none" before there is one
  revisions   \* calls whose caller has recorded a project Revision

guardVars == <<pc, seen, effects, result, revisions>>

vars == <<store, inflight, lane, pc, seen, effects, result, revisions>>

InspectionStates == {"absent", "equivalent", "conflict", "unknown"}

EffectStatuses == {"not_attempted", "already_applied", "applied", "failed",
                   "effect_unknown"}

Results == {"none", "converged", "failed", "effect_unknown", "error"}

Locations == {"idle", "preflight", "applying", "awaiting", "reconciling",
              "returning", "returned", "refused", "closed", "crashed"}

Working == {"preflight", "applying", "awaiting", "reconciling"}

Active == Working \cup {"returning"}

Init ==
  /\ BackendInit
  /\ LaneInit
  /\ pc = [c \in Calls |-> "idle"]
  /\ seen = [c \in Calls |-> <<>>]
  /\ effects = [c \in Calls |-> <<>>]
  /\ result = [c \in Calls |-> "none"]
  /\ revisions = {}

-------------------------------------------------------------------------------

\* The position the apply loop has reached, and its mutation.
Position(c) == Len(effects[c]) + 1

Current(c) == PlannedMutation(c, Position(c))

Request(c) == <<c, Position(c)>>

LoopDone(c) == Len(effects[c]) = Len(Plan[ProposalOf[c]])

Go(c, l) == pc' = [pc EXCEPT ![c] = l]

Blocks(s) == s \in {"conflict", "unknown"}

\* Mutant: the inspection state is copied into the result.
StatusCopied(s) == s

\* _result_from_inspection
StatusFromInspection(s) ==
  IF s = "equivalent" THEN "already_applied"
  ELSE IF Blocks(s) THEN "effect_unknown"
  ELSE "not_attempted"

\* The loop stops at status e: the rest is told from the preflight.
StoppedAt(c, e) ==
  [i \in Positions(c) |->
     IF i < Position(c) THEN effects[c][i]
     ELSE IF i = Position(c) THEN e
     ELSE StatusFromInspection(seen[c][i])]

Stop(c, e, r) ==
  /\ effects' = [effects EXCEPT ![c] = StoppedAt(c, e)]
  /\ result' = [result EXCEPT ![c] = r]
  /\ Go(c, "returning")

\* The current effect is settled and the loop goes on.
Settle(c, e) ==
  /\ effects' = [effects EXCEPT ![c] = Append(@, e)]
  /\ Go(c, "applying")
  /\ UNCHANGED result

-------------------------------------------------------------------------------

\* A dispatched call that gets the permit.
Acquire(c) ==
  /\ c \in Dispatched
  /\ pc[c] = "idle"
  /\ TryAcquire(c)
  /\ Go(c, "preflight")
  /\ UNCHANGED <<backendVars, seen, effects, result, revisions>>

\* The lane is held: the call fails and the backend is not even read.
Refuse(c) ==
  /\ c \in Dispatched
  /\ pc[c] = "idle"
  /\ Busy
  /\ Go(c, "refused")
  /\ UNCHANGED <<backendVars, lane, seen, effects, result, revisions>>

\* execute_authorized_proposal called without the dispatcher.
StartDirect(c) ==
  /\ c \notin Dispatched
  /\ pc[c] = "idle"
  /\ Go(c, "preflight")
  /\ UNCHANGED <<backendVars, lane, seen, effects, result, revisions>>

\* One inspection of the preflight.
Inspect(c) ==
  /\ pc[c] = "preflight"
  /\ Len(seen[c]) < Len(Plan[ProposalOf[c]])
  /\ \E s \in Inspections(PlannedMutation(c, Len(seen[c]) + 1)) :
        seen' = [seen EXCEPT ![c] = Append(@, s)]
  /\ UNCHANGED <<backendVars, lane, pc, effects, result, revisions>>

\* Mutant: one inspection too many is waited for.
PreflightOffByOne(c) ==
  /\ pc[c] = "preflight"
  /\ Len(seen[c]) > Len(Plan[ProposalOf[c]])

PreflightDone(c) ==
  /\ pc[c] = "preflight"
  /\ Len(seen[c]) = Len(Plan[ProposalOf[c]])

Blocked(c) == \E i \in Positions(c) : Blocks(seen[c][i])

\* A conflict or an unknown anywhere: no write at all.
Block(c) ==
  /\ PreflightDone(c)
  /\ Blocked(c)
  /\ effects' = [effects EXCEPT ![c] =
                   [i \in Positions(c) |-> StatusFromInspection(seen[c][i])]]
  /\ result' = [result EXCEPT ![c] = "effect_unknown"]
  /\ Go(c, "returning")
  /\ UNCHANGED <<backendVars, lane, seen, revisions>>

Proceed(c) ==
  /\ PreflightDone(c)
  /\ ~Blocked(c)
  /\ Go(c, "applying")
  /\ UNCHANGED <<backendVars, lane, seen, effects, result, revisions>>

\* An effect the preflight found is not written again.
Skip(c) ==
  /\ pc[c] = "applying"
  /\ ~LoopDone(c)
  /\ seen[c][Position(c)] = "equivalent"
  /\ Settle(c, "already_applied")
  /\ UNCHANGED <<backendVars, lane, seen, revisions>>

\* Mutant: the preflight is done and its answer forgotten.
ApplyAnyway(c) ==
  /\ pc[c] = "applying"
  /\ ~LoopDone(c)
  /\ Resolvable(Current(c))
  /\ Post(Request(c))
  /\ Go(c, "awaiting")
  /\ UNCHANGED <<lane, seen, effects, result, revisions>>

\* apply_effect resolves what the mutation refers to, then posts.
Apply(c) ==
  /\ pc[c] = "applying"
  /\ ~LoopDone(c)
  /\ seen[c][Position(c)] = "absent"
  /\ \/ /\ Resolvable(Current(c))
        /\ Post(Request(c))
        /\ Go(c, "awaiting")
        /\ UNCHANGED <<effects, result>>
     \/ /\ ~Resolvable(Current(c)) \/ "read_error" \in Faults
        /\ Stop(c, "failed", "failed")
        /\ UNCHANGED backendVars
     \/ /\ "read_error" \in Faults
        /\ Go(c, "reconciling")
        /\ UNCHANGED <<backendVars, effects, result>>
  /\ UNCHANGED <<lane, seen, revisions>>

\* The server saves the edit of a call that waits, or a late one.
Commit(a) ==
  /\ Save(a)
  /\ pc[a[1]] = "awaiting" \/ "late_commit" \in Faults
  /\ UNCHANGED <<lane, guardVars>>

\* The reply of a saved edit arrives.
ReplyOk(c) ==
  /\ pc[c] = "awaiting"
  /\ Request(c) \in store
  /\ Go(c, "reconciling")
  /\ UNCHANGED <<backendVars, lane, seen, effects, result, revisions>>

\* The server declined: DefinitiveWriteError.
ReplyDeclined(c) ==
  /\ pc[c] = "awaiting"
  /\ Decline(Request(c))
  /\ Stop(c, "failed", "failed")
  /\ UNCHANGED <<lane, seen, revisions>>

\* Mutant: a lost reply is taken for a rejection.
ReplyLostIsRejection(c) ==
  /\ "lost_reply" \in Faults
  /\ pc[c] = "awaiting"
  /\ Stop(c, "failed", "failed")
  /\ UNCHANGED <<backendVars, lane, seen, revisions>>

\* A time-out, a reset connection or a 5xx: AmbiguousWriteError, whether the
\* edit was saved, is still on its way or never arrived.
ReplyLost(c) ==
  /\ "lost_reply" \in Faults
  /\ pc[c] = "awaiting"
  /\ Go(c, "reconciling")
  /\ UNCHANGED <<backendVars, lane, seen, effects, result, revisions>>

\* The edit was saved and its reply cannot be read (no JSON body, no "entity",
\* a body cut short): _translate_write_error makes it a DefinitiveWriteError.
ReplyGarbled(c) ==
  /\ "garbled" \in Faults
  /\ pc[c] = "awaiting"
  /\ Request(c) \in store
  /\ Stop(c, "failed", "failed")
  /\ UNCHANGED <<backendVars, lane, seen, revisions>>

\* Mutant: anything but a conflict is accepted after a write.
ReconcileLoosely(c) ==
  /\ pc[c] = "reconciling"
  /\ \E s \in Inspections(Current(c)) :
        \/ s # "conflict" /\ Settle(c, "applied")
        \/ s = "conflict" /\ Stop(c, "effect_unknown", "effect_unknown")
  /\ UNCHANGED <<backendVars, lane, seen, revisions>>

\* The one inspection after a write, ambiguous or not: only equivalence counts.
Reconcile(c) ==
  /\ pc[c] = "reconciling"
  /\ \E s \in Inspections(Current(c)) :
        \/ s = "equivalent" /\ Settle(c, "applied")
        \/ s # "equivalent" /\ Stop(c, "effect_unknown", "effect_unknown")
  /\ UNCHANGED <<backendVars, lane, seen, revisions>>

Converge(c) ==
  /\ pc[c] = "applying"
  /\ LoopDone(c)
  /\ result' = [result EXCEPT ![c] = "converged"]
  /\ Go(c, "returning")
  /\ UNCHANGED <<backendVars, lane, seen, effects, revisions>>

\* Mutant: no finally clause; an exception skips the release.
ReturnWithoutFinally(c) ==
  /\ pc[c] = "returning"
  /\ IF c \in Dispatched /\ result[c] # "error" THEN Release(c) ELSE UNCHANGED lane
  /\ Go(c, "returned")
  /\ UNCHANGED <<backendVars, seen, effects, result, revisions>>

\* The finally clause of the dispatcher, and the return to the caller.
Return(c) ==
  /\ pc[c] = "returning"
  /\ IF c \in Dispatched THEN Release(c) ELSE UNCHANGED lane
  /\ Go(c, "returned")
  /\ UNCHANGED <<backendVars, seen, effects, result, revisions>>

\* Mutant: convergence alone makes a Revision.
RevisionForReplay(c) == result[c] = "converged"

\* Mutant: one applied effect makes a Revision.
RevisionForAnyEffect(c) ==
  \E i \in 1 .. Len(effects[c]) : effects[c][i] = "applied"

\* build_revision accepts a converged execution that applied something.
MayBuildRevision(c) ==
  /\ result[c] = "converged"
  /\ \E i \in Positions(c) : effects[c][i] = "applied"

\* The caller builds the Revision and writes it out.
RecordRevision(c) ==
  /\ pc[c] = "returned"
  /\ MayBuildRevision(c)
  /\ revisions' = revisions \cup {c}
  /\ Go(c, "closed")
  /\ UNCHANGED <<backendVars, lane, seen, effects, result>>

\* RevisionBuildError, or no execution to build from.
RefuseRevision(c) ==
  /\ pc[c] = "returned"
  /\ ~MayBuildRevision(c)
  /\ Go(c, "closed")
  /\ UNCHANGED <<backendVars, lane, seen, effects, result, revisions>>

\* An exception leaves the executor: no result, and the lane is released.
Interrupt(c) ==
  /\ "interrupt" \in Faults
  /\ pc[c] \in Working
  /\ result' = [result EXCEPT ![c] = "error"]
  /\ Go(c, "returning")
  /\ UNCHANGED <<backendVars, lane, seen, effects, revisions>>

\* The process is killed: no finally clause runs, and no Revision is built.
Crash(c) ==
  /\ "crash" \in Faults
  /\ pc[c] \in Active \cup {"returned"}
  /\ Go(c, "crashed")
  /\ UNCHANGED <<backendVars, lane, seen, effects, result, revisions>>

-------------------------------------------------------------------------------

\* What a running call does by itself, the replies it waits for included.
CallStep(c) ==
  \/ Inspect(c) \/ Block(c) \/ Proceed(c) \/ Skip(c) \/ Apply(c)
  \/ ReplyOk(c) \/ ReplyDeclined(c) \/ ReplyLost(c) \/ ReplyGarbled(c)
  \/ Reconcile(c) \/ Converge(c) \/ Return(c)

CallerStep(c) ==
  \/ Acquire(c) \/ Refuse(c) \/ StartDirect(c)
  \/ RecordRevision(c) \/ RefuseRevision(c)

Next ==
  \/ \E c \in Calls : CallerStep(c) \/ CallStep(c) \/ Interrupt(c) \/ Crash(c)
  \/ \E a \in inflight : Commit(a)

Spec == Init /\ [][Next]_vars

\* A started call runs on: its process is scheduled and every request it
\* waits for is answered or times out (timeout=30 of wikibase_api.py).
FairSpec == Spec /\ \A c \in Calls : WF_vars(CallStep(c))

-------------------------------------------------------------------------------

\* Every variable has the type its comment says.
TypeOK ==
  /\ store \subseteq Requests
  /\ inflight \subseteq Requests
  /\ lane \in Calls \cup {NoCall}
  /\ pc \in [Calls -> Locations]
  /\ seen \in [Calls -> Seq(InspectionStates)]
  /\ effects \in [Calls -> Seq(EffectStatuses)]
  /\ result \in [Calls -> Results]
  /\ revisions \subseteq Calls

\* The dispatcher lets one call at a time reach the backend: from its permit
\* to its release no other dispatched call is inspecting, writing or
\* reconciling (the contract of SingleWriterCoordinator and of the try and
\* finally of execute_dispatched_editorial_proposal).
LaneIsExclusive ==
  \A c, d \in Dispatched : pc[c] \in Active /\ pc[d] \in Active => c = d

\* No record is represented by two items, no projection is added twice and no
\* Claim ID stands on two statements of one subject under one predicate,
\* though the server enforces no uniqueness and calls of the same and of
\* other proposals follow each other after failures, lost replies and crashes.
\* On another subject or under another predicate _claim_inspection does not
\* look, and a Claim ID used there too is admitted there too.
OneItemPerRecord ==
  \A a, b \in store : Key(MutationOf(a)) = Key(MutationOf(b)) => a = b

\* An execution that reported "converged" stays true: whatever runs later,
\* the backend still answers "equivalent" for every mutation of its proposal.
ConvergedStaysCanonical ==
  \A c \in Calls : result[c] = "converged" =>
     \A i \in Positions(c) :
        InspectionState(PlannedMutation(c, i)) = "equivalent"

\* An effect reported as applied was saved by this very call, so the receipts
\* of a Revision are of its own writes (the reconciliation after an ambiguous
\* write only sees that an equivalent item exists).
AppliedIsOwnWrite ==
  \A c \in Calls : \A i \in 1 .. Len(effects[c]) :
     effects[c][i] = "applied" => <<c, i>> \in store

\* An effect reported as failed is nowhere in the backend and not on its way:
\* DefinitiveWriteError, "Backend definitively rejected the requested effect."
FailedHasNoEffect ==
  \A c \in Calls : \A i \in 1 .. Len(effects[c]) :
     effects[c][i] = "failed" => <<c, i>> \notin store \cup inflight

\* A proposal gets at most one project Revision, however often and with
\* whatever outcomes it is executed: a replay cannot manufacture a second.
OneRevisionPerProposal ==
  \A c, d \in revisions : ProposalOf[c] = ProposalOf[d] => c = d

\* A Revision is only of a proposal whose every mutation is in the backend,
\* with the payload that was approved.
RevisionIsBacked ==
  \A c \in revisions : \A i \in Positions(c) :
     \E a \in store : /\ Key(MutationOf(a)) = Key(PlannedMutation(c, i))
                     /\ MutationOf(a).payload = PlannedMutation(c, i).payload

\* No item or statement refers to an item that is not there: what apply_effect
\* resolves before it posts exists before, and for ever after, it is saved.
\* (The Evidence of a claim and the claims of an Event are not resolved: they
\* are written as text, and are no refs.)
NoDanglingReference ==
  \A a \in store : \A r \in MutationOf(a).refs : ~Missing(r)

\* A pure replay, which converges having applied nothing, is told to reuse or
\* recover the existing project Revision: there is one.
ReplayHasRevision ==
  \A c \in Calls :
     pc[c] = "closed" /\ result[c] = "converged" /\ ~MayBuildRevision(c) =>
        \E d \in revisions : ProposalOf[d] = ProposalOf[c]

\* Nothing is saved for a dispatched call that does not hold the lane: the
\* permit fences the writes as well as the calls.
SavesAreFenced ==
  [][\A a \in store' \ store : a[1] \in Dispatched => lane = a[1]]_vars

\* Every call that starts reaches an end and its result is known.
StartedCallsEnd ==
  \A c \in Calls : pc[c] = "preflight" ~> pc[c] \in {"returned", "closed"}

\* The lane is never held for ever.
LaneIsFreedAgain == []<>(lane = NoCall)
===============================================================================
