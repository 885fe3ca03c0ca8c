---------------------------- MODULE UniquenessProofs ---------------------------
(***************************************************************************)
(* Theorems about what executions leave in the backend where every call    *)
(* goes through the dispatcher and no edit is saved after its client gave  *)
(* up: one item per record, each applied effect the call's own, what was   *)
(* missing added in order, and what has converged stays as it was, so that *)
(* execution implements the ledger.                                        *)
(* The server enforces none of it.                                         *)
(***************************************************************************)
EXTENDS RevisionProofs, MutationGuardRefinement

\* How position i of the effects of c came about in a step.
Untouched(c, i) == i \in 1 .. Len(effects[c]) /\ effects'[c][i] = effects[c][i]

JustApplied(c, i) ==
  /\ pc[c] = "reconciling" /\ i = Position(c)
  /\ effects'[c][i] = "applied"
  /\ "equivalent" \in Inspections(Current(c))

JustSkipped(c, i) ==
  /\ pc[c] = "applying" /\ i = Position(c) /\ i \in 1 .. Len(seen[c])
  /\ effects'[c][i] = "already_applied"
  /\ seen[c][i] = "equivalent"

JustUnknown(c, i) ==
  /\ pc[c] = "reconciling" /\ i = Position(c)
  /\ effects'[c][i] = "effect_unknown"

JustFailed(c, i) ==
  /\ i = Position(c)
  /\ effects'[c][i] = "failed"
  /\ \/ pc[c] = "applying" /\ UNCHANGED backendVars
     \/ ReplyDeclined(c)
     \/ ReplyGarbled(c)

FromPreflight(c, i) ==
  /\ i > Position(c) \/ pc[c] = "preflight"
  /\ i \in 1 .. Len(seen[c])
  /\ effects'[c][i] = StatusFromInspection(seen[c][i])

Told(c, i) ==
  \/ Untouched(c, i) \/ JustApplied(c, i) \/ JustSkipped(c, i)
  \/ JustUnknown(c, i) \/ JustFailed(c, i) \/ FromPreflight(c, i)

EffectsTold(c) ==
  /\ Len(effects[c]) <= Len(effects'[c])
  /\ \A i \in 1 .. Len(effects'[c]) : Told(c, i)

-------------------------------------------------------------------------------

LEMMA StopTold ==
  ASSUME TypeOK, Shape, NEW c \in Calls, NEW e \in {"failed", "effect_unknown"},
         NEW r, pc[c] \in {"applying", "awaiting", "reconciling"}, ~LoopDone(c),
         Stop(c, e, r)
  PROVE  /\ Len(effects[c]) <= Len(effects'[c])
         /\ \A i \in 1 .. Len(effects'[c]) :
               \/ Untouched(c, i)
               \/ i = Position(c) /\ effects'[c][i] = e
               \/ FromPreflight(c, i)
<1>1. /\ PlanLength(c) \in Nat /\ Len(effects[c]) \in Nat
      /\ Positions(c) = 1 .. PlanLength(c) /\ Len(seen[c]) = PlanLength(c)
      /\ Len(effects[c]) <= PlanLength(c)
  BY PlanFacts, LenProperties
  DEF Positions, PlanLength, TypeOK, Shape, PreflightShape, EffectsShape
<1>2. effects'[c] = StoppedAt(c, e) /\ Len(StoppedAt(c, e)) = PlanLength(c)
  BY StopFacts DEF Stop, TypeOK, EffectStatuses
<1>3. ASSUME NEW i \in 1 .. PlanLength(c)
      PROVE  \/ Untouched(c, i)
             \/ i = Position(c) /\ effects'[c][i] = e
             \/ FromPreflight(c, i)
  <2>1. effects'[c][i] = IF i < Position(c) THEN effects[c][i]
                         ELSE IF i = Position(c) THEN e
                         ELSE StatusFromInspection(seen[c][i])
    BY <1>1, <1>2, <1>3 DEF StoppedAt
  <2>2. CASE i < Position(c)
    BY <1>1, <2>1, <2>2 DEF Untouched, Position
  <2>3. CASE i = Position(c)
    BY <2>1, <2>3
  <2>4. CASE i > Position(c)
    BY <1>1, <2>1, <2>4 DEF FromPreflight, Position
  <2> QED BY <1>1, <2>2, <2>3, <2>4 DEF Position
<1> QED BY <1>1, <1>2, <1>3

LEMMA SettleTold ==
  ASSUME TypeOK, NEW c \in Calls, NEW e \in EffectStatuses, Settle(c, e)
  PROVE  /\ Len(effects'[c]) = Len(effects[c]) + 1
         /\ Len(effects[c]) <= Len(effects'[c])
         /\ \A i \in 1 .. Len(effects'[c]) :
               Untouched(c, i) \/ (i = Position(c) /\ effects'[c][i] = e)
<1>1. effects'[c] = Append(effects[c], e) /\ effects[c] \in Seq(EffectStatuses)
  BY DEF Settle, TypeOK
<1>2. /\ Len(effects'[c]) = Len(effects[c]) + 1 /\ Len(effects[c]) \in Nat
      /\ \A i \in 1 .. Len(effects[c]) + 1 :
           effects'[c][i] = IF i = Len(effects[c]) + 1 THEN e ELSE effects[c][i]
  BY <1>1, AppendProperties, LenProperties
<1> QED BY <1>2 DEF Untouched, Position

LEMMA BlockTold ==
  ASSUME TypeOK, Shape, NEW c \in Calls, Block(c)
  PROVE  EffectsTold(c)
<1> DEFINE told == [i \in Positions(c) |-> StatusFromInspection(seen[c][i])]
<1>1. /\ PlanLength(c) \in Nat /\ Positions(c) = 1 .. PlanLength(c)
      /\ Len(seen[c]) = PlanLength(c) /\ pc[c] = "preflight"
      /\ effects[c] = <<>> /\ Len(effects[c]) = 0
  BY PlanFacts DEF Positions, PlanLength, Block, PreflightDone, Shape, EffectsShape
<1>2. told \in [1 .. PlanLength(c) -> EffectStatuses] /\ effects'[c] = told
  BY <1>1 DEF StatusFromInspection, EffectStatuses, Blocks, Block, TypeOK
<1>3. Len(effects'[c]) = PlanLength(c)
  BY <1>1, <1>2, SeqDef, LenProperties
<1>4. ASSUME NEW i \in 1 .. PlanLength(c) PROVE FromPreflight(c, i)
  BY <1>1, <1>2, <1>4 DEF FromPreflight
<1> QED BY <1>1, <1>3, <1>4 DEF EffectsTold, Told

LEMMA ReconcileTold ==
  ASSUME TypeOK, Shape, NEW c \in Calls, Reconcile(c)
  PROVE  EffectsTold(c)
<1>1. ~LoopDone(c) /\ pc[c] = "reconciling"
  BY NotDone DEF Reconcile
<1>2. PICK s \in Inspections(Current(c)) :
        \/ s = "equivalent" /\ Settle(c, "applied")
        \/ s # "equivalent" /\ Stop(c, "effect_unknown", "effect_unknown")
  BY DEF Reconcile
<1>3. CASE s = "equivalent" /\ Settle(c, "applied")
  <2>1. "applied" \in EffectStatuses /\ "equivalent" \in Inspections(Current(c))
    BY <1>2, <1>3 DEF EffectStatuses
  <2> QED
    BY <1>1, <1>3, <2>1, SettleTold DEF EffectsTold, Told, JustApplied
<1>4. CASE Stop(c, "effect_unknown", "effect_unknown")
  BY <1>1, <1>4, StopTold DEF EffectsTold, Told, JustUnknown
<1> QED BY <1>2, <1>3, <1>4

LEMMA FailureTold ==
  ASSUME TypeOK, Shape, NEW c \in Calls,
         \/ Apply(c) /\ Stop(c, "failed", "failed") /\ UNCHANGED backendVars
         \/ ReplyDeclined(c) \/ ReplyGarbled(c)
  PROVE  EffectsTold(c)
<1>1. /\ Stop(c, "failed", "failed") /\ ~LoopDone(c)
      /\ pc[c] \in {"applying", "awaiting", "reconciling"}
      /\ \A i : i = Position(c) /\ effects'[c][i] = "failed" => JustFailed(c, i)
  <2>1. CASE Apply(c) /\ Stop(c, "failed", "failed") /\ UNCHANGED backendVars
    BY <2>1 DEF Apply, JustFailed
  <2>2. CASE ReplyDeclined(c) \/ ReplyGarbled(c)
    <3>1. pc[c] = "awaiting" /\ Stop(c, "failed", "failed")
      BY <2>2 DEF ReplyDeclined, ReplyGarbled
    <3> QED BY <2>2, <3>1, NotDone DEF JustFailed
  <2> QED BY <2>1, <2>2
<1> QED BY <1>1, StopTold DEF EffectsTold, Told

LEMMA UnchangedTold ==
  ASSUME TypeOK, NEW c \in Calls, effects'[c] = effects[c]
  PROVE  EffectsTold(c)
BY LenProperties DEF EffectsTold, Told, Untouched, TypeOK

LEMMA EffectSteps ==
  ASSUME TypeOK, Shape, [Next]_vars, NEW c \in Calls
  PROVE  EffectsTold(c)
<1>1. CASE ~CallStep(c)
  BY <1>1, ListsFrame, UnchangedTold
<1>2. CASE CallStep(c)
  <2>1. CASE Block(c)
    BY <2>1, BlockTold
  <2>2. CASE Skip(c)
    <3>1. Position(c) \in 1 .. Len(seen[c])
      BY <2>2, RequestType, PlanFacts
      DEF Skip, Positions, PlanLength, Shape, PreflightShape
    <3>2. "already_applied" \in EffectStatuses
      BY DEF EffectStatuses
    <3>3. /\ pc[c] = "applying" /\ seen[c][Position(c)] = "equivalent"
          /\ Settle(c, "already_applied")
      BY <2>2 DEF Skip
    <3> QED BY <3>1, <3>2, <3>3, SettleTold DEF EffectsTold, Told, JustSkipped
  <2>3. CASE Reconcile(c)
    BY <2>3, ReconcileTold
  <2>4. CASE \/ Apply(c) /\ Stop(c, "failed", "failed") /\ UNCHANGED backendVars
             \/ ReplyDeclined(c) \/ ReplyGarbled(c)
    BY <2>4, FailureTold
  <2>5. CASE effects' = effects
    BY <2>5, UnchangedTold
  <2> QED
    BY <1>2, <2>1, <2>2, <2>3, <2>4, <2>5
    DEF CallStep, Inspect, Proceed, Apply, ReplyOk, ReplyLost, Converge, Return
<1> QED BY <1>1, <1>2

-------------------------------------------------------------------------------

(***************************************************************************)
(* A request that was sent is behind the loop of its call or the loop's    *)
(* current one, and it is never reported as failed, unless replies can be  *)
(* unreadable.                                                             *)
(***************************************************************************)
PastPost == {"awaiting", "reconciling", "returning", "returned", "closed",
             "crashed"}

SentStatuses == {"applied", "effect_unknown"}
                  \cup (IF "garbled" \in Faults THEN {"failed"} ELSE {})

Accounted(c, i) ==
  \/ i \in 1 .. Len(effects[c]) /\ effects[c][i] \in SentStatuses
  \/ i = Position(c) /\ pc[c] \in PastPost

SentIsAccounted ==
  \A c \in Calls, i \in Nat : <<c, i>> \in store \cup inflight => Accounted(c, i)

SavedOrSent == store \cap inflight = {}

Posting(c) ==
  /\ pc[c] = "applying"
  /\ ~LoopDone(c)
  /\ seen[c][Position(c)] = "absent"
  /\ Post(Request(c))
  /\ Go(c, "awaiting")
  /\ UNCHANGED effects

LEMMA BackendSteps ==
  ASSUME [Next]_vars
  PROVE  \/ store' = store /\ inflight' \subseteq inflight
         \/ \E a \in inflight : Commit(a)
         \/ \E c \in Calls : Posting(c)
<1>1. ASSUME NEW c \in Calls, CallerStep(c) \/ Interrupt(c) \/ Crash(c)
      PROVE  store' = store /\ inflight' = inflight
  BY <1>1 DEF CallerStep, Acquire, Refuse, StartDirect, RecordRevision,
              RefuseRevision, Interrupt, Crash, backendVars
<1>2. ASSUME NEW c \in Calls, CallStep(c)
      PROVE  (store' = store /\ inflight' \subseteq inflight) \/ Posting(c)
  <2>1. CASE Apply(c)
    BY <2>1 DEF Apply, Posting, backendVars
  <2>2. CASE ReplyDeclined(c)
    BY <2>2 DEF ReplyDeclined, Decline
  <2> QED
    BY <1>2, <2>1, <2>2
    DEF CallStep, Inspect, Block, Proceed, Skip, ReplyOk, ReplyLost,
        ReplyGarbled, Reconcile, Converge, Return, backendVars
<1> QED BY <1>1, <1>2 DEF Next, vars

LEMMA PastSteps ==
  ASSUME TypeOK, [Next]_vars, NEW c \in Calls, pc[c] \in PastPost
  PROVE  pc'[c] \in PastPost \/ Settle(c, "applied")
<1>1. ASSUME NEW d \in Calls, d # c,
             CallerStep(d) \/ CallStep(d) \/ Interrupt(d) \/ Crash(d)
      PROVE  pc'[c] = pc[c]
  <2>1. CASE CallerStep(d) \/ Interrupt(d) \/ Crash(d)
    BY <1>1, <2>1 DEF CallerStep, Acquire, Refuse, StartDirect, RecordRevision,
                      RefuseRevision, Interrupt, Crash, Go, TypeOK
  <2>2. CASE CallStep(d)
    BY <1>1, <2>2 DEF CallStep, Inspect, Block, Proceed, Skip, Apply, ReplyOk,
                      ReplyDeclined, ReplyLost, ReplyGarbled, Reconcile,
                      Converge, Return, Settle, Stop, Go, TypeOK
  <2> QED BY <1>1, <2>1, <2>2
<1>2. CASE CallerStep(c) \/ Interrupt(c) \/ Crash(c)
  BY <1>2 DEF CallerStep, Acquire, Refuse, StartDirect, RecordRevision,
              RefuseRevision, Interrupt, Crash, Go, TypeOK, PastPost
<1>3. CASE CallStep(c)
  BY <1>3 DEF CallStep, Inspect, Block, PreflightDone, Proceed, Skip, Apply,
              ReplyOk, ReplyDeclined, ReplyLost, ReplyGarbled, Reconcile,
              Converge, Return, Stop, Go, TypeOK, PastPost
<1>4. ASSUME NEW a \in inflight, Commit(a)
      PROVE  pc' = pc
  BY <1>4 DEF Commit, guardVars
<1>5. CASE UNCHANGED vars
  BY <1>5 DEF vars
<1> QED BY <1>1, <1>2, <1>3, <1>4, <1>5 DEF Next

\* What loop and replies make of a request that is still accounted for.
LEMMA AccountedStays ==
  ASSUME TypeOK, Shape, SavedOrSent, [Next]_vars, NEW c \in Calls, NEW i \in Nat,
         Accounted(c, i), <<c, i>> \in store' \cup inflight'
  PROVE  Accounted(c, i)'
<1>1. /\ Len(effects[c]) \in Nat /\ Len(effects'[c]) \in Nat
      /\ Len(effects[c]) <= Len(effects'[c])
      /\ \A j \in 1 .. Len(effects'[c]) : Told(c, j)
  BY EffectSteps, TypeNext, LenProperties DEF EffectsTold, TypeOK
<1>2. pc[c] = "preflight" => Len(effects[c]) = 0
  BY DEF Shape, EffectsShape
<1>3. CASE i \in 1 .. Len(effects[c]) /\ effects[c][i] \in SentStatuses
  <2>1. i \in 1 .. Len(effects'[c]) /\ i < Position(c)
    BY <1>1, <1>3 DEF Position
  <2>2. Untouched(c, i)
    BY <1>1, <1>2, <1>3, <2>1 DEF Told, JustApplied, JustSkipped, JustUnknown,
                             JustFailed, FromPreflight, Position
  <2> QED BY <1>3, <2>1, <2>2 DEF Untouched, Accounted, SentStatuses
<1>4. CASE i = Position(c) /\ pc[c] \in PastPost
  <2>1. CASE Len(effects'[c]) = Len(effects[c])
    <3>1. Position(c)' = Position(c)
      BY <2>1 DEF Position
    <3>2. ~Settle(c, "applied")
      BY <1>1, <2>1, SettleTold DEF EffectStatuses
    <3> QED BY <1>4, <3>1, <3>2, PastSteps DEF Accounted
  <2>2. CASE Len(effects'[c]) # Len(effects[c])
    <3>1. i \in 1 .. Len(effects'[c]) /\ ~(i > Position(c))
      BY <1>1, <1>4, <2>2 DEF Position
    <3>2. JustApplied(c, i) \/ JustUnknown(c, i) \/ JustFailed(c, i)
      BY <1>1, <1>4, <3>1 DEF Told, Untouched, JustSkipped, FromPreflight,
                              Position, PastPost
    <3>3. ~ReplyDeclined(c)
      BY <1>4 DEF ReplyDeclined, Decline, Request, SavedOrSent
    <3>4. pc[c] # "applying"
      BY <1>4 DEF PastPost
    <3>5. effects'[c][i] \in SentStatuses
      BY <3>2, <3>3, <3>4 DEF JustApplied, JustUnknown, JustFailed,
                              ReplyGarbled, SentStatuses
    <3> QED BY <3>1, <3>5 DEF Accounted, SentStatuses
  <2> QED BY <2>1, <2>2
<1> QED BY <1>3, <1>4 DEF Accounted

LEMMA SentNext ==
  ASSUME TypeOK, Shape, SavedOrSent, SentIsAccounted, [Next]_vars
  PROVE  SavedOrSent' /\ SentIsAccounted'
<1>1. ASSUME NEW c \in Calls, Posting(c)
      PROVE  SavedOrSent' /\ SentIsAccounted'
  <2>1. /\ Position(c) \in Nat /\ Len(effects[c]) \in Nat
        /\ ~(Position(c) \in 1 .. Len(effects[c]))
    BY LenProperties DEF Position, TypeOK
  <2>2. Request(c) \notin store
    BY <1>1, <2>1 DEF Posting, Request, SentIsAccounted, Accounted, PastPost
  <2>3. SavedOrSent'
    BY <1>1, <2>2 DEF Posting, Post, SavedOrSent
  <2>4. ASSUME NEW d \in Calls, NEW i \in Nat, <<d, i>> \in store' \cup inflight'
        PROVE  Accounted(d, i)'
    <3>1. CASE <<d, i>> \in store \cup inflight
      BY <2>4, <3>1, AccountedStays DEF SentIsAccounted
    <3>2. CASE <<d, i>> = Request(c)
      <4>1. d = c /\ i = Position(c) /\ Position(c)' = Position(c)
        BY <1>1, <3>2 DEF Request, Posting, Position
      <4>2. pc'[c] = "awaiting"
        BY <1>1 DEF Posting, Go, TypeOK
      <4> QED BY <4>1, <4>2 DEF Accounted, PastPost
    <3> QED BY <1>1, <2>4, <3>1, <3>2 DEF Posting, Post
  <2> QED BY <2>3, <2>4 DEF SentIsAccounted
<1>2. ASSUME store' \cup inflight' \subseteq store \cup inflight
      PROVE  SentIsAccounted'
  BY <1>2, AccountedStays DEF SentIsAccounted
<1>3. ASSUME NEW a \in inflight, Commit(a)
      PROVE  /\ store' \cup inflight' \subseteq store \cup inflight
             /\ SavedOrSent'
  BY <1>3 DEF Commit, Save, SavedOrSent
<1>4. ASSUME store' = store, inflight' \subseteq inflight
      PROVE  /\ store' \cup inflight' \subseteq store \cup inflight
             /\ SavedOrSent'
  BY <1>4 DEF SavedOrSent
<1> QED BY <1>1, <1>2, <1>3, <1>4, BackendSteps

LEMMA SentAlways == Spec => [](SavedOrSent /\ SentIsAccounted)
<1>1. Init => SavedOrSent /\ SentIsAccounted
  BY DEF Init, BackendInit, SavedOrSent, SentIsAccounted
<1> QED BY <1>1, SentNext, TypeCorrect, PTL DEF Spec

\* An effect reported as failed is neither in the backend nor on its way to
\* it, as long as the reply of a saved edit can be read: DefinitiveWriteError
\* means what its message says, however calls interleave and edits straggle.
THEOREM FailuresLeaveNothing ==
  "garbled" \notin Faults => (Spec => []FailedHasNoEffect)
<1> SUFFICES ASSUME "garbled" \notin Faults PROVE Spec => []FailedHasNoEffect
  OBVIOUS
<1>1. TypeOK /\ SentIsAccounted => FailedHasNoEffect
  <2> SUFFICES ASSUME TypeOK, SentIsAccounted, NEW c \in Calls,
                      NEW i \in 1 .. Len(effects[c]), effects[c][i] = "failed",
                      <<c, i>> \in store \cup inflight
               PROVE  FALSE
    BY DEF FailedHasNoEffect
  <2>1. Accounted(c, i) /\ Len(effects[c]) \in Nat
    BY LenProperties DEF SentIsAccounted, TypeOK
  <2> QED BY <2>1 DEF Accounted, SentStatuses, Position
<1> QED BY <1>1, SentAlways, TypeCorrect, PTL

-------------------------------------------------------------------------------

(***************************************************************************)
(* What the executor relies on between its preflight and a post: a record  *)
(* seen absent is written by nobody else.  It holds because the lane spans *)
(* preflight, writes and reconciliation and no edit outlives its client;   *)
(* without either, "absent" is a stale answer.                             *)
(***************************************************************************)
Fenced == Dispatched = Calls /\ "late_commit" \notin Faults

Unwritten(c) ==
  pc[c] \in Working =>
    \A i \in 1 .. Len(seen[c]) :
      seen[c][i] = "absent" /\ i > Len(effects[c]) =>
        \A a \in store :
          Key(MutationOf(a)) = Key(PlannedMutation(c, i)) => a = <<c, i>>

AllUnwritten == \A c \in Calls : Unwritten(c)

\* "absent" of inspect_effect: no item carries the record, the projection of
\* an Event that is not there included.
LEMMA AbsentIsUnwritten ==
  ASSUME TypeOK, Grounded, ProjectionsReferToEvents,
         NEW c \in Calls, NEW i \in 1 .. PlanLength(c),
         "absent" \in Inspections(PlannedMutation(c, i)),
         NEW a \in store
  PROVE  Key(MutationOf(a)) # Key(PlannedMutation(c, i))
<1> DEFINE m == PlannedMutation(c, i)
<1>1. InspectionState(m) = "absent"
  BY DEF Inspections
<1>2. \A k, d : Observed(k, d) = "absent" => Matches(k) = {}
  BY DEF Observed
<1>3. CASE Matches(Key(m)) = {}
  BY <1>3 DEF Matches
<1>4. CASE m.kind = "event_update" /\ Matches(ItemKey(m.base.record)) = {}
  <2>1. m.base.record \notin Seeded
    BY <1>4, PlanFacts, PlansAssumption DEF PlanLength, PlannedMutation
  <2>2. Missing(m.base.record)
    BY <1>4, <2>1 DEF Missing
  <2>3. m.base.record \notin MutationOf(a).refs
    BY <2>2 DEF Grounded
  <2>4. /\ a[1] \in Calls /\ a[2] \in 1 .. PlanLength(a[1])
        /\ MutationOf(a) = Plan[ProposalOf[a[1]]][a[2]]
        /\ m = Plan[ProposalOf[c]][i]
        /\ ProposalOf[a[1]] \in Proposals /\ ProposalOf[c] \in Proposals
    BY PlanFacts DEF TypeOK, Requests, Positions, PlanLength, MutationOf,
                     PlannedMutation
  <2> QED BY <1>4, <2>3, <2>4 DEF ProjectionsReferToEvents, PlanLength
<1>5. CASE Observed(Key(m), m.payload) = "absent"
  BY <1>2, <1>3, <1>5
<1>6. CASE m.kind = "event_update"
             /\ BaseObserved(m) = "absent"
  BY <1>2, <1>4, <1>6 DEF BaseObserved
<1> QED BY <1>1, <1>5, <1>6 DEF InspectionState

\* Only the current request of the call that waits can be saved.
LEMMA CommitIsCurrent ==
  ASSUME TypeOK, Shape, SavedOrSent, SentIsAccounted, AppliedIsOwnWrite,
         "late_commit" \notin Faults, NEW a \in inflight, Commit(a)
  PROVE  /\ a[1] \in Calls /\ pc[a[1]] = "awaiting"
         /\ a = Request(a[1])
<1>1. /\ a[1] \in Calls /\ a[2] \in Nat /\ a = <<a[1], a[2]>>
      /\ pc[a[1]] = "awaiting"
  BY DEF TypeOK, Requests, Commit
<1>2. Accounted(a[1], a[2])
  BY <1>1 DEF SentIsAccounted
<1>3. CASE a[2] \in 1 .. Len(effects[a[1]])
             /\ effects[a[1]][a[2]] \in SentStatuses
  <2>1. effects[a[1]][a[2]] = "applied"
    BY <1>1, <1>3 DEF Shape, EffectsShape, Settled, SentStatuses
  <2> QED BY <1>1, <1>3, <2>1 DEF AppliedIsOwnWrite, SavedOrSent
<1>4. CASE a[2] = Position(a[1])
  BY <1>1, <1>4 DEF Request
<1> QED BY <1>1, <1>2, <1>3, <1>4 DEF Accounted

LEMMA WorkingSteps ==
  ASSUME TypeOK, [Next]_vars, NEW c \in Calls, pc'[c] \in Working
  PROVE  pc[c] \in Working \/ pc[c] = "idle"
<1>1. ASSUME NEW d \in Calls, d # c,
             CallerStep(d) \/ CallStep(d) \/ Interrupt(d) \/ Crash(d)
      PROVE  pc'[c] = pc[c]
  <2>1. CASE CallerStep(d) \/ Interrupt(d) \/ Crash(d)
    BY <1>1, <2>1 DEF CallerStep, Acquire, Refuse, StartDirect, RecordRevision,
                      RefuseRevision, Interrupt, Crash, Go, TypeOK
  <2>2. CASE CallStep(d)
    BY <1>1, <2>2 DEF CallStep, Inspect, Block, Proceed, Skip, Apply, ReplyOk,
                      ReplyDeclined, ReplyLost, ReplyGarbled, Reconcile,
                      Converge, Return, Settle, Stop, Go, TypeOK
  <2> QED BY <1>1, <2>1, <2>2
<1>2. CASE CallerStep(c) \/ Interrupt(c) \/ Crash(c)
  BY <1>2 DEF CallerStep, Acquire, Refuse, StartDirect, RecordRevision,
              RefuseRevision, Interrupt, Crash, Go, TypeOK, Working
<1>3. CASE CallStep(c)
  BY <1>3 DEF CallStep, Inspect, Block, PreflightDone, Proceed, Skip, Apply,
              ReplyOk, ReplyDeclined, ReplyLost, ReplyGarbled, Reconcile,
              Converge, Return, Go, TypeOK, Working
<1>4. ASSUME NEW a \in inflight, Commit(a)
      PROVE  pc' = pc
  BY <1>4 DEF Commit, guardVars
<1>5. CASE UNCHANGED vars
  BY <1>5 DEF vars
<1> QED BY <1>1, <1>2, <1>3, <1>4, <1>5 DEF Next

LEMMA StoreSteps ==
  ASSUME [Next]_vars
  PROVE  store' = store \/ \E a \in inflight : Commit(a)
BY BackendSteps DEF Posting, Post

\* A commit is of the call that works, and of the record it waits for.
LEMMA UnwrittenCommit ==
  ASSUME TypeOK, Shape, HoldsPermit, SavedOrSent, SentIsAccounted,
         AppliedIsOwnWrite, Fenced, RecordsAreDistinct,
         NEW c \in Calls, Unwritten(c), NEW b \in inflight, Commit(b)
  PROVE  Unwritten(c)'
<1>1. /\ b[1] \in Calls /\ pc[b[1]] = "awaiting" /\ b = Request(b[1])
  BY CommitIsCurrent DEF Fenced
<1>2. /\ store' = store \cup {b} /\ pc' = pc /\ seen' = seen /\ effects' = effects
  BY DEF Commit, Save, guardVars
<1> SUFFICES ASSUME pc[c] \in Working, NEW i \in 1 .. Len(seen[c]),
                    seen[c][i] = "absent", i > Len(effects[c]),
                    NEW a \in store \cup {b},
                    Key(MutationOf(a)) = Key(PlannedMutation(c, i))
             PROVE  a = <<c, i>>
  BY <1>2 DEF Unwritten, MutationOf, PlannedMutation
<1>3. CASE a \in store
  BY <1>3 DEF Unwritten
<1>4. CASE a = b
  <2>1. b[1] = c
    BY <1>1 DEF HoldsPermit, Fenced, Active, Working
  <2>2. b = <<c, Position(c)>> /\ Position(c) \in Positions(c)
    BY <1>1, <2>1, NotDone, RequestType DEF Request
  <2>3. i \in 1 .. PlanLength(c) /\ PlanLength(c) \in Nat
    BY PlanFacts, LenProperties DEF Shape, PreflightShape, TypeOK
  <2>4. Key(Plan[ProposalOf[c]][Position(c)]) = Key(Plan[ProposalOf[c]][i])
    BY <1>4, <2>2 DEF MutationOf, PlannedMutation
  <2>5. Position(c) = i
    BY <2>2, <2>3, <2>4, PlanFacts DEF RecordsAreDistinct, Positions, PlanLength
  <2> QED BY <1>4, <2>2, <2>5
<1> QED BY <1>3, <1>4

LEMMA UnwrittenNext ==
  ASSUME TypeOK, Shape, HoldsPermit, Grounded, SavedOrSent, SentIsAccounted,
         AppliedIsOwnWrite, Fenced, RecordsAreDistinct,
         ProjectionsReferToEvents, AllUnwritten, [Next]_vars
  PROVE  AllUnwritten'
<1> SUFFICES ASSUME NEW c \in Calls, store' = store PROVE Unwritten(c)'
  BY UnwrittenCommit, StoreSteps DEF AllUnwritten
<1> SUFFICES ASSUME pc'[c] \in Working, NEW i \in 1 .. Len(seen'[c]),
                    seen'[c][i] = "absent", i > Len(effects'[c]),
                    NEW a \in store,
                    Key(MutationOf(a)) = Key(PlannedMutation(c, i))
             PROVE  a = <<c, i>>
  BY DEF Unwritten, MutationOf, PlannedMutation
<1>1. /\ Len(effects[c]) \in Nat /\ Len(effects'[c]) \in Nat
      /\ Len(effects[c]) <= Len(effects'[c]) /\ Unwritten(c)
  BY EffectSteps, TypeNext, LenProperties DEF EffectsTold, TypeOK, AllUnwritten
<1>2. i > Len(effects[c])
  BY <1>1, TypeNext, LenProperties DEF TypeOK
<1>3. CASE seen'[c] = seen[c]
  <2>1. pc[c] # "idle"
    BY <1>3 DEF Shape, PreflightShape
  <2> QED BY <1>1, <1>2, <1>3, <2>1, WorkingSteps DEF Unwritten
<1>4. CASE Inspect(c)
  <2> DEFINE n == Len(seen[c]) + 1
  <2>1. PICK s \in Inspections(PlannedMutation(c, n)) :
          seen' = [seen EXCEPT ![c] = Append(@, s)]
    BY <1>4 DEF Inspect
  <2>2. /\ pc[c] = "preflight" /\ Len(seen[c]) \in Nat /\ PlanLength(c) \in Nat
        /\ n \in 1 .. PlanLength(c)
    BY <1>4, PlanFacts, LenProperties DEF Inspect, TypeOK, PlanLength
  <2>3. /\ seen'[c] = Append(seen[c], s) /\ seen[c] \in Seq(InspectionStates)
        /\ s \in InspectionStates
    BY <2>1, InspectionType DEF TypeOK
  <2>4. /\ Len(seen'[c]) = n
        /\ \A j \in 1 .. n : seen'[c][j] = IF j = n THEN s ELSE seen[c][j]
    BY <2>2, <2>3, AppendProperties, LenProperties
  <2>5. CASE i = n
    <3>1. "absent" \in Inspections(PlannedMutation(c, n))
      BY <2>1, <2>4, <2>5
    <3> QED BY <2>2, <2>5, <3>1, AbsentIsUnwritten
  <2>6. CASE i # n
    <3>1. i \in 1 .. Len(seen[c]) /\ seen[c][i] = "absent"
      BY <2>2, <2>4, <2>6
    <3> QED BY <1>1, <1>2, <2>2, <3>1 DEF Unwritten, Working
  <2> QED BY <2>5, <2>6
<1> QED BY <1>3, <1>4, ResultSteps

\* The effect a call waits for or reconciles was seen absent.
LEMMA CurrentWasAbsent ==
  ASSUME TypeOK, Shape, NEW c \in Calls, pc[c] \in {"awaiting", "reconciling"}
  PROVE  /\ Position(c) \in 1 .. Len(seen[c]) /\ Position(c) > Len(effects[c])
         /\ seen[c][Position(c)] = "absent"
<1>1. ~LoopDone(c) /\ seen[c][Position(c)] = "absent"
  BY NotDone
<1>2. Position(c) \in Positions(c)
  BY <1>1, RequestType
<1>3. Len(seen[c]) = PlanLength(c) /\ Positions(c) = 1 .. PlanLength(c)
  BY DEF Positions, PlanLength, Shape, PreflightShape
<1>4. Position(c) > Len(effects[c])
  BY LenProperties DEF Position, TypeOK
<1> QED BY <1>1, <1>2, <1>3, <1>4

\* The equivalent item a reconciliation finds is the one the call posted.
LEMMA AppliedNext ==
  ASSUME TypeOK, Shape, AllUnwritten, AppliedIsOwnWrite, [Next]_vars
  PROVE  AppliedIsOwnWrite'
<1> SUFFICES ASSUME NEW c \in Calls, NEW i \in 1 .. Len(effects'[c]),
                    effects'[c][i] = "applied"
             PROVE  <<c, i>> \in store'
  BY DEF AppliedIsOwnWrite
<1>1. Told(c, i) /\ store \subseteq store'
  BY EffectSteps, StoreGrows DEF EffectsTold
<1>2. CASE Untouched(c, i)
  BY <1>1, <1>2 DEF Untouched, AppliedIsOwnWrite
<1>3. CASE JustApplied(c, i)
  <2>1. i = Position(c) /\ pc[c] = "reconciling"
    BY <1>3 DEF JustApplied
  <2>2. /\ i \in 1 .. Len(seen[c]) /\ i > Len(effects[c])
        /\ seen[c][i] = "absent"
    BY <2>1, CurrentWasAbsent
  <2>3. PICK a \in store : Key(MutationOf(a)) = Key(PlannedMutation(c, i))
    BY <1>3, <2>1, EquivalentIsPresent DEF JustApplied, Current, Present, Backed
  <2>4. a = <<c, i>>
    BY <2>1, <2>2, <2>3 DEF AllUnwritten, Unwritten, Working
  <2> QED BY <1>1, <2>4
<1>4. CASE FromPreflight(c, i)
  BY <1>4 DEF FromPreflight, StatusFromInspection
<1> QED BY <1>1, <1>2, <1>3, <1>4 DEF Told, JustSkipped, JustUnknown, JustFailed

LEMMA OneItemNext ==
  ASSUME TypeOK, Shape, HoldsPermit, SavedOrSent, SentIsAccounted,
         AppliedIsOwnWrite, Fenced, AllUnwritten, OneItemPerRecord, [Next]_vars
  PROVE  OneItemPerRecord'
<1>1. CASE store' = store
  BY <1>1 DEF OneItemPerRecord, MutationOf, PlannedMutation
<1>2. ASSUME NEW a \in inflight, Commit(a)
      PROVE  OneItemPerRecord'
  <2> DEFINE c == a[1]
  <2>1. c \in Calls /\ pc[c] = "awaiting" /\ a = Request(c)
    BY <1>2, CommitIsCurrent DEF Fenced
  <2>2. store' = store \cup {a}
    BY <1>2 DEF Commit, Save
  <2>3. /\ Position(c) \in 1 .. Len(seen[c]) /\ Position(c) > Len(effects[c])
        /\ seen[c][Position(c)] = "absent"
    BY <2>1, CurrentWasAbsent
  <2>4. MutationOf(a) = PlannedMutation(c, Position(c)) /\ a = <<c, Position(c)>>
    BY <2>1 DEF Request, MutationOf
  <2>5. \A b \in store : Key(MutationOf(b)) = Key(MutationOf(a)) => b = a
    BY <2>1, <2>3, <2>4 DEF AllUnwritten, Unwritten, Working
  <2> HIDE DEF c
  <2> QED BY <2>2, <2>5 DEF OneItemPerRecord, MutationOf, PlannedMutation
<1> QED BY <1>1, <1>2, StoreSteps

LEMMA CleanAlways ==
  ASSUME Fenced, RecordsAreDistinct, ProjectionsReferToEvents
  PROVE  Spec => [](AllUnwritten /\ AppliedIsOwnWrite /\ OneItemPerRecord)
<1>1. Init => AllUnwritten /\ AppliedIsOwnWrite /\ OneItemPerRecord
  <2> SUFFICES ASSUME Init PROVE AllUnwritten /\ AppliedIsOwnWrite /\ OneItemPerRecord
    OBVIOUS
  <2>1. store = {} /\ \A c \in Calls : effects[c] = <<>> /\ 1 .. Len(<<>>) = {}
    BY DEF Init, BackendInit
  <2> QED BY <2>1 DEF AllUnwritten, Unwritten, AppliedIsOwnWrite, OneItemPerRecord
<1>2. /\ TypeOK /\ Shape /\ HoldsPermit /\ Grounded /\ SavedOrSent
      /\ SentIsAccounted /\ AllUnwritten /\ AppliedIsOwnWrite
      /\ OneItemPerRecord /\ [Next]_vars
      => (AllUnwritten /\ AppliedIsOwnWrite /\ OneItemPerRecord)'
  BY UnwrittenNext, AppliedNext, OneItemNext
<1> QED
  BY <1>1, <1>2, TypeCorrect, PermitAlways, GroundedAlways, SentAlways, PTL
  DEF Spec

\* No item, projection or statement is saved twice, a statement being a Claim
\* ID of one subject under one predicate, whatever fails, is retried,
\* interrupted or killed, and though the server enforces no uniqueness.
THEOREM RecordsHaveOneItem ==
  Fenced /\ RecordsAreDistinct /\ ProjectionsReferToEvents
    => (Spec => []OneItemPerRecord)
<1> SUFFICES ASSUME Fenced, RecordsAreDistinct, ProjectionsReferToEvents
             PROVE  Spec => []OneItemPerRecord
  OBVIOUS
<1> QED BY CleanAlways, PTL

\* A request asks for a mutation of some plan.
LEMMA RequestIsMutation ==
  ASSUME NEW a \in Requests
  PROVE  /\ MutationOf(a) \in Mutation
         /\ \E p \in Proposals : \E i \in 1 .. Len(Plan[p]) :
               MutationOf(a) = Plan[p][i]
         /\ Key(MutationOf(a)) \in Keys
<1>1. a[1] \in Calls /\ a[2] \in 1 .. PlanLength(a[1])
  BY DEF Requests, Positions, PlanLength
<1>2. /\ MutationOf(a) = Plan[ProposalOf[a[1]]][a[2]]
      /\ ProposalOf[a[1]] \in Proposals
      /\ a[2] \in 1 .. Len(Plan[ProposalOf[a[1]]])
      /\ MutationOf(a) \in Mutation
  BY <1>1, PlanFacts DEF MutationOf, PlannedMutation, PlanLength
<1>3. Key(MutationOf(a)) \in Keys
  BY <1>2 DEF Keys
<1> QED BY <1>2, <1>3

\* A canonical ID, of an item or of a claim.
OneItemPerId ==
  \A a, b \in store : MutationOf(a).record = MutationOf(b).record => a = b

\* A Claim ID stands on one statement of the whole backend if no two proposals
\* use it on two subjects or under two predicates: inspection looks at one
\* subject and predicate, so this is up to those who write proposals.
THEOREM ClaimIdsHaveOneStatement ==
  Fenced /\ RecordsAreDistinct /\ ProjectionsReferToEvents /\ ClaimsKeepTheirPlace
    => (Spec => []OneItemPerId)
<1> SUFFICES ASSUME Fenced, RecordsAreDistinct, ProjectionsReferToEvents,
                    ClaimsKeepTheirPlace
             PROVE  Spec => []OneItemPerId
  OBVIOUS
<1>1. TypeOK /\ OneItemPerRecord => OneItemPerId
  <2> SUFFICES ASSUME TypeOK, OneItemPerRecord, NEW a \in store, NEW b \in store,
                      MutationOf(a).record = MutationOf(b).record
               PROVE  a = b
    BY DEF OneItemPerId
  <2>1. /\ \E p \in Proposals : \E i \in 1 .. Len(Plan[p]) : MutationOf(a) = Plan[p][i]
        /\ \E q \in Proposals : \E j \in 1 .. Len(Plan[q]) : MutationOf(b) = Plan[q][j]
    BY RequestIsMutation DEF TypeOK
  <2>2. Key(MutationOf(a)) = Key(MutationOf(b))
    BY <2>1 DEF ClaimsKeepTheirPlace
  <2> QED BY <2>2 DEF OneItemPerRecord
<1> QED BY <1>1, CleanAlways, TypeCorrect, PTL

\* What is reported as applied was saved by the very call that reports it.
THEOREM AppliedEffectsAreOwn ==
  Fenced /\ RecordsAreDistinct /\ ProjectionsReferToEvents
    => (Spec => []AppliedIsOwnWrite)
<1> SUFFICES ASSUME Fenced, RecordsAreDistinct, ProjectionsReferToEvents
             PROVE  Spec => []AppliedIsOwnWrite
  OBVIOUS
<1> QED BY CleanAlways, PTL

-------------------------------------------------------------------------------

(***************************************************************************)
(* What one execution does to the backend, as Admission takes it in one    *)
(* step: a prefix of what was missing is saved, in the order of the plan,  *)
(* and nothing of a proposal that clashes with what is there.              *)
(***************************************************************************)
Loop == {"applying", "awaiting", "reconciling"}

\* The apply loop is entered with nothing in the way, ...
Cleared == \A c \in Calls : pc[c] \in Loop => ~Blocked(c)

\* ... and passes over what the preflight found, and over nothing else.
SkipsSeen ==
  \A c \in Calls : \A i \in 1 .. Len(effects[c]) :
    effects[c][i] = "already_applied" => i \in 1 .. Len(seen[c]) /\ seen[c][i] = "equivalent"

\* A request was sent after a preflight that saw it absent and nothing in the
\* way, when all that was absent before it had been applied.
InOrder(c, j) ==
  /\ pc[c] \notin {"idle", "preflight"} /\ j \in Positions(c)
  /\ Len(seen[c]) = PlanLength(c) /\ ~Blocked(c) /\ seen[c][j] = "absent"
  /\ \A i \in 1 .. j - 1 :
        i <= Len(effects[c]) /\ (seen[c][i] = "absent" => effects[c][i] = "applied")
SentInOrder == \A c \in Calls, j \in Nat : <<c, j>> \in store \cup inflight => InOrder(c, j)

\* No call returns to its preflight, and the loop is entered by Proceed only.
LEMMA LoopSteps ==
  ASSUME TypeOK, [Next]_vars, NEW c \in Calls
  PROVE  /\ pc'[c] \in Loop => pc[c] \in Loop \/ Proceed(c)
         /\ pc[c] \notin {"idle", "preflight"} => pc'[c] \notin {"idle", "preflight"}
<1>1. ASSUME NEW d \in Calls, d # c,
             CallerStep(d) \/ CallStep(d) \/ Interrupt(d) \/ Crash(d)
      PROVE  pc'[c] = pc[c]
  <2>1. CASE CallerStep(d) \/ Interrupt(d) \/ Crash(d)
    BY <1>1, <2>1 DEF CallerStep, Acquire, Refuse, StartDirect, RecordRevision,
                      RefuseRevision, Interrupt, Crash, Go, TypeOK
  <2>2. CASE CallStep(d)
    BY <1>1, <2>2 DEF CallStep, Inspect, Block, Proceed, Skip, Apply, ReplyOk,
                      ReplyDeclined, ReplyLost, ReplyGarbled, Reconcile,
                      Converge, Return, Settle, Stop, Go, TypeOK
  <2> QED BY <1>1, <2>1, <2>2
<1>2. CASE CallerStep(c) \/ Interrupt(c) \/ Crash(c)
  BY <1>2 DEF CallerStep, Acquire, Refuse, StartDirect, RecordRevision,
              RefuseRevision, Interrupt, Crash, Go, TypeOK, Loop
<1>3. CASE CallStep(c)
  BY <1>3 DEF CallStep, Inspect, Block, PreflightDone, Proceed, Skip, Apply,
              ReplyOk, ReplyDeclined, ReplyLost, ReplyGarbled, Reconcile,
              Converge, Return, Settle, Stop, Go, TypeOK, Loop
<1>4. ASSUME NEW a \in inflight, Commit(a)
      PROVE  pc' = pc
  BY <1>4 DEF Commit, guardVars
<1>5. CASE UNCHANGED vars
  BY <1>5 DEF vars
<1> QED BY <1>1, <1>2, <1>3, <1>4, <1>5 DEF Next

\* The answers of the preflight are final once it is over.
LEMMA SeenIsFinal ==
  ASSUME TypeOK, Shape, [Next]_vars, NEW c \in Calls, pc[c] # "preflight"
  PROVE  seen'[c] = seen[c]
BY ResultSteps DEF Inspect

LEMMA ClearedNext ==
  ASSUME TypeOK, Shape, Cleared, [Next]_vars
  PROVE  Cleared'
<1> SUFFICES ASSUME NEW c \in Calls, pc'[c] \in Loop PROVE ~Blocked(c)'
  BY DEF Cleared
<1>1. CASE pc[c] \in Loop
  <2>1. seen'[c] = seen[c]
    BY <1>1, SeenIsFinal DEF Loop
  <2> QED BY <1>1, <2>1 DEF Cleared, Blocked
<1>2. CASE Proceed(c)
  BY <1>2 DEF Proceed, Blocked
<1> QED BY <1>1, <1>2, LoopSteps

LEMMA SkipsNext ==
  ASSUME TypeOK, Shape, SkipsSeen, [Next]_vars
  PROVE  SkipsSeen'
<1> SUFFICES ASSUME NEW c \in Calls, NEW i \in 1 .. Len(effects'[c]),
                    effects'[c][i] = "already_applied"
             PROVE  i \in 1 .. Len(seen'[c]) /\ seen'[c][i] = "equivalent"
  BY DEF SkipsSeen
<1>1. Told(c, i)
  BY EffectSteps DEF EffectsTold
<1>2. CASE seen'[c] = seen[c]
  <2>1. CASE Untouched(c, i)
    BY <1>2, <2>1 DEF Untouched, SkipsSeen
  <2>2. CASE JustSkipped(c, i) \/ FromPreflight(c, i)
    BY <1>2, <2>2 DEF JustSkipped, FromPreflight, StatusFromInspection
  <2> QED BY <1>1, <2>1, <2>2 DEF Told, JustApplied, JustUnknown, JustFailed
<1>3. CASE Inspect(c)
  <2>1. effects[c] = <<>> /\ effects'[c] = effects[c]
    BY <1>3 DEF Inspect, Shape, EffectsShape
  <2> QED BY <2>1
<1> QED BY <1>2, <1>3, ResultSteps

LEMMA InOrderStays ==
  ASSUME TypeOK, Shape, [Next]_vars, NEW c \in Calls, NEW j \in Nat, InOrder(c, j)
  PROVE  InOrder(c, j)'
<1>1. /\ pc[c] \notin {"idle", "preflight"} /\ pc'[c] \notin {"idle", "preflight"}
      /\ seen'[c] = seen[c]
  BY LoopSteps, SeenIsFinal DEF InOrder
<1>2. /\ Len(effects[c]) \in Nat /\ Len(effects'[c]) \in Nat
      /\ Len(effects[c]) <= Len(effects'[c])
      /\ \A i \in 1 .. Len(effects'[c]) : Told(c, i)
  BY EffectSteps, TypeNext, LenProperties DEF EffectsTold, TypeOK
<1>3. ASSUME NEW i \in 1 .. j - 1
      PROVE  i <= Len(effects'[c]) /\ effects'[c][i] = effects[c][i]
  <2>1. i <= Len(effects[c]) /\ i \in Nat /\ i >= 1
    BY DEF InOrder
  <2>2. i \in 1 .. Len(effects'[c]) /\ i < Position(c)
    BY <1>2, <2>1 DEF Position
  <2>3. Untouched(c, i)
    BY <1>1, <1>2, <2>2 DEF Told, JustApplied, JustSkipped, JustUnknown, JustFailed,
                            FromPreflight, Position
  <2> QED BY <2>2, <2>3 DEF Untouched
<1> QED BY <1>1, <1>3 DEF InOrder, Blocked, Positions, PlanLength

LEMMA OrderNext ==
  ASSUME TypeOK, Shape, Cleared, SkipsSeen, SentInOrder, [Next]_vars
  PROVE  SentInOrder'
<1>1. ASSUME NEW c \in Calls, Posting(c)
      PROVE  InOrder(c, Position(c))
  <2>1. /\ pc[c] = "applying" /\ seen[c][Position(c)] = "absent"
        /\ Position(c) \in Positions(c)
    BY <1>1, RequestType DEF Posting
  <2>2. Len(seen[c]) = PlanLength(c) /\ ~Blocked(c)
    BY <2>1 DEF Shape, PreflightShape, Cleared, Loop
  <2>3. ASSUME NEW i \in 1 .. Position(c) - 1
        PROVE  i <= Len(effects[c]) /\ (seen[c][i] = "absent" => effects[c][i] = "applied")
    <3>1. i \in 1 .. Len(effects[c]) /\ Len(effects[c]) \in Nat
      BY LenProperties DEF Position, TypeOK
    <3>2. Settled(effects[c][i])
      BY <2>1, <3>1 DEF Shape, EffectsShape
    <3> QED BY <3>1, <3>2 DEF Settled, SkipsSeen
  <2> QED BY <2>1, <2>2, <2>3 DEF InOrder
<1>2. ASSUME NEW c \in Calls, NEW j \in Nat, <<c, j>> \in store' \cup inflight'
      PROVE  InOrder(c, j)'
  <2>1. CASE <<c, j>> \in store \cup inflight
    BY <2>1, InOrderStays DEF SentInOrder
  <2>2. CASE \E d \in Calls : Posting(d) /\ <<c, j>> = Request(d)
    <3>1. Posting(c) /\ j = Position(c)
      BY <2>2 DEF Request
    <3> QED BY <1>1, <3>1, InOrderStays
  <2>3. <<c, j>> \in store \cup inflight \/ \E d \in Calls : Posting(d) /\ <<c, j>> = Request(d)
    BY <1>2, BackendSteps DEF Posting, Post, Commit, Save
  <2> QED BY <2>1, <2>2, <2>3
<1> QED BY <1>2 DEF SentInOrder

LEMMA OrderAlways == Spec => []SentInOrder
<1>1. Init => Cleared /\ SkipsSeen /\ SentInOrder
  <2> SUFFICES ASSUME Init PROVE Cleared /\ SkipsSeen /\ SentInOrder
    OBVIOUS
  <2>1. store = {} /\ inflight = {} /\ \A c \in Calls : effects[c] = <<>> /\ 1 .. Len(<<>>) = {}
    BY DEF Init, BackendInit
  <2>2. \A c \in Calls : pc[c] = "idle"
    BY DEF Init
  <2> QED BY <2>1, <2>2 DEF Cleared, Loop, SkipsSeen, SentInOrder
<1>2. TypeOK /\ Shape /\ Cleared /\ SkipsSeen /\ SentInOrder /\ [Next]_vars
        => (Cleared /\ SkipsSeen /\ SentInOrder)'
  BY ClearedNext, SkipsNext, OrderNext
<1> QED BY <1>1, <1>2, TypeCorrect, PTL DEF Spec

\* Whatever a call has saved or sent, its preflight saw every mutation of the
\* proposal absent or equivalent, this one absent, and all that was absent
\* before it is saved, by this very call.
AdmitsAPrefix ==
  \A c \in Calls, j \in Nat : <<c, j>> \in store \cup inflight =>
    /\ \A i \in Positions(c) : seen[c][i] \in {"absent", "equivalent"}
    /\ seen[c][j] = "absent"
    /\ \A i \in 1 .. j - 1 : seen[c][i] = "absent" => <<c, i>> \in store

\* An execution adds a prefix of what its preflight found missing, in the order
\* of the plan, and nothing where one mutation clashes or cannot be read: what
\* execute_authorized_proposal leaves behind wherever it stops or is killed.
THEOREM ExecutionsAdmitAPrefix ==
  Fenced /\ RecordsAreDistinct /\ ProjectionsReferToEvents
    => (Spec => []AdmitsAPrefix)
<1> SUFFICES ASSUME Fenced, RecordsAreDistinct, ProjectionsReferToEvents
             PROVE  Spec => []AdmitsAPrefix
  OBVIOUS
<1>1. TypeOK /\ SentInOrder /\ AppliedIsOwnWrite => AdmitsAPrefix
  <2> SUFFICES ASSUME TypeOK, SentInOrder, AppliedIsOwnWrite, NEW c \in Calls, NEW j \in Nat,
                      <<c, j>> \in store \cup inflight
               PROVE  /\ \A i \in Positions(c) : seen[c][i] \in {"absent", "equivalent"}
                      /\ seen[c][j] = "absent"
                      /\ \A i \in 1 .. j - 1 : seen[c][i] = "absent" => <<c, i>> \in store
    BY DEF AdmitsAPrefix
  <2>1. InOrder(c, j)
    BY DEF SentInOrder
  <2>2. ASSUME NEW i \in Positions(c) PROVE seen[c][i] \in {"absent", "equivalent"}
    <3>1. i \in 1 .. Len(seen[c]) /\ ~Blocks(seen[c][i])
      BY <2>1 DEF InOrder, Blocked, Positions, PlanLength
    <3>2. seen[c][i] \in InspectionStates
      BY <3>1 DEF TypeOK
    <3> QED BY <3>1, <3>2 DEF Blocks, InspectionStates
  <2>3. ASSUME NEW i \in 1 .. j - 1, seen[c][i] = "absent" PROVE <<c, i>> \in store
    <3>1. i \in 1 .. Len(effects[c]) /\ effects[c][i] = "applied"
      BY <2>1, <2>3, LenProperties DEF InOrder, TypeOK
    <3> QED BY <3>1 DEF AppliedIsOwnWrite
  <2> QED BY <2>1, <2>2, <2>3 DEF InOrder
<1> QED BY <1>1, OrderAlways, CleanAlways, TypeCorrect, PTL

-------------------------------------------------------------------------------

\* Equivalence, once found, is found for ever after.
Canonical(c, i) == InspectionState(PlannedMutation(c, i)) = "equivalent"

CanonicalEffects ==
  \A c \in Calls :
    /\ \A i \in 1 .. Len(seen[c]) : seen[c][i] = "equivalent" => Canonical(c, i)
    /\ \A i \in 1 .. Len(effects[c]) : Settled(effects[c][i]) => Canonical(c, i)

LEMMA EquivalentIsCanonical ==
  ASSUME NEW m, "equivalent" \in Inspections(m)
  PROVE  InspectionState(m) = "equivalent"
BY DEF Inspections

LEMMA CanonicalStays ==
  ASSUME store \subseteq store', OneItemPerRecord', NEW m,
         InspectionState(m) = "equivalent"
  PROVE  InspectionState(m)' = "equivalent"
<1>1. ASSUME NEW k, NEW a \in store, Matches(k) = {a}
      PROVE  Matches(k)' = {a}
  <2>1. a \in Matches(k)'
    BY <1>1 DEF Matches, MutationOf, PlannedMutation
  <2>2. \A b \in Matches(k)' : b = a
    BY <2>1 DEF Matches, OneItemPerRecord, MutationOf, PlannedMutation
  <2> QED BY <2>1, <2>2
<1>2. ASSUME NEW k, NEW d, Observed(k, d) = "equivalent"
      PROVE  Observed(k, d)' = "equivalent"
  <2>1. PICK a \in store : Matches(k) = {a} /\ MutationOf(a).payload = d
    BY <1>2 DEF Observed
  <2>2. Matches(k)' = {a} /\ a \in store' /\ MutationOf(a)' = MutationOf(a)
    BY <1>1, <2>1 DEF MutationOf, PlannedMutation
  <2> QED BY <2>1, <2>2 DEF Observed
<1>3. ASSUME NEW r, Resolved(r)
      PROVE  Resolved(r)'
  BY <1>1, <1>3 DEF Resolved
<1>4. /\ Observed(Key(m), m.payload) = "equivalent"
      /\ m.kind \in {"claim", "entity_update"} => Resolved(m.base.record)
      /\ m.kind = "event_update" =>
           BaseObserved(m) = "equivalent"
  BY DEF InspectionState
<1> QED BY <1>2, <1>3, <1>4 DEF InspectionState, BaseObserved

LEMMA CanonicalNext ==
  ASSUME TypeOK, Shape, OneItemPerRecord', CanonicalEffects, [Next]_vars
  PROVE  CanonicalEffects'
<1> SUFFICES ASSUME NEW c \in Calls
             PROVE  /\ \A i \in 1 .. Len(seen'[c]) :
                          seen'[c][i] = "equivalent" => Canonical(c, i)'
                    /\ \A i \in 1 .. Len(effects'[c]) :
                          Settled(effects'[c][i]) => Canonical(c, i)'
  BY DEF CanonicalEffects
<1>1. \A i : Canonical(c, i) => Canonical(c, i)'
  BY StoreGrows, CanonicalStays DEF Canonical
<1>2. ASSUME NEW i \in 1 .. Len(effects'[c]), Settled(effects'[c][i])
      PROVE  Canonical(c, i)
  <2>1. Told(c, i)
    BY EffectSteps DEF EffectsTold
  <2>2. CASE Untouched(c, i)
    BY <1>2, <2>2 DEF Untouched, CanonicalEffects
  <2>3. CASE JustApplied(c, i)
    BY <2>3, EquivalentIsCanonical DEF JustApplied, Current, Canonical
  <2>4. CASE JustSkipped(c, i)
    BY <2>4 DEF JustSkipped, CanonicalEffects
  <2>5. CASE FromPreflight(c, i)
    BY <1>2, <2>5
    DEF FromPreflight, StatusFromInspection, Settled, CanonicalEffects
  <2> QED
    BY <1>2, <2>1, <2>2, <2>3, <2>4, <2>5
    DEF Told, JustUnknown, JustFailed, Settled
<1>3. ASSUME NEW i \in 1 .. Len(seen'[c]), seen'[c][i] = "equivalent"
      PROVE  Canonical(c, i)
  <2>1. CASE seen'[c] = seen[c]
    BY <1>3, <2>1 DEF CanonicalEffects
  <2>2. CASE Inspect(c)
    <3> DEFINE n == Len(seen[c]) + 1
    <3>1. PICK s \in Inspections(PlannedMutation(c, n)) :
            seen' = [seen EXCEPT ![c] = Append(@, s)]
      BY <2>2 DEF Inspect
    <3>2. /\ seen'[c] = Append(seen[c], s) /\ seen[c] \in Seq(InspectionStates)
          /\ s \in InspectionStates
      BY <3>1, InspectionType DEF TypeOK
    <3>3. /\ Len(seen'[c]) = n /\ Len(seen[c]) \in Nat
          /\ \A j \in 1 .. n : seen'[c][j] = IF j = n THEN s ELSE seen[c][j]
      BY <3>2, AppendProperties, LenProperties
    <3>4. CASE i = n
      <4>1. "equivalent" \in Inspections(PlannedMutation(c, n))
        BY <1>3, <3>1, <3>3, <3>4
      <4> QED BY <3>4, <4>1, EquivalentIsCanonical DEF Canonical
    <3>5. CASE i # n
      <4>1. i \in 1 .. Len(seen[c]) /\ seen[c][i] = "equivalent"
        BY <1>3, <3>3, <3>5
      <4> QED BY <4>1 DEF CanonicalEffects
    <3> QED BY <3>4, <3>5
  <2> QED BY <2>1, <2>2, ResultSteps
<1> QED BY <1>1, <1>2, <1>3

LEMMA CanonicalAlways ==
  ASSUME Fenced, RecordsAreDistinct, ProjectionsReferToEvents
  PROVE  Spec => []CanonicalEffects
<1>1. Init => CanonicalEffects
  <2> SUFFICES ASSUME Init, NEW c \in Calls
               PROVE  1 .. Len(seen[c]) = {} /\ 1 .. Len(effects[c]) = {}
    BY DEF CanonicalEffects
  <2> QED BY DEF Init
<1>2. /\ TypeOK /\ Shape /\ OneItemPerRecord' /\ CanonicalEffects /\ [Next]_vars
      => CanonicalEffects'
  BY CanonicalNext
<1> QED BY <1>1, <1>2, CleanAlways, TypeCorrect, PTL DEF Spec

\* An execution that reported "converged" stays true for ever: the backend
\* goes on answering "equivalent" for every mutation of its proposal.
THEOREM ConvergedStays ==
  Fenced /\ RecordsAreDistinct /\ ProjectionsReferToEvents
    => (Spec => []ConvergedStaysCanonical)
<1> SUFFICES ASSUME Fenced, RecordsAreDistinct, ProjectionsReferToEvents
             PROVE  Spec => []ConvergedStaysCanonical
  OBVIOUS
<1>1. TypeOK /\ Shape /\ CanonicalEffects => ConvergedStaysCanonical
  BY DEF Shape, ResultShape, CanonicalEffects, Canonical,
         ConvergedStaysCanonical, Positions, PlanLength
<1> QED BY <1>1, CanonicalAlways, TypeCorrect, PTL

-------------------------------------------------------------------------------

\* What the refinement mapping shows of the store.
ViewIsStore ==
  /\ \A a \in store : LedgerView[Key(MutationOf(a))] = MutationOf(a).payload
  /\ \A k \in Keys : Matches(k) = {} => LedgerView[k] = NoPayload

LEMMA ViewOfStore == TypeOK /\ OneItemPerRecord => ViewIsStore
<1> SUFFICES ASSUME TypeOK, OneItemPerRecord PROVE ViewIsStore
  OBVIOUS
<1>1. ASSUME NEW a \in store
      PROVE  LedgerView[Key(MutationOf(a))] = MutationOf(a).payload
  <2> DEFINE k == Key(MutationOf(a))
  <2>1. k \in Keys
    BY RequestIsMutation DEF TypeOK
  <2>2. Matches(k) # {}
    BY DEF Matches
  <2>3. (CHOOSE b \in store : Key(MutationOf(b)) = k) = a
    BY DEF OneItemPerRecord
  <2> HIDE DEF k
  <2>4. LedgerView[k] = MutationOf(CHOOSE b \in store : Key(MutationOf(b)) = k).payload
    BY <2>1, <2>2 DEF LedgerView
  <2> QED BY <2>3, <2>4 DEF k
<1>2. ASSUME NEW k \in Keys, Matches(k) = {}
      PROVE  LedgerView[k] = NoPayload
  BY <1>2 DEF LedgerView
<1> QED BY <1>1, <1>2 DEF ViewIsStore

LEMMA ViewFrame ==
  ASSUME store' = store
  PROVE  LedgerView' = LedgerView
BY DEF LedgerView, Matches, MutationOf, PlannedMutation

\* The ledger and the backend find a record by the same key.
LEMMA LedgerKeys ==
  /\ \A m : Ledger!Key(m) = Key(m)
  /\ \A r : Ledger!ItemKey(r) = ItemKey(r)
  /\ Ledger!Keys = Keys
BY DEF Ledger!Key, Key, Ledger!ItemKey, ItemKey, Ledger!Keys, Keys

\* A save admits the record of its mutation.
LEMMA CommitAdmits ==
  ASSUME TypeOK, Grounded, SavedOrSent, OneItemPerRecord', ViewIsStore,
         ViewIsStore', NEW a \in inflight, Commit(a)
  PROVE  \E p \in Proposals : \E i \in 1 .. Len(Plan[p]) : Ledger!Admit(Plan[p][i])
<1> DEFINE m == MutationOf(a)
<1>1. store' = store \cup {a} /\ revisions' = revisions /\ a \notin store
  BY DEF Commit, Save, guardVars, SavedOrSent
<1>2. m \in Mutation /\ a \in Requests
  BY RequestIsMutation DEF TypeOK
<1>3. PICK p \in Proposals : \E i \in 1 .. Len(Plan[p]) : m = Plan[p][i]
  BY <1>2, RequestIsMutation
<1>4. /\ m.record \notin Seeded /\ Key(m) \in Keys
      /\ m.refs \subseteq Records
  BY <1>2, <1>3, RequestIsMutation, PlansAssumption DEF Mutation
<1>5. Matches(Key(m)) = {}
  BY <1>1 DEF Matches, OneItemPerRecord, MutationOf, PlannedMutation
<1>6. LedgerView[Key(m)] = NoPayload
  BY <1>4, <1>5 DEF ViewIsStore
<1>7. ASSUME NEW r \in m.refs
      PROVE  Ledger!Admitted(r)
  <2>1. ~Missing(r)
    BY DEF Grounded
  <2>2. CASE r \in Seeded
    BY <2>2 DEF Ledger!Admitted
  <2>3. CASE Matches(ItemKey(r)) # {}
    <3>1. PICK b \in store : Key(MutationOf(b)) = ItemKey(r)
      BY <2>3 DEF Matches
    <3>2. LedgerView[ItemKey(r)] = MutationOf(b).payload /\ MutationOf(b).payload \in Payloads
      BY <3>1, RequestIsMutation DEF ViewIsStore, TypeOK, Mutation
    <3> QED BY <3>2, NoPayloadAssumption, LedgerKeys DEF Ledger!Admitted
  <2> QED BY <2>1, <2>2, <2>3 DEF Missing
<1>8. LedgerView' = [LedgerView EXCEPT ![Key(m)] = m.payload]
  <2>1. ASSUME NEW k \in Keys
        PROVE  LedgerView'[k] = IF k = Key(m) THEN m.payload ELSE LedgerView[k]
    <3>1. CASE k = Key(m)
      BY <1>1, <3>1 DEF ViewIsStore, MutationOf, PlannedMutation
    <3>2. CASE k # Key(m) /\ Matches(k) = {}
      <4>1. Matches(k)' = {}
        BY <1>1, <3>2 DEF Matches, MutationOf, PlannedMutation
      <4> QED BY <3>2, <4>1 DEF ViewIsStore
    <3>3. CASE k # Key(m) /\ Matches(k) # {}
      <4>1. PICK b \in store : Key(MutationOf(b)) = k
        BY <3>3 DEF Matches
      <4>2. b \in store' /\ MutationOf(b)' = MutationOf(b)
        BY <1>1 DEF MutationOf, PlannedMutation
      <4> QED BY <3>3, <4>1, <4>2 DEF ViewIsStore
    <3> QED BY <3>1, <3>2, <3>3
  <2> DEFINE payloadIn == [k \in Keys |-> LedgerView[k]]
  <2>2. LedgerView = payloadIn
    BY DEF LedgerView
  <2>3. LedgerView' = [k \in Keys |-> LedgerView'[k]]
    BY DEF LedgerView
  <2> QED BY <1>4, <2>1, <2>2, <2>3
<1>9. Ledger!Admit(m)
  BY <1>1, <1>4, <1>6, <1>7, <1>8, LedgerKeys DEF Ledger!Admit
<1> HIDE DEF m
<1> QED BY <1>3, <1>9

\* A Revision publishes a proposal that is admitted whole.
LEMMA RecordPublishes ==
  ASSUME TypeOK, Shape, CanonicalEffects, ViewIsStore,
         OneRevisionPerProposal', NEW c \in Calls, RecordRevision(c),
         c \notin revisions
  PROVE  Ledger!Publish(c)
<1>1. /\ store' = store /\ revisions' = revisions \cup {c}
      /\ result[c] = "converged"
  BY DEF RecordRevision, MayBuildRevision, backendVars
<1>2. LedgerView' = LedgerView
  BY <1>1, ViewFrame
<1>3. ASSUME NEW d \in revisions
      PROVE  ProposalOf[d] # ProposalOf[c]
  BY <1>1, <1>3 DEF OneRevisionPerProposal
<1>4. ASSUME NEW i \in 1 .. PlanLength(c)
      PROVE  LedgerView[Key(PlannedMutation(c, i))] = PlannedMutation(c, i).payload
  <2> DEFINE m == PlannedMutation(c, i)
  <2>1. InspectionState(m) = "equivalent"
    BY <1>1 DEF Shape, ResultShape, CanonicalEffects, Canonical
  <2>2. Observed(Key(m), m.payload) = "equivalent"
    BY <2>1 DEF InspectionState
  <2>3. PICK a \in store : Matches(Key(m)) = {a} /\ MutationOf(a).payload = m.payload
    BY <2>2 DEF Observed
  <2>4. Key(MutationOf(a)) = Key(m)
    BY <2>3 DEF Matches
  <2> QED BY <2>3, <2>4 DEF ViewIsStore
<1>5. Ledger!AdmittedWhole(ProposalOf[c])
  BY <1>4, LedgerKeys DEF Ledger!AdmittedWhole, PlannedMutation, PlanLength
<1> QED BY <1>1, <1>2, <1>3, <1>5 DEF Ledger!Publish

LEMMA RevisionSteps ==
  ASSUME [Next]_vars
  PROVE  \/ revisions' = revisions
         \/ \E c \in Calls : RecordRevision(c)
<1>1. ASSUME NEW c \in Calls, CallStep(c)
      PROVE  revisions' = revisions
  BY <1>1 DEF CallStep, Inspect, Block, Proceed, Skip, Apply, ReplyOk,
              ReplyDeclined, ReplyLost, ReplyGarbled, Reconcile, Converge, Return
<1>2. ASSUME NEW c \in Calls, CallerStep(c) \/ Interrupt(c) \/ Crash(c)
      PROVE  revisions' = revisions \/ RecordRevision(c)
  BY <1>2 DEF CallerStep, Acquire, Refuse, StartDirect, RefuseRevision,
              Interrupt, Crash
<1>3. ASSUME NEW a \in inflight, Commit(a)
      PROVE  revisions' = revisions
  BY <1>3 DEF Commit, guardVars
<1> QED BY <1>1, <1>2, <1>3 DEF Next, vars

LEMMA StepIsLedgerStep ==
  ASSUME TypeOK, Shape, Grounded, SavedOrSent, CanonicalEffects, ViewIsStore,
         ViewIsStore', OneItemPerRecord', OneRevisionPerProposal', [Next]_vars
  PROVE  [Ledger!LedgerNext]_<<LedgerView, revisions>>
<1>1. ASSUME NEW a \in inflight, Commit(a)
      PROVE  Ledger!LedgerNext
  BY <1>1, CommitAdmits DEF Ledger!LedgerNext
<1>2. ASSUME NEW c \in Calls, RecordRevision(c), c \notin revisions
      PROVE  Ledger!LedgerNext
  BY <1>2, RecordPublishes DEF Ledger!LedgerNext
<1>3. CASE store' = store /\ revisions' = revisions
  BY <1>3, ViewFrame
<1>4. ASSUME NEW c \in Calls, RecordRevision(c), c \in revisions
      PROVE  store' = store /\ revisions' = revisions
  BY <1>4 DEF RecordRevision, backendVars
<1>5. CASE store' = store
  BY <1>2, <1>3, <1>4, <1>5, RevisionSteps
<1> QED BY <1>1, <1>5, StoreSteps

\* Dispatched execution implements the canonical ledger, for any calls and
\* plans and whatever fails: every save admits a record that was not there,
\* after those it refers to, every Revision publishes a proposal that is
\* admitted whole and has none, and nothing else that happens shows.
THEOREM ExecutionImplementsLedger ==
  Fenced /\ RecordsAreDistinct /\ ProjectionsReferToEvents
    => (Spec => ImplementsLedger)
<1> SUFFICES ASSUME Fenced, RecordsAreDistinct, ProjectionsReferToEvents
             PROVE  Spec => ImplementsLedger
  OBVIOUS
<1>1. Init => Ledger!LedgerInit
  BY LedgerKeys DEF Init, BackendInit, Ledger!LedgerInit, LedgerView, Matches
<1>2. /\ TypeOK /\ Shape /\ Grounded /\ SavedOrSent /\ CanonicalEffects
      /\ ViewIsStore /\ ViewIsStore' /\ OneItemPerRecord'
      /\ OneRevisionPerProposal' /\ [Next]_vars
      => [Ledger!LedgerNext]_<<LedgerView, revisions>>
  BY StepIsLedgerStep
<1>3. Spec => []OneRevisionPerProposal
  BY OneRevision DEF Fenced
<1>4. Spec => []ViewIsStore
  BY ViewOfStore, CleanAlways, TypeCorrect, PTL
<1> QED
  BY <1>1, <1>2, <1>3, <1>4, CanonicalAlways, CleanAlways, GroundedAlways,
     SentAlways, TypeCorrect, PTL
  DEF Spec, ImplementsLedger, Ledger!LedgerSpec
===============================================================================
