----------------------------- MODULE RevisionProofs ----------------------------
(***************************************************************************)
(* Theorems about what an execution reports and about the Revisions made   *)
(* of it, for every set of calls, proposals and plans and for every fault. *)
(***************************************************************************)
EXTENDS MutationGuardProofs

\* The item of a mutation is there with the approved payload.
Backed(m) ==
  \E a \in store : /\ Key(MutationOf(a)) = Key(m)
                   /\ MutationOf(a).payload = m.payload

Present(m) ==
  /\ Backed(m)
  /\ m.kind = "event_update" => Matches(ItemKey(m.base.record)) # {}

\* What a call has seen or settled is present; what it applied, it saw absent.
Truthful(c) ==
  /\ \A i \in 1 .. Len(seen[c]) :
        seen[c][i] = "equivalent" => Present(PlannedMutation(c, i))
  /\ \A i \in 1 .. Len(effects[c]) :
        Settled(effects[c][i]) => Present(PlannedMutation(c, i))
  /\ \A i \in 1 .. Len(effects[c]) :
        effects[c][i] = "applied" => seen[c][i] = "absent"

AllTruthful == \A c \in Calls : Truthful(c)

-------------------------------------------------------------------------------

\* inspect_effect answers "equivalent" only of a mutation that is present.
LEMMA EquivalentIsPresent ==
  ASSUME NEW m, "equivalent" \in Inspections(m)
  PROVE  Present(m)
<1>1. ASSUME NEW k, NEW d, Observed(k, d) = "equivalent"
      PROVE  \E a \in store : Key(MutationOf(a)) = k /\ MutationOf(a).payload = d
  <2>1. PICK a \in store : Matches(k) = {a} /\ MutationOf(a).payload = d
    BY <1>1 DEF Observed
  <2>2. a \in Matches(k)
    BY <2>1
  <2> QED BY <2>1, <2>2 DEF Matches
<1>2. InspectionState(m) = "equivalent"
  BY DEF Inspections
<1>3. /\ Observed(Key(m), m.payload) = "equivalent"
      /\ m.kind = "event_update" =>
           BaseObserved(m) = "equivalent"
  BY <1>2 DEF InspectionState
<1>4. Backed(m)
  BY <1>1, <1>3 DEF Backed
<1>5. ASSUME m.kind = "event_update" PROVE Matches(ItemKey(m.base.record)) # {}
  BY <1>1, <1>3, <1>5 DEF BaseObserved, Matches
<1> QED BY <1>4, <1>5 DEF Present

\* ... and never "absent" of one that is present.
LEMMA PresentIsNotAbsent ==
  ASSUME NEW m, Present(m)
  PROVE  "absent" \notin Inspections(m)
<1>1. Matches(Key(m)) # {}
  BY DEF Present, Backed, Matches
<1>2. \A k, d : Matches(k) # {} => Observed(k, d) # "absent"
  BY DEF Observed
<1>3. InspectionState(m) # "absent"
  BY <1>1, <1>2 DEF InspectionState, BaseObserved, Present
<1> QED BY <1>3 DEF Inspections

\* The server never forgets an item.
LEMMA StoreGrows == [Next]_vars => store \subseteq store'
<1> SUFFICES ASSUME [Next]_vars PROVE store \subseteq store'
  OBVIOUS
<1>1. ASSUME NEW c \in Calls, CallerStep(c) \/ Interrupt(c) \/ Crash(c)
      PROVE  store' = store
  BY <1>1 DEF CallerStep, Acquire, Refuse, StartDirect, RecordRevision,
              RefuseRevision, Interrupt, Crash, backendVars
<1>2. ASSUME NEW c \in Calls, CallStep(c)
      PROVE  store' = store
  BY <1>2 DEF CallStep, Inspect, Block, Proceed, Skip, Apply, Post, ReplyOk,
              ReplyDeclined, Decline, ReplyLost, ReplyGarbled, Reconcile,
              Converge, Return, backendVars
<1>3. ASSUME NEW a \in inflight, Commit(a)
      PROVE  store \subseteq store'
  BY <1>3 DEF Commit, Save
<1> QED BY <1>1, <1>2, <1>3 DEF Next, vars

LEMMA PresentStays ==
  ASSUME store \subseteq store', NEW m, Present(m)
  PROVE  Present(m)'
<1>1. Backed(m)'
  BY DEF Present, Backed, MutationOf, PlannedMutation
<1>2. ASSUME m.kind = "event_update" PROVE Matches(ItemKey(m.base.record))' # {}
  <2>1. PICK a \in Matches(ItemKey(m.base.record)) : TRUE
    BY <1>2 DEF Present
  <2>2. a \in Matches(ItemKey(m.base.record))'
    BY <2>1 DEF Matches
  <2> QED BY <2>2
<1> QED BY <1>1, <1>2 DEF Present

-------------------------------------------------------------------------------

LEMMA TruthfulFrame ==
  ASSUME NEW c \in Calls, Truthful(c), store \subseteq store',
         seen'[c] = seen[c], effects'[c] = effects[c]
  PROVE  Truthful(c)'
<1>1. \A i : Present(PlannedMutation(c, i)) => Present(PlannedMutation(c, i))'
  BY PresentStays
<1> QED BY <1>1 DEF Truthful

\* The lists of c after a step that ends its loop or settles an effect.
LEMMA TruthfulStop ==
  ASSUME TypeOK, Shape, NEW c \in Calls, Truthful(c), store \subseteq store',
         NEW e \in {"failed", "effect_unknown"}, NEW r,
         pc[c] \in {"applying", "awaiting", "reconciling"}, ~LoopDone(c),
         Stop(c, e, r), UNCHANGED seen
  PROVE  Truthful(c)'
<1>1. /\ PlanLength(c) \in Nat /\ Len(effects[c]) \in Nat
      /\ Positions(c) = 1 .. PlanLength(c) /\ Len(seen[c]) = PlanLength(c)
  BY PlanFacts, LenProperties
  DEF Positions, PlanLength, TypeOK, Shape, PreflightShape
<1>2. /\ effects'[c] = StoppedAt(c, e) /\ seen'[c] = seen[c]
      /\ Len(StoppedAt(c, e)) = PlanLength(c)
  BY StopFacts DEF Stop, TypeOK, EffectStatuses
<1>3. \A i : Present(PlannedMutation(c, i)) => Present(PlannedMutation(c, i))'
  BY PresentStays
<1>4. ASSUME NEW i \in 1 .. PlanLength(c)
      PROVE  /\ Settled(effects'[c][i]) => Present(PlannedMutation(c, i))'
             /\ effects'[c][i] = "applied" => seen'[c][i] = "absent"
  <2>1. effects'[c][i] = IF i < Position(c) THEN effects[c][i]
                         ELSE IF i = Position(c) THEN e
                         ELSE StatusFromInspection(seen[c][i])
    BY <1>1, <1>2, <1>4 DEF StoppedAt
  <2>2. CASE i < Position(c)
    <3>1. i \in 1 .. Len(effects[c])
      BY <1>1, <2>2 DEF Position
    <3> QED BY <1>2, <1>3, <2>1, <2>2, <3>1 DEF Truthful
  <2>3. CASE i = Position(c)
    BY <2>1, <2>3 DEF Settled
  <2>4. CASE ~(i < Position(c)) /\ i # Position(c)
    <3>1. effects'[c][i] = StatusFromInspection(seen[c][i])
      BY <2>1, <2>4
    <3>2. /\ Settled(effects'[c][i]) => seen[c][i] = "equivalent"
          /\ effects'[c][i] # "applied"
      BY <3>1 DEF StatusFromInspection, Blocks, Settled
    <3>3. i \in 1 .. Len(seen[c])
      BY <1>1, <1>4
    <3> QED BY <1>3, <3>2, <3>3 DEF Truthful
  <2> QED BY <2>2, <2>3, <2>4
<1>5. \A i \in 1 .. Len(seen'[c]) :
        seen'[c][i] = "equivalent" => Present(PlannedMutation(c, i))'
  BY <1>2, <1>3 DEF Truthful
<1> QED BY <1>2, <1>4, <1>5 DEF Truthful

LEMMA TruthfulSettle ==
  ASSUME TypeOK, Shape, NEW c \in Calls, Truthful(c), store \subseteq store',
         NEW e \in {"applied", "already_applied"},
         Present(PlannedMutation(c, Position(c))),
         e = "applied" => seen[c][Position(c)] = "absent",
         Settle(c, e), UNCHANGED seen
  PROVE  Truthful(c)'
<1>1. /\ effects'[c] = Append(effects[c], e) /\ seen'[c] = seen[c]
      /\ effects[c] \in Seq(EffectStatuses)
      /\ e \in EffectStatuses
  BY DEF Settle, TypeOK, EffectStatuses
<1>2. /\ Len(effects'[c]) = Len(effects[c]) + 1 /\ Len(effects[c]) \in Nat
      /\ \A i \in 1 .. Len(effects[c]) + 1 :
           effects'[c][i] = IF i = Len(effects[c]) + 1 THEN e ELSE effects[c][i]
  BY <1>1, AppendProperties, LenProperties
<1>3. \A i : Present(PlannedMutation(c, i)) => Present(PlannedMutation(c, i))'
  BY PresentStays
<1>4. ASSUME NEW i \in 1 .. Len(effects'[c])
      PROVE  /\ Settled(effects'[c][i]) => Present(PlannedMutation(c, i))'
             /\ effects'[c][i] = "applied" => seen'[c][i] = "absent"
  <2>1. CASE i = Position(c)
    BY <1>1, <1>2, <1>3, <2>1 DEF Position
  <2>2. CASE i # Position(c)
    <3>1. i \in 1 .. Len(effects[c]) /\ effects'[c][i] = effects[c][i]
      BY <1>2, <2>2 DEF Position
    <3> QED BY <1>1, <1>3, <3>1 DEF Truthful
  <2> QED BY <2>1, <2>2
<1>5. \A i \in 1 .. Len(seen'[c]) :
        seen'[c][i] = "equivalent" => Present(PlannedMutation(c, i))'
  BY <1>1, <1>3 DEF Truthful
<1> QED BY <1>4, <1>5 DEF Truthful

LEMMA TruthfulInspect ==
  ASSUME TypeOK, Shape, NEW c \in Calls, Truthful(c), store \subseteq store',
         Inspect(c)
  PROVE  Truthful(c)'
<1> DEFINE n == Len(seen[c]) + 1
<1>1. PICK s \in Inspections(PlannedMutation(c, n)) :
        seen' = [seen EXCEPT ![c] = Append(@, s)]
  BY DEF Inspect
<1>2. s \in InspectionStates
  BY <1>1, InspectionType
<1>3. /\ seen'[c] = Append(seen[c], s) /\ effects'[c] = effects[c]
      /\ seen[c] \in Seq(InspectionStates)
  BY <1>1 DEF Inspect, TypeOK
<1>4. /\ Len(seen'[c]) = n /\ Len(seen[c]) \in Nat
      /\ \A i \in 1 .. n : seen'[c][i] = IF i = n THEN s ELSE seen[c][i]
  BY <1>2, <1>3, AppendProperties, LenProperties
<1>5. s = "equivalent" => Present(PlannedMutation(c, n))
  BY <1>1, EquivalentIsPresent
<1>6. \A i : Present(PlannedMutation(c, i)) => Present(PlannedMutation(c, i))'
  BY PresentStays
<1>7. ASSUME NEW i \in 1 .. Len(seen'[c]), seen'[c][i] = "equivalent"
      PROVE  Present(PlannedMutation(c, i))'
  <2>1. CASE i = n
    BY <1>4, <1>5, <1>6, <1>7, <2>1
  <2>2. CASE i # n
    <3>1. i \in 1 .. Len(seen[c]) /\ seen'[c][i] = seen[c][i]
      BY <1>4, <2>2
    <3> QED BY <1>6, <1>7, <3>1 DEF Truthful
  <2> QED BY <2>1, <2>2
<1>8. effects[c] = <<>>
  BY DEF Shape, EffectsShape, Inspect
<1> QED BY <1>3, <1>7, <1>8 DEF Truthful

LEMMA TruthfulBlock ==
  ASSUME TypeOK, Shape, NEW c \in Calls, Truthful(c), store \subseteq store',
         Block(c)
  PROVE  Truthful(c)'
<1> DEFINE told == [i \in Positions(c) |-> StatusFromInspection(seen[c][i])]
<1>1. /\ PlanLength(c) \in Nat /\ Positions(c) = 1 .. PlanLength(c)
      /\ Len(seen[c]) = PlanLength(c) /\ seen'[c] = seen[c]
  BY PlanFacts DEF Positions, PlanLength, Block, PreflightDone
<1>2. told \in [1 .. PlanLength(c) -> EffectStatuses] /\ effects'[c] = told
  BY <1>1 DEF StatusFromInspection, EffectStatuses, Blocks, Block, TypeOK
<1>3. Len(effects'[c]) = PlanLength(c)
  BY <1>1, <1>2, SeqDef, LenProperties
<1>4. \A i : Present(PlannedMutation(c, i)) => Present(PlannedMutation(c, i))'
  BY PresentStays
<1>5. ASSUME NEW i \in 1 .. PlanLength(c)
      PROVE  /\ Settled(effects'[c][i]) => Present(PlannedMutation(c, i))'
             /\ effects'[c][i] # "applied"
  <2>1. effects'[c][i] = StatusFromInspection(seen[c][i])
    BY <1>1, <1>2, <1>5
  <2>2. /\ Settled(effects'[c][i]) => seen[c][i] = "equivalent"
        /\ effects'[c][i] # "applied"
    BY <2>1 DEF StatusFromInspection, Blocks, Settled
  <2> QED BY <1>1, <1>4, <1>5, <2>2 DEF Truthful
<1>6. \A i \in 1 .. Len(seen'[c]) :
        seen'[c][i] = "equivalent" => Present(PlannedMutation(c, i))'
  BY <1>1, <1>4 DEF Truthful
<1> QED BY <1>1, <1>3, <1>5, <1>6 DEF Truthful

\* What is written or found for the current mutation of c.
LEMMA TruthfulCallStep ==
  ASSUME TypeOK, Shape, NEW c \in Calls, Truthful(c), store \subseteq store',
         CallStep(c)
  PROVE  Truthful(c)'
<1>1. CASE Inspect(c)
  BY <1>1, TruthfulInspect
<1>2. CASE Block(c)
  BY <1>2, TruthfulBlock
<1>3. CASE Skip(c)
  <2>1. Position(c) \in 1 .. Len(seen[c])
    BY <1>3, RequestType, PlanFacts
    DEF Skip, Positions, PlanLength, Shape, PreflightShape
  <2>2. Present(PlannedMutation(c, Position(c)))
    BY <1>3, <2>1 DEF Skip, Truthful
  <2> QED BY <1>3, <2>2, TruthfulSettle DEF Skip
<1>4. CASE Reconcile(c)
  <2>1. ~LoopDone(c) /\ seen[c][Position(c)] = "absent" /\ UNCHANGED seen
    BY <1>4, NotDone DEF Reconcile
  <2>2. PICK s \in Inspections(Current(c)) :
          \/ s = "equivalent" /\ Settle(c, "applied")
          \/ s # "equivalent" /\ Stop(c, "effect_unknown", "effect_unknown")
    BY <1>4 DEF Reconcile
  <2>3. CASE s = "equivalent" /\ Settle(c, "applied")
    <3>1. Present(PlannedMutation(c, Position(c)))
      BY <2>2, <2>3, EquivalentIsPresent DEF Current
    <3> QED BY <2>1, <2>3, <3>1, TruthfulSettle
  <2>4. CASE Stop(c, "effect_unknown", "effect_unknown")
    BY <1>4, <2>1, <2>4, TruthfulStop DEF Reconcile
  <2> QED BY <2>2, <2>3, <2>4
<1>5. CASE Apply(c) /\ Stop(c, "failed", "failed")
  BY <1>5, TruthfulStop DEF Apply
<1>6. CASE ReplyDeclined(c) \/ ReplyGarbled(c)
  <2>1. /\ pc[c] = "awaiting" /\ Stop(c, "failed", "failed")
        /\ UNCHANGED seen
    BY <1>6 DEF ReplyDeclined, ReplyGarbled
  <2> QED BY <2>1, NotDone, TruthfulStop
<1>7. CASE seen' = seen /\ effects' = effects
  BY <1>7, TruthfulFrame
<1> QED
  BY <1>1, <1>2, <1>3, <1>4, <1>5, <1>6, <1>7
  DEF CallStep, Proceed, Apply, ReplyOk, ReplyLost, Converge, Return

\* The lists of a call only change in its own steps.
LEMMA ListsFrame ==
  ASSUME TypeOK, [Next]_vars, NEW d \in Calls, ~CallStep(d)
  PROVE  seen'[d] = seen[d] /\ effects'[d] = effects[d]
<1>1. ASSUME NEW c \in Calls, CallStep(c)
      PROVE  seen'[d] = seen[d] /\ effects'[d] = effects[d]
  <2>1. c # d
    BY <1>1
  <2>2. CASE Inspect(c) \/ Block(c) \/ Proceed(c) \/ Skip(c) \/ Apply(c)
    BY <2>1, <2>2 DEF Inspect, Block, Proceed, Skip, Apply, Settle, Stop, TypeOK
  <2>3. CASE \/ ReplyOk(c) \/ ReplyDeclined(c) \/ ReplyLost(c)
             \/ ReplyGarbled(c) \/ Reconcile(c) \/ Converge(c) \/ Return(c)
    BY <2>1, <2>3 DEF ReplyOk, ReplyDeclined, ReplyLost, ReplyGarbled, Reconcile,
                      Converge, Return, Settle, Stop, TypeOK
  <2> QED BY <1>1, <2>2, <2>3 DEF CallStep
<1>2. ASSUME NEW c \in Calls, CallerStep(c) \/ Interrupt(c) \/ Crash(c)
      PROVE  seen'[d] = seen[d] /\ effects'[d] = effects[d]
  BY <1>2 DEF CallerStep, Acquire, Refuse, StartDirect, RecordRevision,
              RefuseRevision, Interrupt, Crash
<1>3. ASSUME NEW a \in inflight, Commit(a)
      PROVE  seen'[d] = seen[d] /\ effects'[d] = effects[d]
  BY <1>3 DEF Commit, guardVars
<1> QED BY <1>1, <1>2, <1>3 DEF Next, vars

LEMMA TruthfulAlways == Spec => [](TypeOK /\ Shape /\ AllTruthful)
<1>1. Init => AllTruthful
  <2> SUFFICES ASSUME Init, NEW c \in Calls PROVE Truthful(c)
    BY DEF AllTruthful
  <2>1. seen[c] = <<>> /\ effects[c] = <<>> /\ 1 .. Len(<<>>) = {}
    BY DEF Init
  <2> QED BY <2>1 DEF Truthful
<1>2. TypeOK /\ Shape /\ AllTruthful /\ [Next]_vars => AllTruthful'
  <2> SUFFICES ASSUME TypeOK, Shape, AllTruthful, [Next]_vars, NEW d \in Calls
               PROVE  Truthful(d)'
    BY DEF AllTruthful
  <2>1. store \subseteq store' /\ Truthful(d)
    BY StoreGrows DEF AllTruthful
  <2>2. CASE CallStep(d)
    BY <2>1, <2>2, TruthfulCallStep
  <2>3. CASE ~CallStep(d)
    BY <2>1, <2>3, ListsFrame, TruthfulFrame
  <2> QED BY <2>2, <2>3
<1> QED BY <1>1, <1>2, TypeCorrect, PTL DEF Spec

-------------------------------------------------------------------------------

Converged(c) == result[c] = "converged"

Fresh(c) == \E i \in Positions(c) : effects[c][i] = "applied"

\* What build_revision asks for stays true of the Revisions it made.
RevisionsFollow == \A c \in revisions : Converged(c) /\ Fresh(c)

\* Of two executions of a proposal, the one that runs after the other has
\* converged sees nothing absent, so they did not both apply something.
LaterSeesAll ==
  \A c, d \in Calls :
     c # d /\ ProposalOf[c] = ProposalOf[d] /\ Converged(c) =>
        /\ pc[d] \in Active => \A i \in 1 .. Len(seen[d]) : seen[d][i] # "absent"
        /\ Converged(d) => ~(Fresh(c) /\ Fresh(d))

\* A convergent execution found everything it was to write.
LEMMA ConvergedIsPresent ==
  ASSUME TypeOK, Shape, AllTruthful, NEW c \in Calls, Converged(c)
  PROVE  \A i \in Positions(c) : Present(PlannedMutation(c, i))
<1>1. /\ Truthful(c) /\ ResultShape(c) /\ Positions(c) = 1 .. PlanLength(c)
  BY DEF AllTruthful, Shape, Positions, PlanLength
<1> QED BY <1>1 DEF Truthful, ResultShape, Converged

\* What a step can do to the result of a call and to its place.
LEMMA ResultSteps ==
  ASSUME TypeOK, Shape, [Next]_vars, NEW d \in Calls
  PROVE  /\ Converged(d)' => Converged(d) \/ Converge(d)
         /\ Converged(d) => Converged(d)' /\ effects'[d] = effects[d]
         /\ pc'[d] \in Active =>
              pc[d] \in Active \/ (pc[d] = "idle" /\ seen'[d] = seen[d])
         /\ seen'[d] = seen[d] \/ Inspect(d)
<1>1. ASSUME NEW c \in Calls, CallStep(c)
      PROVE  /\ Converged(d)' => Converged(d) \/ Converge(d)
             /\ Converged(d) => Converged(d)' /\ effects'[d] = effects[d]
             /\ pc'[d] \in Active => pc[d] \in Active
             /\ seen'[d] = seen[d] \/ Inspect(d)
  <2>0. ResultShape(d)
    BY DEF Shape
  <2>1. CASE Inspect(c) \/ Proceed(c) \/ ReplyOk(c) \/ ReplyLost(c) \/ Return(c)
    BY <2>1 DEF Inspect, Proceed, PreflightDone, ReplyOk, ReplyLost, Return, Go,
                TypeOK, Converged, Active, Working
  <2>2. CASE Block(c) \/ ReplyDeclined(c) \/ ReplyGarbled(c)
    BY <2>0, <2>2 DEF Block, PreflightDone, ReplyDeclined, ReplyGarbled, Stop, Go,
                TypeOK, Converged, Active, Working, ResultShape
  <2>3. CASE Skip(c) \/ Apply(c) \/ Reconcile(c)
    BY <2>0, <2>3 DEF Skip, Apply, Reconcile, Settle, Stop, Go, TypeOK, Converged,
                Active, Working, ResultShape
  <2>4. CASE Converge(c)
    BY <2>4 DEF Converge, Go, TypeOK, Converged, Active, Working
  <2> QED BY <1>1, <2>1, <2>2, <2>3, <2>4 DEF CallStep
<1>2. ASSUME NEW c \in Calls, CallerStep(c) \/ Interrupt(c) \/ Crash(c)
      PROVE  /\ Converged(d)' <=> Converged(d)
             /\ effects'[d] = effects[d] /\ seen'[d] = seen[d]
             /\ pc'[d] \in Active => pc[d] \in Active \/ pc[d] = "idle"
  <2> ResultShape(d)
    BY DEF Shape
  <2> QED
    BY <1>2 DEF CallerStep, Acquire, Refuse, StartDirect, RecordRevision,
                RefuseRevision, Interrupt, Crash, Go, TypeOK, Converged, Active,
                Working, ResultShape
<1>3. ASSUME NEW a \in inflight, Commit(a)
      PROVE  /\ result'[d] = result[d] /\ effects'[d] = effects[d]
             /\ seen'[d] = seen[d] /\ pc'[d] = pc[d]
  BY <1>3 DEF Commit, guardVars
<1>4. CASE UNCHANGED vars
  BY <1>4 DEF vars, Converged
<1> QED BY <1>1, <1>2, <1>3, <1>4 DEF Next, Converged

\* What the second of two executions sees, a step later.
LEMMA LaterInspects ==
  ASSUME TypeOK, Shape, AllTruthful, [Next]_vars, LaterSeesAll,
         NEW c \in Calls, NEW d \in Calls, c # d,
         ProposalOf[c] = ProposalOf[d], Converged(c), pc'[d] \in Active
  PROVE  \A i \in 1 .. Len(seen'[d]) : seen'[d][i] # "absent"
<1>1. CASE pc[d] = "idle" /\ seen'[d] = seen[d]
  <2>1. seen'[d] = <<>> /\ 1 .. Len(<<>>) = {}
    BY <1>1 DEF Shape, PreflightShape
  <2> QED BY <2>1
<1>2. CASE pc[d] \in Active /\ seen'[d] = seen[d]
  BY <1>2 DEF LaterSeesAll
<1>3. CASE pc[d] \in Active /\ Inspect(d)
  <2> DEFINE n == Len(seen[d]) + 1
  <2>1. PICK s \in Inspections(PlannedMutation(d, n)) :
          seen' = [seen EXCEPT ![d] = Append(@, s)]
    BY <1>3 DEF Inspect
  <2>2. /\ Len(seen[d]) \in Nat /\ PlanLength(d) \in Nat
        /\ Len(seen[d]) < PlanLength(d)
    BY <1>3, PlanFacts, LenProperties DEF Inspect, TypeOK, PlanLength
  <2>3. n \in Positions(c) /\ PlannedMutation(d, n) = PlannedMutation(c, n)
    BY <2>2 DEF Positions, PlanLength, PlannedMutation
  <2>4. s # "absent"
    BY <2>1, <2>3, ConvergedIsPresent, PresentIsNotAbsent
  <2>5. /\ seen'[d] = Append(seen[d], s) /\ seen[d] \in Seq(InspectionStates)
        /\ s \in InspectionStates
    BY <2>1, InspectionType DEF TypeOK
  <2>6. /\ Len(seen'[d]) = n
        /\ \A i \in 1 .. n : seen'[d][i] = IF i = n THEN s ELSE seen[d][i]
    BY <2>2, <2>5, AppendProperties, LenProperties
  <2>7. \A i \in 1 .. Len(seen[d]) : seen[d][i] # "absent"
    BY <1>3 DEF LaterSeesAll
  <2> QED
    <3> SUFFICES ASSUME NEW i \in 1 .. n PROVE seen'[d][i] # "absent"
      BY <2>6
    <3>1. CASE i = n
      BY <2>4, <2>6, <3>1
    <3>2. CASE i # n
      BY <2>2, <2>6, <2>7, <3>2
    <3> QED BY <3>1, <3>2
<1> QED BY <1>1, <1>2, <1>3, ResultSteps

\* An execution that converges having seen nothing absent applied nothing.
LEMMA NothingAbsentNothingApplied ==
  ASSUME TypeOK, Shape, AllTruthful, NEW c \in Calls, Converge(c),
         \A i \in 1 .. Len(seen[c]) : seen[c][i] # "absent"
  PROVE  ~Fresh(c)'
<1>1. /\ effects' = effects /\ Len(seen[c]) = PlanLength(c)
      /\ Len(effects[c]) = PlanLength(c) /\ Positions(c) = 1 .. PlanLength(c)
  BY DEF Converge, LoopDone, Shape, PreflightShape, PlanLength, Positions
<1>2. \A i \in Positions(c) : effects[c][i] # "applied"
  BY <1>1 DEF AllTruthful, Truthful
<1> QED BY <1>1, <1>2 DEF Fresh, Positions

LEMMA LaterNext ==
  ASSUME Dispatched = Calls, TypeOK, Shape, AllTruthful, HoldsPermit,
         HoldsPermit', LaterSeesAll, [Next]_vars
  PROVE  LaterSeesAll'
<1> SUFFICES ASSUME NEW c \in Calls, NEW d \in Calls, c # d,
                    ProposalOf[c] = ProposalOf[d], Converged(c)'
             PROVE  /\ pc'[d] \in Active =>
                         \A i \in 1 .. Len(seen'[d]) : seen'[d][i] # "absent"
                    /\ Converged(d)' => ~(Fresh(c)' /\ Fresh(d)')
  BY DEF LaterSeesAll
<1>1. \A e \in Calls : effects'[e] = effects[e] => (Fresh(e)' <=> Fresh(e))
  BY DEF Fresh, Positions
<1>2. ASSUME NEW e \in Calls, Converge(e)
      PROVE  pc[e] \in Active /\ pc'[e] \in Active
  BY <1>2 DEF Converge, Go, TypeOK, Active, Working
<1>3. CASE Converged(c)
  <2>1. pc'[d] \in Active =>
          \A i \in 1 .. Len(seen'[d]) : seen'[d][i] # "absent"
    BY <1>3, LaterInspects
  <2>2. CASE Converged(d)
    <3>1. effects'[c] = effects[c] /\ effects'[d] = effects[d]
      BY <1>3, <2>2, ResultSteps
    <3> QED BY <1>1, <1>3, <2>1, <2>2, <3>1 DEF LaterSeesAll
  <2>3. CASE Converge(d)
    <3>1. \A i \in 1 .. Len(seen[d]) : seen[d][i] # "absent"
      BY <1>2, <1>3, <2>3 DEF LaterSeesAll
    <3> QED BY <2>1, <2>3, <3>1, NothingAbsentNothingApplied
  <2> QED BY <2>1, <2>2, <2>3, ResultSteps
<1>4. CASE Converge(c)
  <2>1. lane = c /\ lane' = c
    BY <1>2, <1>4 DEF HoldsPermit
  <2>2. pc'[d] \notin Active /\ ~Converge(d)
    BY <1>2, <2>1 DEF HoldsPermit
  <2>3. ASSUME Converged(d)' PROVE ~Fresh(c)'
    <3>1. Converged(d)
      BY <2>2, <2>3, ResultSteps
    <3>2. \A i \in 1 .. Len(seen[c]) : seen[c][i] # "absent"
      BY <1>2, <1>4, <3>1 DEF LaterSeesAll
    <3> QED BY <1>4, <3>2, NothingAbsentNothingApplied
  <2> QED BY <2>2, <2>3
<1> QED BY <1>3, <1>4, ResultSteps

LEMMA FollowNext ==
  ASSUME TypeOK, Shape, RevisionsFollow, [Next]_vars
  PROVE  RevisionsFollow'
<1>1. \A c \in Calls : Converged(c) /\ Fresh(c) => Converged(c)' /\ Fresh(c)'
  BY ResultSteps DEF Fresh, Positions
<1>2. ASSUME NEW c \in Calls, RecordRevision(c)
      PROVE  Converged(c)' /\ Fresh(c)' /\ revisions' = revisions \cup {c}
  BY <1>2 DEF RecordRevision, MayBuildRevision, Converged, Fresh, Positions
<1>3. ASSUME ~(\E c \in Calls : RecordRevision(c))
      PROVE  revisions' = revisions
  <2>1. ASSUME NEW c \in Calls, CallStep(c)
        PROVE  revisions' = revisions
    BY <2>1 DEF CallStep, Inspect, Block, Proceed, Skip, Apply, ReplyOk,
                ReplyDeclined, ReplyLost, ReplyGarbled, Reconcile, Converge, Return
  <2>2. ASSUME NEW c \in Calls, CallerStep(c) \/ Interrupt(c) \/ Crash(c)
        PROVE  revisions' = revisions
    BY <1>3, <2>2 DEF CallerStep, Acquire, Refuse, StartDirect, RefuseRevision,
                      Interrupt, Crash
  <2>3. ASSUME NEW a \in inflight, Commit(a)
        PROVE  revisions' = revisions
    BY <2>3 DEF Commit, guardVars
  <2> QED BY <2>1, <2>2, <2>3 DEF Next, vars
<1> QED BY <1>1, <1>2, <1>3 DEF RevisionsFollow, TypeOK

\* A Revision is only of a proposal whose every mutation is in the backend
\* with the approved payload: build_revision on a converged execution.
THEOREM RevisionsBacked == Spec => []RevisionIsBacked
<1>1. Init => RevisionsFollow
  BY DEF Init, RevisionsFollow
<1>2. TypeOK /\ Shape /\ AllTruthful /\ RevisionsFollow => RevisionIsBacked
  BY ConvergedIsPresent
  DEF RevisionsFollow, RevisionIsBacked, Present, Backed, TypeOK
<1>3. TypeOK /\ Shape /\ RevisionsFollow /\ [Next]_vars => RevisionsFollow'
  BY FollowNext
<1> QED BY <1>1, <1>2, <1>3, TruthfulAlways, PTL DEF Spec

\* Where every execution goes through the dispatcher, a proposal never gets
\* two Revisions, whatever is lost, late, unreadable or killed.
THEOREM OneRevision == Dispatched = Calls => (Spec => []OneRevisionPerProposal)
<1> SUFFICES ASSUME Dispatched = Calls PROVE Spec => []OneRevisionPerProposal
  OBVIOUS
<1>1. Init => RevisionsFollow /\ LaterSeesAll
  BY DEF Init, RevisionsFollow, LaterSeesAll, Converged
<1>2. TypeOK /\ RevisionsFollow /\ LaterSeesAll => OneRevisionPerProposal
  BY DEF RevisionsFollow, LaterSeesAll, OneRevisionPerProposal, TypeOK
<1>3. TypeOK /\ Shape /\ RevisionsFollow /\ [Next]_vars => RevisionsFollow'
  BY FollowNext
<1>4. /\ TypeOK /\ Shape /\ AllTruthful /\ HoldsPermit /\ HoldsPermit'
      /\ LaterSeesAll /\ [Next]_vars
      => LaterSeesAll'
  BY LaterNext
<1> QED
  BY <1>1, <1>2, <1>3, <1>4, TruthfulAlways, PermitAlways, PTL DEF Spec

-------------------------------------------------------------------------------

\* What is saved or on its way refers to what is there.
Grounded ==
  \A a \in store \cup inflight : \A r \in MutationOf(a).refs : ~Missing(r)

\* What a step can add to the requests on their way.
LEMMA Posts ==
  ASSUME [Next]_vars
  PROVE  \A a \in store' \cup inflight' :
            \/ a \in store \cup inflight
            \/ \E c \in Calls : a = Request(c) /\ Resolvable(Current(c))
<1>1. ASSUME NEW c \in Calls, CallerStep(c) \/ Interrupt(c) \/ Crash(c)
      PROVE  store' = store /\ inflight' = inflight
  BY <1>1 DEF CallerStep, Acquire, Refuse, StartDirect, RecordRevision,
              RefuseRevision, Interrupt, Crash, backendVars
<1>2. ASSUME NEW c \in Calls, CallStep(c)
      PROVE  /\ store' = store
             /\ \/ inflight' \subseteq inflight
                \/ /\ inflight' = inflight \cup {Request(c)}
                   /\ Resolvable(Current(c))
  BY <1>2 DEF CallStep, Inspect, Block, Proceed, Skip, Apply, Post, ReplyOk,
              ReplyDeclined, Decline, ReplyLost, ReplyGarbled, Reconcile,
              Converge, Return, backendVars
<1>3. ASSUME NEW a \in inflight, Commit(a)
      PROVE  store' \subseteq store \cup inflight /\ inflight' \subseteq inflight
  BY <1>3 DEF Commit, Save
<1> QED BY <1>1, <1>2, <1>3 DEF Next, vars

LEMMA GroundedAlways == Spec => []Grounded
<1>1. Init => Grounded
  BY DEF Init, BackendInit, Grounded
<1>2. Grounded /\ [Next]_vars => Grounded'
  <2> SUFFICES ASSUME Grounded, [Next]_vars, NEW a \in store' \cup inflight',
                      NEW r \in MutationOf(a).refs
               PROVE  ~Missing(r)'
    BY DEF Grounded, MutationOf, PlannedMutation
  <2>1. ~Missing(r)
    <3>1. CASE a \in store \cup inflight
      BY <3>1 DEF Grounded
    <3>2. ASSUME NEW c \in Calls, a = Request(c), Resolvable(Current(c))
          PROVE  ~Missing(r)
      <4>1. MutationOf(a) = Current(c)
        BY <3>2 DEF MutationOf, Request, Current
      <4>2. Resolved(r)
        BY <3>2, <4>1 DEF Resolvable
      <4> QED BY <4>2 DEF Resolved, Missing
    <3> QED BY <3>1, <3>2, Posts
  <2>2. Matches(ItemKey(r)) \subseteq Matches(ItemKey(r))'
    BY StoreGrows DEF Matches, MutationOf, PlannedMutation
  <2> QED BY <2>1, <2>2 DEF Missing
<1> QED BY <1>1, <1>2, PTL DEF Spec

\* What apply_effect resolved before it posted is there before the item that
\* refers to it, and for ever after.
THEOREM NothingDangles == Spec => []NoDanglingReference
<1>1. Grounded => NoDanglingReference
  BY DEF Grounded, NoDanglingReference
<1> QED BY <1>1, GroundedAlways, PTL
===============================================================================
