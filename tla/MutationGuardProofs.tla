-------------------------- MODULE MutationGuardProofs -------------------------
(***************************************************************************)
(* Theorems about canonical execution for every set of calls, proposals    *)
(* and plans.                                                              *)
(***************************************************************************)
EXTENDS MutationGuard, SequenceTheorems, TLAPS

PlanLength(c) == Len(Plan[ProposalOf[c]])

Settled(s) == s \in {"applied", "already_applied"}

(***************************************************************************)
(* How the four lists of a call fit its place in the executor.             *)
(***************************************************************************)
PreflightShape(c) ==
  /\ Len(seen[c]) <= PlanLength(c)
  /\ pc[c] \in {"idle", "refused"} => seen[c] = <<>>
  /\ pc[c] \in {"applying", "awaiting", "reconciling"} =>
       Len(seen[c]) = PlanLength(c)

EffectsShape(c) ==
  /\ Len(effects[c]) <= PlanLength(c)
  /\ pc[c] \in {"idle", "refused", "preflight"} => effects[c] = <<>>
  /\ pc[c] \in {"applying", "awaiting", "reconciling"} =>
       \A i \in 1 .. Len(effects[c]) : Settled(effects[c][i])
  /\ pc[c] \in {"awaiting", "reconciling"} =>
       /\ Len(effects[c]) < PlanLength(c)
       /\ seen[c][Len(effects[c]) + 1] = "absent"

ResultShape(c) ==
  /\ pc[c] \in Working \cup {"idle", "refused"} => result[c] = "none"
  /\ result[c] = "converged" =>
       /\ Len(effects[c]) = PlanLength(c)
       /\ \A i \in 1 .. Len(effects[c]) : Settled(effects[c][i])

Shape == \A c \in Calls : PreflightShape(c) /\ EffectsShape(c) /\ ResultShape(c)

LEMMA PlanFacts ==
  /\ \A c \in Calls : ProposalOf[c] \in Proposals
  /\ \A c \in Calls : Plan[ProposalOf[c]] \in Seq(Mutation)
  /\ \A c \in Calls : PlanLength(c) \in Nat
  /\ \A c \in Calls : \A i \in 1 .. PlanLength(c) : PlannedMutation(c, i) \in Mutation
BY PlansAssumption DEF PlanLength, PlannedMutation

LEMMA TypeInit == Init => TypeOK /\ Shape
<1> SUFFICES ASSUME Init PROVE TypeOK /\ Shape
  OBVIOUS
<1>1. TypeOK
  BY DEF Init, BackendInit, LaneInit, TypeOK, Locations, Results
<1>2. Shape
  <2> SUFFICES ASSUME NEW c \in Calls
               PROVE  PreflightShape(c) /\ EffectsShape(c) /\ ResultShape(c)
    BY DEF Shape
  <2>1. /\ pc[c] = "idle" /\ seen[c] = <<>> /\ effects[c] = <<>>
        /\ result[c] = "none" /\ Len(<<>>) = 0
    BY DEF Init
  <2>2. PlanLength(c) \in Nat
    BY PlanFacts
  <2> QED
    BY <2>1, <2>2 DEF PreflightShape, EffectsShape, ResultShape, Working
<1> QED BY <1>1, <1>2

LEMMA StopFacts ==
  ASSUME TypeOK, Shape, NEW c \in Calls, NEW e \in EffectStatuses,
         pc[c] \in {"applying", "awaiting", "reconciling"}, ~LoopDone(c)
  PROVE  /\ StoppedAt(c, e) \in Seq(EffectStatuses)
         /\ Len(StoppedAt(c, e)) = PlanLength(c)
<1>1. PlanLength(c) \in Nat /\ Positions(c) = 1 .. PlanLength(c)
  BY PlanFacts DEF Positions, PlanLength
<1>2. ASSUME NEW i \in Positions(c)
      PROVE  (IF i < Position(c) THEN effects[c][i]
              ELSE IF i = Position(c) THEN e
              ELSE StatusFromInspection(seen[c][i])) \in EffectStatuses
  <2>1. CASE i < Position(c)
    <3>1. i \in 1 .. Len(effects[c])
      BY <1>1, <2>1 DEF Position, TypeOK
    <3> QED BY <2>1, <3>1 DEF TypeOK
  <2>2. CASE i = Position(c)
    BY <2>2 DEF Position, TypeOK
  <2>3. CASE ~(i < Position(c)) /\ i # Position(c)
    BY <2>3 DEF StatusFromInspection, EffectStatuses, Blocks
  <2> QED BY <2>1, <2>2, <2>3
<1>3. StoppedAt(c, e) \in [1 .. PlanLength(c) -> EffectStatuses]
  BY <1>1, <1>2 DEF StoppedAt
<1> QED BY <1>1, <1>3, SeqDef, LenProperties

\* A call whose four lists do not change keeps its shape.
LEMMA ShapeFrame ==
  ASSUME NEW c \in Calls, PreflightShape(c), EffectsShape(c), ResultShape(c),
         pc'[c] = pc[c], seen'[c] = seen[c], effects'[c] = effects[c],
         result'[c] = result[c]
  PROVE  PreflightShape(c)' /\ EffectsShape(c)' /\ ResultShape(c)'
BY DEF PreflightShape, EffectsShape, ResultShape, PlanLength

\* A step of c leaves the lists of the other calls alone.
OnlyCaller(c) ==
  \A d \in Calls \ {c} : /\ pc'[d] = pc[d] /\ seen'[d] = seen[d]
                         /\ effects'[d] = effects[d] /\ result'[d] = result[d]

LEMMA ShapeOfCaller ==
  ASSUME Shape, NEW c \in Calls, OnlyCaller(c),
         PreflightShape(c)', EffectsShape(c)', ResultShape(c)'
  PROVE  Shape'
<1> SUFFICES ASSUME NEW d \in Calls
             PROVE  PreflightShape(d)' /\ EffectsShape(d)' /\ ResultShape(d)'
  BY DEF Shape
<1>1. CASE d = c
  BY <1>1
<1>2. CASE d # c
  BY <1>2, ShapeFrame DEF Shape, OnlyCaller
<1> QED BY <1>1, <1>2

\* A call that only moves, and not to where its lists would have to grow.
LEMMA ShapeMove ==
  ASSUME TypeOK, Shape, NEW c \in Calls, NEW l \in Locations, Go(c, l),
         UNCHANGED <<seen, effects, result>>,
         \/ pc[c] = "idle" /\ l \in {"preflight", "refused"}
         \/ pc[c] = "awaiting" /\ l = "reconciling"
         \/ l \in {"returning", "returned", "closed", "crashed"}
  PROVE  pc' \in [Calls -> Locations] /\ Shape'
<1>1. /\ pc'[c] = l /\ OnlyCaller(c) /\ pc' \in [Calls -> Locations]
      /\ seen'[c] = seen[c] /\ effects'[c] = effects[c] /\ result'[c] = result[c]
  BY DEF Go, TypeOK, OnlyCaller
<1>2. PreflightShape(c) /\ EffectsShape(c) /\ ResultShape(c)
  BY DEF Shape
<1>3. PreflightShape(c)'
  BY <1>1, <1>2 DEF PreflightShape, PlanLength
<1>4. EffectsShape(c)'
  BY <1>1, <1>2 DEF EffectsShape, PlanLength
<1>5. ResultShape(c)'
  BY <1>1, <1>2 DEF ResultShape, PlanLength, Working
<1> QED BY <1>1, <1>3, <1>4, <1>5, ShapeOfCaller

\* The apply loop stops at the current effect.
LEMMA ShapeStop ==
  ASSUME TypeOK, Shape, NEW c \in Calls, NEW e \in EffectStatuses,
         NEW r \in {"failed", "effect_unknown"},
         pc[c] \in {"applying", "awaiting", "reconciling"}, ~LoopDone(c),
         Stop(c, e, r), UNCHANGED seen
  PROVE  /\ pc' \in [Calls -> Locations]
         /\ effects' \in [Calls -> Seq(EffectStatuses)]
         /\ result' \in [Calls -> Results]
         /\ Shape'
<1>1. /\ StoppedAt(c, e) \in Seq(EffectStatuses)
      /\ Len(StoppedAt(c, e)) = PlanLength(c)
  BY StopFacts
<1>2. /\ pc'[c] = "returning" /\ seen'[c] = seen[c] /\ OnlyCaller(c)
      /\ effects'[c] = StoppedAt(c, e) /\ result'[c] = r
  BY DEF Stop, Go, TypeOK, OnlyCaller
<1>3. /\ pc' \in [Calls -> Locations]
      /\ effects' \in [Calls -> Seq(EffectStatuses)]
      /\ result' \in [Calls -> Results]
  BY <1>1 DEF Stop, Go, TypeOK, Locations, Results
<1>4. PreflightShape(c) /\ PlanLength(c) \in Nat
  BY PlanFacts DEF Shape
<1>5. PreflightShape(c)' /\ EffectsShape(c)' /\ ResultShape(c)'
  BY <1>1, <1>2, <1>4
  DEF PreflightShape, EffectsShape, ResultShape, PlanLength, Working
<1> QED BY <1>2, <1>3, <1>5, ShapeOfCaller

\* The current effect is settled and the apply loop goes on.
LEMMA ShapeSettle ==
  ASSUME TypeOK, Shape, NEW c \in Calls, NEW e \in EffectStatuses, Settled(e),
         pc[c] \in {"applying", "reconciling"}, ~LoopDone(c),
         Settle(c, e), UNCHANGED seen
  PROVE  /\ pc' \in [Calls -> Locations]
         /\ effects' \in [Calls -> Seq(EffectStatuses)]
         /\ Shape'
<1>1. /\ pc'[c] = "applying" /\ seen'[c] = seen[c] /\ OnlyCaller(c)
      /\ effects'[c] = Append(effects[c], e) /\ result'[c] = result[c]
      /\ effects[c] \in Seq(EffectStatuses)
  BY DEF Settle, Go, TypeOK, OnlyCaller
<1>2. /\ Append(effects[c], e) \in Seq(EffectStatuses)
      /\ Len(Append(effects[c], e)) = Len(effects[c]) + 1
      /\ \A i \in 1 .. Len(effects[c]) + 1 :
           Append(effects[c], e)[i] =
             IF i = Len(effects[c]) + 1 THEN e ELSE effects[c][i]
      /\ Len(effects[c]) \in Nat
  BY <1>1, AppendProperties, LenProperties
<1>3. pc' \in [Calls -> Locations] /\ effects' \in [Calls -> Seq(EffectStatuses)]
  BY <1>2 DEF Settle, Go, TypeOK, Locations
<1>4. /\ PreflightShape(c) /\ EffectsShape(c) /\ ResultShape(c)
      /\ PlanLength(c) \in Nat
  BY PlanFacts DEF Shape
<1>5. PreflightShape(c)'
  BY <1>1, <1>4 DEF PreflightShape, PlanLength
<1>6. Len(effects[c]) < PlanLength(c)
  BY <1>2, <1>4 DEF EffectsShape, LoopDone, PlanLength
<1>7. \A i \in 1 .. Len(effects[c]) : Settled(effects[c][i])
  BY <1>4 DEF EffectsShape
<1>8. EffectsShape(c)'
  <2>1. \A i \in 1 .. Len(effects'[c]) : Settled(effects'[c][i])
    BY <1>1, <1>2, <1>7
  <2> QED BY <1>1, <1>2, <1>6, <2>1 DEF EffectsShape, PlanLength
<1>9. ResultShape(c)'
  BY <1>1, <1>4 DEF ResultShape, Working
<1> QED BY <1>1, <1>3, <1>5, <1>8, <1>9, ShapeOfCaller

LEMMA TypeCallerStep ==
  ASSUME TypeOK, Shape, NEW c \in Calls, CallerStep(c)
  PROVE  TypeOK' /\ Shape'
<1>1. CASE Acquire(c)
  <2>1. pc' \in [Calls -> Locations] /\ Shape'
    BY <1>1, ShapeMove DEF Acquire, Locations
  <2> QED BY <1>1, <2>1 DEF Acquire, TryAcquire, TypeOK, backendVars, Requests
<1>2. CASE Refuse(c)
  <2>1. pc' \in [Calls -> Locations] /\ Shape'
    BY <1>2, ShapeMove DEF Refuse, Locations
  <2> QED BY <1>2, <2>1 DEF Refuse, TypeOK, backendVars, Requests
<1>3. CASE StartDirect(c)
  <2>1. pc' \in [Calls -> Locations] /\ Shape'
    BY <1>3, ShapeMove DEF StartDirect, Locations
  <2> QED BY <1>3, <2>1 DEF StartDirect, TypeOK, backendVars, Requests
<1>4. CASE RecordRevision(c)
  <2>1. pc' \in [Calls -> Locations] /\ Shape'
    BY <1>4, ShapeMove DEF RecordRevision, Locations
  <2> QED BY <1>4, <2>1 DEF RecordRevision, TypeOK, backendVars, Requests
<1>5. CASE RefuseRevision(c)
  <2>1. pc' \in [Calls -> Locations] /\ Shape'
    BY <1>5, ShapeMove DEF RefuseRevision, Locations
  <2> QED BY <1>5, <2>1 DEF RefuseRevision, TypeOK, backendVars, Requests
<1> QED BY <1>1, <1>2, <1>3, <1>4, <1>5 DEF CallerStep

\* What inspect_effect can answer.
LEMMA InspectionType ==
  ASSUME NEW m, NEW s \in Inspections(m)
  PROVE  s \in InspectionStates
<1>1. \A k, d : Observed(k, d) \in InspectionStates
  BY DEF Observed, InspectionStates
<1>2. InspectionState(m) \in InspectionStates
  BY <1>1 DEF InspectionState, BaseObserved, InspectionStates
<1> QED BY <1>2 DEF Inspections, InspectionStates

LEMMA TypeInspect ==
  ASSUME TypeOK, Shape, NEW c \in Calls, Inspect(c)
  PROVE  TypeOK' /\ Shape'
<1>1. PICK s \in InspectionStates : seen' = [seen EXCEPT ![c] = Append(@, s)]
  BY InspectionType DEF Inspect
<1>2. /\ seen[c] \in Seq(InspectionStates) /\ Len(seen[c]) \in Nat
      /\ Append(seen[c], s) \in Seq(InspectionStates)
      /\ Len(Append(seen[c], s)) = Len(seen[c]) + 1
  BY AppendProperties, LenProperties DEF TypeOK
<1>3. /\ seen'[c] = Append(seen[c], s) /\ seen' \in [Calls -> Seq(InspectionStates)]
      /\ OnlyCaller(c)
  BY <1>1, <1>2 DEF TypeOK, OnlyCaller, Inspect
<1>4. TypeOK'
  BY <1>3 DEF Inspect, TypeOK, backendVars, Requests
<1>5. /\ PreflightShape(c) /\ EffectsShape(c) /\ ResultShape(c)
      /\ PlanLength(c) \in Nat
  BY PlanFacts DEF Shape
<1>6. Len(seen[c]) < PlanLength(c) /\ pc[c] = "preflight" /\ pc' = pc
      /\ effects' = effects /\ result' = result
  BY DEF Inspect, PlanLength
<1>7. PreflightShape(c)'
  BY <1>2, <1>3, <1>5, <1>6 DEF PreflightShape, PlanLength
<1>8. EffectsShape(c)' /\ ResultShape(c)'
  BY <1>5, <1>6 DEF EffectsShape, ResultShape, PlanLength, Working
<1> QED BY <1>3, <1>4, <1>7, <1>8, ShapeOfCaller

LEMMA TypeBlock ==
  ASSUME TypeOK, Shape, NEW c \in Calls, Block(c)
  PROVE  TypeOK' /\ Shape'
<1> DEFINE told == [i \in Positions(c) |-> StatusFromInspection(seen[c][i])]
<1>1. PlanLength(c) \in Nat /\ Positions(c) = 1 .. PlanLength(c)
  BY PlanFacts DEF Positions, PlanLength
<1>2. told \in [1 .. PlanLength(c) -> EffectStatuses]
  BY <1>1 DEF StatusFromInspection, EffectStatuses, Blocks
<1>3. told \in Seq(EffectStatuses) /\ Len(told) = PlanLength(c)
  BY <1>1, <1>2, SeqDef, LenProperties
<1>4. effects' = [effects EXCEPT ![c] = told]
  BY DEF Block
<1> HIDE DEF told
<1>5. /\ pc'[c] = "returning" /\ effects'[c] = told
      /\ result'[c] = "effect_unknown" /\ OnlyCaller(c)
  BY <1>4 DEF Block, Go, TypeOK, OnlyCaller
<1>6. TypeOK'
  BY <1>3, <1>4
  DEF Block, Go, TypeOK, backendVars, Requests, Locations, Results
<1>7. seen'[c] = seen[c] /\ Len(seen[c]) = PlanLength(c)
  BY DEF Block, PreflightDone, PlanLength
<1>8. PreflightShape(c)' /\ EffectsShape(c)' /\ ResultShape(c)'
  BY <1>1, <1>3, <1>5, <1>7
  DEF PreflightShape, EffectsShape, ResultShape, PlanLength, Working
<1> QED BY <1>5, <1>6, <1>8, ShapeOfCaller

LEMMA TypeProceed ==
  ASSUME TypeOK, Shape, NEW c \in Calls, Proceed(c)
  PROVE  TypeOK' /\ Shape'
<1>1. /\ pc[c] = "preflight" /\ Len(seen[c]) = PlanLength(c)
      /\ UNCHANGED <<store, inflight, lane, seen, effects, result, revisions>>
  BY DEF Proceed, PreflightDone, PlanLength, backendVars
<1>2. pc'[c] = "applying" /\ OnlyCaller(c) /\ pc' \in [Calls -> Locations]
  BY <1>1 DEF Proceed, Go, TypeOK, OnlyCaller, Locations
<1>3. TypeOK'
  BY <1>1, <1>2 DEF TypeOK, Requests
<1>4. /\ PreflightShape(c) /\ EffectsShape(c) /\ ResultShape(c)
      /\ PlanLength(c) \in Nat
  BY PlanFacts DEF Shape
<1>5. PreflightShape(c)' /\ EffectsShape(c)' /\ ResultShape(c)'
  BY <1>1, <1>2, <1>4
  DEF PreflightShape, EffectsShape, ResultShape, PlanLength, Working
<1> QED BY <1>2, <1>3, <1>5, ShapeOfCaller

\* The positions below the end of the loop are requests of the call.
LEMMA RequestType ==
  ASSUME TypeOK, Shape, NEW c \in Calls, ~LoopDone(c)
  PROVE  /\ Position(c) \in Positions(c)
         /\ Request(c) \in Requests
<1>1. PlanLength(c) \in Nat /\ Len(effects[c]) \in Nat /\ EffectsShape(c)
  BY PlanFacts, LenProperties DEF TypeOK, Shape
<1>2. Position(c) \in Positions(c) /\ Position(c) \in Nat
  BY <1>1 DEF LoopDone, Position, Positions, EffectsShape, PlanLength
<1> QED BY <1>2 DEF Request, Requests

LEMMA TypeApply ==
  ASSUME TypeOK, Shape, NEW c \in Calls, Apply(c)
  PROVE  TypeOK' /\ Shape'
<1>1. /\ pc[c] = "applying" /\ ~LoopDone(c) /\ seen[c][Position(c)] = "absent"
      /\ UNCHANGED <<lane, seen, revisions>>
  BY DEF Apply
<1>2. /\ Request(c) \in Requests /\ Position(c) = Len(effects[c]) + 1
      /\ Len(effects[c]) < PlanLength(c)
  BY <1>1, RequestType, PlanFacts, LenProperties
  DEF Position, Positions, PlanLength, TypeOK
<1>3. PreflightShape(c) /\ EffectsShape(c) /\ ResultShape(c)
  BY DEF Shape
<1>4. ASSUME NEW l \in {"awaiting", "reconciling"}, Go(c, l),
             UNCHANGED <<effects, result>>
      PROVE  pc' \in [Calls -> Locations] /\ Shape'
  <2>1. /\ pc'[c] = l /\ pc' \in [Calls -> Locations] /\ OnlyCaller(c)
        /\ seen'[c] = seen[c] /\ effects'[c] = effects[c] /\ result'[c] = result[c]
    BY <1>1, <1>4 DEF Go, TypeOK, OnlyCaller, Locations
  <2>2. PreflightShape(c)'
    BY <1>1, <1>3, <2>1 DEF PreflightShape, PlanLength
  <2>3. EffectsShape(c)'
    BY <1>1, <1>2, <1>3, <2>1 DEF EffectsShape, PlanLength
  <2>4. ResultShape(c)'
    BY <1>1, <1>3, <2>1 DEF ResultShape, PlanLength, Working
  <2> QED BY <2>1, <2>2, <2>3, <2>4, ShapeOfCaller
<1>5. CASE Post(Request(c)) /\ Go(c, "awaiting") /\ UNCHANGED <<effects, result>>
  BY <1>1, <1>2, <1>4, <1>5 DEF Post, TypeOK, Requests
<1>6. CASE Stop(c, "failed", "failed") /\ UNCHANGED backendVars
  <2>1. "failed" \in EffectStatuses
    BY DEF EffectStatuses
  <2>2. /\ pc' \in [Calls -> Locations]
        /\ effects' \in [Calls -> Seq(EffectStatuses)]
        /\ result' \in [Calls -> Results] /\ Shape'
    BY <1>1, <1>6, <2>1, ShapeStop
  <2> QED BY <1>1, <1>6, <2>2 DEF TypeOK, backendVars, Requests
<1>7. CASE Go(c, "reconciling") /\ UNCHANGED <<backendVars, effects, result>>
  BY <1>1, <1>4, <1>7 DEF TypeOK, backendVars, Requests
<1> QED BY <1>5, <1>6, <1>7 DEF Apply

\* The three ways an effect is left behind: skipped, stopped at, reconciled.
LEMMA TypeSkip ==
  ASSUME TypeOK, Shape, NEW c \in Calls, Skip(c)
  PROVE  TypeOK' /\ Shape'
<1>1. "already_applied" \in EffectStatuses /\ Settled("already_applied")
  BY DEF EffectStatuses, Settled
<1>2. /\ pc' \in [Calls -> Locations]
      /\ effects' \in [Calls -> Seq(EffectStatuses)]
      /\ Shape'
  BY <1>1, ShapeSettle DEF Skip
<1> QED BY <1>2 DEF Skip, Settle, TypeOK, backendVars, Requests

LEMMA NotDone ==
  ASSUME TypeOK, Shape, NEW c \in Calls, pc[c] \in {"awaiting", "reconciling"}
  PROVE  ~LoopDone(c) /\ seen[c][Position(c)] = "absent"
<1>1. PlanLength(c) \in Nat /\ Len(effects[c]) \in Nat /\ EffectsShape(c)
  BY PlanFacts, LenProperties DEF TypeOK, Shape
<1> QED BY <1>1 DEF LoopDone, EffectsShape, PlanLength, Position

LEMMA TypeReply ==
  ASSUME TypeOK, Shape, NEW c \in Calls,
         ReplyOk(c) \/ ReplyDeclined(c) \/ ReplyLost(c) \/ ReplyGarbled(c)
  PROVE  TypeOK' /\ Shape'
<1>1. CASE ReplyOk(c) \/ ReplyLost(c)
  <2>1. pc' \in [Calls -> Locations] /\ Shape'
    BY <1>1, ShapeMove DEF ReplyOk, ReplyLost, Locations
  <2> QED BY <1>1, <2>1 DEF ReplyOk, ReplyLost, TypeOK, backendVars, Requests
<1>2. CASE ReplyDeclined(c) \/ ReplyGarbled(c)
  <2>1. "failed" \in EffectStatuses
    BY DEF EffectStatuses
  <2>2. pc[c] = "awaiting" /\ Stop(c, "failed", "failed") /\ UNCHANGED seen
    BY <1>2 DEF ReplyDeclined, ReplyGarbled
  <2>3. ~LoopDone(c)
    BY <2>2, NotDone
  <2>4. /\ pc' \in [Calls -> Locations]
        /\ effects' \in [Calls -> Seq(EffectStatuses)]
        /\ result' \in [Calls -> Results] /\ Shape'
    BY <2>1, <2>2, <2>3, ShapeStop
  <2> QED
    BY <1>2, <2>4
    DEF ReplyDeclined, ReplyGarbled, Decline, TypeOK, backendVars, Requests
<1> QED BY <1>1, <1>2

LEMMA TypeReconcile ==
  ASSUME TypeOK, Shape, NEW c \in Calls, Reconcile(c)
  PROVE  TypeOK' /\ Shape'
<1>1. /\ pc[c] = "reconciling" /\ ~LoopDone(c)
      /\ UNCHANGED <<store, inflight, lane, seen, revisions>>
  BY NotDone DEF Reconcile, backendVars
<1>2. CASE Settle(c, "applied")
  <2>1. "applied" \in EffectStatuses /\ Settled("applied")
    BY DEF EffectStatuses, Settled
  <2>2. /\ pc' \in [Calls -> Locations]
        /\ effects' \in [Calls -> Seq(EffectStatuses)] /\ Shape'
    BY <1>1, <1>2, <2>1, ShapeSettle
  <2> QED BY <1>1, <1>2, <2>2 DEF Settle, TypeOK, Requests
<1>3. CASE Stop(c, "effect_unknown", "effect_unknown")
  <2>1. "effect_unknown" \in EffectStatuses
    BY DEF EffectStatuses
  <2>2. /\ pc' \in [Calls -> Locations]
        /\ effects' \in [Calls -> Seq(EffectStatuses)]
        /\ result' \in [Calls -> Results] /\ Shape'
    BY <1>1, <1>3, <2>1, ShapeStop
  <2> QED BY <1>1, <2>2 DEF TypeOK, Requests
<1> QED BY <1>2, <1>3 DEF Reconcile

LEMMA TypeConverge ==
  ASSUME TypeOK, Shape, NEW c \in Calls, Converge(c)
  PROVE  TypeOK' /\ Shape'
<1>1. /\ pc[c] = "applying" /\ Len(effects[c]) = PlanLength(c)
      /\ UNCHANGED <<store, inflight, lane, seen, effects, revisions>>
  BY DEF Converge, LoopDone, PlanLength, backendVars
<1>2. /\ pc'[c] = "returning" /\ result'[c] = "converged" /\ OnlyCaller(c)
      /\ pc' \in [Calls -> Locations] /\ result' \in [Calls -> Results]
  BY DEF Converge, Go, TypeOK, OnlyCaller, Locations, Results
<1>3. TypeOK'
  BY <1>1, <1>2 DEF TypeOK, Requests
<1>4. PreflightShape(c) /\ EffectsShape(c) /\ ResultShape(c)
  BY DEF Shape
<1>5. PreflightShape(c)' /\ EffectsShape(c)' /\ ResultShape(c)'
  BY <1>1, <1>2, <1>4
  DEF PreflightShape, EffectsShape, ResultShape, PlanLength, Working
<1> QED BY <1>2, <1>3, <1>5, ShapeOfCaller

LEMMA TypeReturn ==
  ASSUME TypeOK, Shape, NEW c \in Calls, Return(c)
  PROVE  TypeOK' /\ Shape'
<1>1. pc' \in [Calls -> Locations] /\ Shape'
  BY ShapeMove DEF Return, Locations
<1> QED BY <1>1 DEF Return, Release, TypeOK, backendVars, Requests

LEMMA TypeInterrupt ==
  ASSUME TypeOK, Shape, NEW c \in Calls, Interrupt(c)
  PROVE  TypeOK' /\ Shape'
<1>1. UNCHANGED <<store, inflight, lane, seen, effects, revisions>>
  BY DEF Interrupt, backendVars
<1>2. /\ pc'[c] = "returning" /\ result'[c] = "error" /\ OnlyCaller(c)
      /\ pc' \in [Calls -> Locations] /\ result' \in [Calls -> Results]
  BY DEF Interrupt, Go, TypeOK, OnlyCaller, Locations, Results
<1>3. TypeOK'
  BY <1>1, <1>2 DEF TypeOK, Requests
<1>4. PreflightShape(c) /\ EffectsShape(c) /\ ResultShape(c)
  BY DEF Shape
<1>5. PreflightShape(c)' /\ EffectsShape(c)' /\ ResultShape(c)'
  BY <1>1, <1>2, <1>4
  DEF PreflightShape, EffectsShape, ResultShape, PlanLength, Working
<1> QED BY <1>2, <1>3, <1>5, ShapeOfCaller

LEMMA TypeCrash ==
  ASSUME TypeOK, Shape, NEW c \in Calls, Crash(c)
  PROVE  TypeOK' /\ Shape'
<1>1. pc' \in [Calls -> Locations] /\ Shape'
  BY ShapeMove DEF Crash, Locations
<1> QED BY <1>1 DEF Crash, TypeOK, backendVars, Requests

LEMMA TypeCallStep ==
  ASSUME TypeOK, Shape, NEW c \in Calls, CallStep(c)
  PROVE  TypeOK' /\ Shape'
BY TypeInspect, TypeBlock, TypeProceed, TypeSkip, TypeApply, TypeReply,
   TypeReconcile, TypeConverge, TypeReturn DEF CallStep

\* Nothing of a call changes.
LEMMA TypeUnchanged ==
  ASSUME TypeOK, Shape, UNCHANGED <<lane, guardVars>>,
         store' \subseteq Requests, inflight' \subseteq Requests
  PROVE  TypeOK' /\ Shape'
<1>1. Shape'
  BY ShapeFrame DEF Shape, guardVars
<1> QED BY <1>1 DEF TypeOK, guardVars, Requests

LEMMA TypeNext == TypeOK /\ Shape /\ [Next]_vars => TypeOK' /\ Shape'
<1> SUFFICES ASSUME TypeOK, Shape, [Next]_vars PROVE TypeOK' /\ Shape'
  OBVIOUS
<1>1. ASSUME NEW c \in Calls,
             CallerStep(c) \/ CallStep(c) \/ Interrupt(c) \/ Crash(c)
      PROVE  TypeOK' /\ Shape'
  BY <1>1, TypeCallerStep, TypeCallStep, TypeInterrupt, TypeCrash
<1>2. ASSUME NEW a \in inflight, Commit(a)
      PROVE  TypeOK' /\ Shape'
  <2>1. store' \subseteq Requests /\ inflight' \subseteq Requests
    BY <1>2 DEF Commit, Save, TypeOK
  <2> QED BY <1>2, <2>1, TypeUnchanged DEF Commit
<1>3. CASE UNCHANGED vars
  BY <1>3, TypeUnchanged DEF vars, guardVars, TypeOK
<1> QED BY <1>1, <1>2, <1>3 DEF Next

\* Every variable keeps its type and the four lists of a call keep the shape
\* that its place in execute_authorized_proposal gives them.
THEOREM TypeCorrect == Spec => [](TypeOK /\ Shape)
<1>1. Init => TypeOK /\ Shape
  BY TypeInit
<1>2. TypeOK /\ Shape /\ [Next]_vars => (TypeOK /\ Shape)'
  BY TypeNext
<1> QED BY <1>1, <1>2, PTL DEF Spec

-------------------------------------------------------------------------------

\* A dispatched call at work holds the permit, from try_acquire to release.
HoldsPermit == \A c \in Dispatched : pc[c] \in Active => lane = c

LEMMA PermitNext ==
  TypeOK /\ HoldsPermit /\ [Next]_vars => HoldsPermit'
<1> SUFFICES ASSUME TypeOK, HoldsPermit, [Next]_vars,
                    NEW d \in Dispatched, pc'[d] \in Active
             PROVE  lane' = d
  BY DEF HoldsPermit
<1>1. d \in Calls /\ NoCall # d
  BY DispatchedAssumption, PlansAssumption
<1>2. CASE UNCHANGED vars
  BY <1>2 DEF vars, HoldsPermit
<1>3. ASSUME NEW a \in inflight, Commit(a)
      PROVE  lane' = d
  BY <1>3 DEF Commit, HoldsPermit, guardVars
<1>4. ASSUME NEW c \in Calls, Acquire(c)
      PROVE  lane' = d
  BY <1>1, <1>4 DEF Acquire, TryAcquire, Go, TypeOK, HoldsPermit
<1>5. ASSUME NEW c \in Calls,
             Refuse(c) \/ StartDirect(c) \/ RecordRevision(c)
               \/ RefuseRevision(c) \/ Crash(c)
      PROVE  lane' = d
  BY <1>1, <1>5 DEF Refuse, StartDirect, RecordRevision, RefuseRevision, Crash,
                    Go, TypeOK, HoldsPermit, Active, Working
<1>6. ASSUME NEW c \in Calls, Return(c)
      PROVE  lane' = d
  BY <1>1, <1>6
  DEF Return, Release, Go, TypeOK, HoldsPermit, Active, Working
<1>7. ASSUME NEW c \in Calls,
             \/ Inspect(c) \/ Block(c) \/ Proceed(c) \/ Converge(c)
             \/ Interrupt(c)
      PROVE  lane' = d
  BY <1>1, <1>7 DEF Inspect, Block, PreflightDone, Proceed, Converge, Interrupt,
                    Go, TypeOK, HoldsPermit, Active, Working
<1>8. ASSUME NEW c \in Calls,
             \/ Skip(c) \/ Apply(c) \/ ReplyOk(c) \/ ReplyDeclined(c)
             \/ ReplyLost(c) \/ ReplyGarbled(c) \/ Reconcile(c)
      PROVE  lane' = d
  <2>1. /\ lane' = lane /\ pc[c] \in Active
        /\ \A e \in Calls \ {c} : pc'[e] = pc[e]
    BY <1>8 DEF Skip, Apply, ReplyOk, ReplyDeclined, ReplyLost, ReplyGarbled,
                Reconcile, Settle, Stop, Go, TypeOK, Active, Working
  <2> QED BY <1>1, <2>1 DEF HoldsPermit
<1> QED
  BY <1>2, <1>3, <1>4, <1>5, <1>6, <1>7, <1>8 DEF Next, CallerStep, CallStep

LEMMA PermitAlways == Spec => [](TypeOK /\ HoldsPermit)
<1>1. Init => HoldsPermit
  BY DispatchedAssumption DEF Init, HoldsPermit, Active, Working
<1> QED BY <1>1, PermitNext, TypeCorrect, PTL DEF Spec

\* Two dispatched calls are never inspecting, writing or reconciling at the
\* same time, whatever the number of calls and whatever fails.
THEOREM LaneExclusive == Spec => []LaneIsExclusive
<1>1. HoldsPermit => LaneIsExclusive
  BY DEF HoldsPermit, LaneIsExclusive
<1> QED BY <1>1, PermitAlways, PTL

\* Where no edit is saved after its client gave up, the permit fences every
\* save of a dispatched call.
THEOREM SavesFenced == "late_commit" \notin Faults => (Spec => SavesAreFenced)
<1> SUFFICES ASSUME "late_commit" \notin Faults PROVE Spec => SavesAreFenced
  OBVIOUS
<1>1. ASSUME TypeOK, HoldsPermit, [Next]_vars
      PROVE  [\A a \in store' \ store : a[1] \in Dispatched => lane = a[1]]_vars
  <2>1. ASSUME NEW a \in inflight, Commit(a),
               NEW b \in store' \ store, b[1] \in Dispatched
        PROVE  lane = b[1]
    <3>1. b = a /\ pc[b[1]] = "awaiting"
      BY <2>1 DEF Commit, Save
    <3> QED BY <1>1, <2>1, <3>1 DEF HoldsPermit, Active, Working
  <2>2. ASSUME NEW c \in Calls,
               CallerStep(c) \/ CallStep(c) \/ Interrupt(c) \/ Crash(c)
        PROVE  store' = store
    <3>1. CASE CallerStep(c) \/ Interrupt(c) \/ Crash(c)
      BY <3>1 DEF CallerStep, Acquire, Refuse, StartDirect, RecordRevision,
                  RefuseRevision, Interrupt, Crash, backendVars
    <3>2. CASE CallStep(c)
      BY <3>2 DEF CallStep, Inspect, Block, Proceed, Skip, Apply, Post, ReplyOk,
                  ReplyDeclined, Decline, ReplyLost, ReplyGarbled, Reconcile,
                  Converge, Return, backendVars
    <3> QED BY <2>2, <3>1, <3>2
  <2> QED BY <1>1, <2>1, <2>2 DEF Next, vars
<1> QED BY <1>1, PermitAlways, PTL DEF Spec, SavesAreFenced
===============================================================================
