------------------------------ MODULE TrialProofs ------------------------------
(***************************************************************************)
(* Theorems about the evidence that trials leave behind, for any number of *)
(* trials that race for any outputs, whatever the model answers and        *)
(* whenever a process is killed.                                           *)
(***************************************************************************)
EXTENDS Trials, FiniteSetTheorems, FunctionTheorems, TLAPS

Reports == [by : Runs, whole : BOOLEAN]
WholeOf(r) == [by |-> r, whole |-> TRUE]
TornOf(r) == [by |-> r, whole |-> FALSE]

Ends == {"idle", "done", "refused", "raised", "died"}
Writing == {"writing", "written", "digested"}
PlacesOf(kind) ==
    CASE kind = "extraction" -> Ends \cup Writing \cup {"cases"}
      [] kind = "drafting" -> Ends \cup Writing \cup {"ready", "answered", "creating"}
      [] OTHER -> Ends \cup {"ready"}

TrialTypes ==
    /\ pc \in [Runs -> UNION {PlacesOf(k) : k \in {"extraction", "drafting", "adapter"}}]
    /\ \A r \in Runs : pc[r] \in PlacesOf(Kind[r])
    /\ files \in [Paths -> [report : Reports \cup {None}, sidecar : Reports \cup {None}]]
    /\ digest \in [Runs -> Reports \cup {None}]
    /\ calls \in [Runs -> Nat]

\* A report is that of a trial with this output; a sidecar is of a whole report,
\* and comes after one.
PathInv(p) ==
    /\ Report(p) # None => Output[Report(p).by] = p /\ Kind[Report(p).by] # "adapter"
    /\ files[p].sidecar # None => Report(p) # None /\ files[p].sidecar.whole

\* An extraction trial that has written has its own report in its output.
ExtractionInv(r) ==
    /\ pc[r] \in {"written", "digested"} => Report(Output[r]) = WholeOf(r)
    /\ pc[r] = "digested" => digest[r] = WholeOf(r)

\* So has a drafting trial, which keeps it; one that has called the model and was
\* refused found the report of another one.
DraftingInv(r) ==
    /\ pc[r] = "idle" => calls[r] = 0
    /\ pc[r] = "writing" => Report(Output[r]) = TornOf(r)
    /\ pc[r] \in {"written", "digested", "done"} => Report(Output[r]) = WholeOf(r)
    /\ pc[r] = "digested" => digest[r] = WholeOf(r)
    /\ pc[r] = "done" => files[Output[r]].sidecar = WholeOf(r)
    /\ pc[r] = "refused" /\ calls[r] > 0 => Report(Output[r]) # None
    /\ Report(Output[r]) # None /\ Report(Output[r]).by = r => pc[r] \in Writing \cup {"done", "raised", "died"}

RunInv(r) ==
    /\ Kind[r] = "extraction" => ExtractionInv(r)
    /\ Kind[r] = "drafting" => DraftingInv(r)

\* Extraction trials of one output are run one after the other.
OneAtATime ==
    \A r, s \in Underway :
        Kind[r] = "extraction" /\ Kind[s] = "extraction" /\ Output[r] = Output[s] => r = s

\* The inductive invariant.
TrialInv ==
    /\ TrialTypes /\ OneAtATime
    /\ \A p \in Paths : PathInv(p)
    /\ \A r \in Runs : RunInv(r)

-----------------------------------------------------------------------------
(* Steps that move one run and write nothing                               *)

\* What stands for no report is none.
LEMMA NoneIsNoReport == \A r \in Runs : TornOf(r) # None /\ WholeOf(r) # None
<1> SUFFICES ASSUME NEW r \in Runs PROVE TornOf(r) # None /\ WholeOf(r) # None
  OBVIOUS
<1>1. TornOf(r) \in Reports /\ WholeOf(r) \in Reports
  BY DEF TornOf, WholeOf, Reports
<1>2. None \notin Reports
  BY TrialsAssumption DEF Reports
<1> QED BY <1>1, <1>2

\* Every run has an output.
LEMMA OutputIsPath == \A r \in Runs : Output[r] \in Paths
BY DEF Paths

LEMMA InitTrials == Init => TrialInv
<1> SUFFICES ASSUME Init PROVE TrialInv
  OBVIOUS
<1>1. /\ \A r \in Runs : pc[r] = "idle" /\ calls[r] = 0
      /\ \A p \in Paths : files[p].report = None /\ files[p].sidecar = None
  BY DEF Init, NoArtifacts
<1>2. TrialTypes
  <2>1. \A k : "idle" \in PlacesOf(k)
    BY DEF PlacesOf, Ends
  <2>2. files \in [Paths -> [report : Reports \cup {None}, sidecar : Reports \cup {None}]]
    BY DEF Init, NoArtifacts
  <2> QED BY <1>1, <2>1, <2>2 DEF TrialTypes, Init
<1>3. OneAtATime
  BY <1>1 DEF OneAtATime, Underway, Waiting
<1>4. \A p \in Paths : PathInv(p)
  BY <1>1 DEF PathInv, Report
<1>5. \A r \in Runs : RunInv(r)
  BY <1>1, OutputIsPath DEF RunInv, ExtractionInv, DraftingInv, Report
<1> QED BY <1>2, <1>3, <1>4, <1>5 DEF TrialInv

\* A run may begin only where no other extraction trial of its output is underway.
MayMove(r, q) ==
    \/ r \in Underway \/ q \in Waiting \/ Kind[r] # "extraction"
    \/ \A s \in Underway : Output[s] # Output[r]

LEMMA StaysOneAtATime ==
  ASSUME TrialTypes, OneAtATime, NEW r \in Runs, NEW q, pc' = [pc EXCEPT ![r] = q], MayMove(r, q)
  PROVE  OneAtATime'
<1>1. \A s \in Runs : pc'[s] = IF s = r THEN q ELSE pc[s]
  BY DEF TrialTypes
<1>2. \A s \in Underway' : s \in Underway \/ (s = r /\ q \notin Waiting)
  BY <1>1 DEF Underway
<1> QED BY <1>2 DEF OneAtATime, MayMove

\* A step that moves one run and writes nothing concerns that run only.
LEMMA MoveKeeps ==
  ASSUME TrialInv, NEW r \in Runs, NEW q \in PlacesOf(Kind[r]),
         pc' = [pc EXCEPT ![r] = q], MayMove(r, q), UNCHANGED <<files, digest>>,
         calls' = calls \/ calls' = [calls EXCEPT ![r] = @ + 1],
         RunInv(r)'
  PROVE  TrialInv'
<1>1. TrialTypes /\ OneAtATime
  BY DEF TrialInv
<1>2. /\ pc'[r] = q
      /\ \A s \in Runs : s # r => pc'[s] = pc[s] /\ calls'[s] = calls[s]
  BY <1>1 DEF TrialTypes
<1>3. TrialTypes'
  <2>1. Kind[r] \in {"extraction", "drafting", "adapter"}
    BY TrialsAssumption
  <2>2. pc' \in [Runs -> UNION {PlacesOf(k) : k \in {"extraction", "drafting", "adapter"}}]
    BY <1>1, <2>1 DEF TrialTypes
  <2>3. \A s \in Runs : pc'[s] \in PlacesOf(Kind[s])
    BY <1>1, <1>2 DEF TrialTypes
  <2>4. calls' \in [Runs -> Nat]
    BY <1>1 DEF TrialTypes
  <2> QED BY <1>1, <2>2, <2>3, <2>4 DEF TrialTypes
<1>4. OneAtATime'
  BY <1>1, StaysOneAtATime
<1>5. \A p \in Paths : PathInv(p)'
  BY DEF TrialInv, PathInv, Report
<1>6. ASSUME NEW s \in Runs, s # r PROVE RunInv(s)'
  BY <1>2, <1>6 DEF TrialInv, RunInv, ExtractionInv, DraftingInv, Report
<1> QED BY <1>3, <1>4, <1>5, <1>6 DEF TrialInv

\* The steps of an extraction trial before it writes
LEMMA ExtractionMoves ==
  ASSUME TrialInv, NEW r \in Runs,
         \/ BeginTrial(r) \/ RefuseTrial(r) \/ BlockCase(r) \/ FailCase(r) \/ AnswerCase(r)
         \/ EscapeCase(r)
  PROVE  TrialInv'
<1> DEFINE q == pc'[r]
<1>1. TrialTypes
  BY DEF TrialInv
<1>2. /\ UNCHANGED <<files, digest>>
      /\ calls' = calls \/ calls' = [calls EXCEPT ![r] = @ + 1]
  BY DEF BeginTrial, RefuseTrial, BlockCase, FailCase, AnswerCase, EscapeCase, Result, Count, Call
<1>3. Kind[r] = "extraction"
  <2>1. pc[r] = "cases" => Kind[r] = "extraction"
    BY <1>1, TrialsAssumption DEF TrialTypes, PlacesOf, Ends, Writing
  <2> QED BY <2>1 DEF BeginTrial, RefuseTrial, BlockCase, FailCase, AnswerCase, EscapeCase, HasCase
<1>4. q \in {"cases", "refused", "raised"} /\ pc' = [pc EXCEPT ![r] = q] /\ MayMove(r, q)
  <2>1. CASE BeginTrial(r)
    BY <1>1, <2>1 DEF BeginTrial, Goto, MayMove, TrialTypes
  <2>2. CASE RefuseTrial(r)
    BY <1>1, <2>2 DEF RefuseTrial, Goto, MayMove, Waiting, TrialTypes
  <2>3. CASE BlockCase(r) \/ FailCase(r) \/ AnswerCase(r)
    <3>1. pc' = pc /\ pc[r] = "cases"
      BY <2>3 DEF BlockCase, FailCase, AnswerCase, HasCase
    <3>2. r \in Underway
      BY <3>1 DEF Underway, Waiting
    <3> QED BY <1>1, <3>1, <3>2 DEF MayMove, TrialTypes
  <2>4. CASE EscapeCase(r)
    BY <1>1, <2>4 DEF EscapeCase, Goto, MayMove, Waiting, TrialTypes
  <2> QED BY <2>1, <2>2, <2>3, <2>4
<1>5. q \in PlacesOf(Kind[r])
  BY <1>3, <1>4 DEF PlacesOf, Ends
<1>6. RunInv(r)'
  BY <1>3, <1>4 DEF RunInv, ExtractionInv
<1> HIDE DEF q
<1> QED BY <1>2, <1>4, <1>5, <1>6, MoveKeeps

\* The steps of a drafting trial, or of a caller of its adapter, before it writes
LEMMA DraftingMoves ==
  ASSUME TrialInv, NEW r \in Runs,
         \/ BeginDraft(r) \/ RefuseDraft(r) \/ BeginAdapter(r) \/ RejectContext(r)
         \/ AnswerDraft(r) \/ FailDraft(r) \/ GarbleDraft(r) \/ CheckAgain(r) \/ LoseRace(r)
  PROVE  TrialInv'
<1> DEFINE q == pc'[r]
<1>1. TrialTypes /\ RunInv(r) /\ PathInv(Output[r])
  BY OutputIsPath DEF TrialInv
<1>2. /\ UNCHANGED <<files, digest>>
      /\ calls' = calls \/ calls' = [calls EXCEPT ![r] = @ + 1]
  BY DEF BeginDraft, RefuseDraft, BeginAdapter, RejectContext, AnswerDraft, FailDraft, GarbleDraft,
         CheckAgain, LoseRace, Call
<1>3. /\ pc[r] = "ready" => Kind[r] \in {"drafting", "adapter"}
      /\ pc[r] \in {"answered", "creating"} => Kind[r] = "drafting"
  BY <1>1, TrialsAssumption DEF TrialTypes, PlacesOf, Ends, Writing
<1>4. pc' = [pc EXCEPT ![r] = q]
  BY <1>1 DEF TrialTypes, Goto, BeginDraft, RefuseDraft, BeginAdapter, RejectContext, AnswerDraft,
              FailDraft, GarbleDraft, CheckAgain, LoseRace
<1>5. Kind[r] \in {"drafting", "adapter"}
  BY <1>3 DEF BeginDraft, RefuseDraft, BeginAdapter, RejectContext, AnswerDraft, FailDraft, GarbleDraft,
              CheckAgain, LoseRace
<1>6. CASE Kind[r] = "adapter"
  <2>1. q \in {"ready", "done", "raised"}
    BY <1>1, <1>3, <1>6
       DEF TrialTypes, Goto, BeginDraft, RefuseDraft, BeginAdapter, RejectContext, AnswerDraft,
           FailDraft, GarbleDraft, CheckAgain, LoseRace, AfterCall
  <2>2. q \in PlacesOf(Kind[r]) /\ MayMove(r, q) /\ RunInv(r)'
    BY <1>6, <2>1 DEF PlacesOf, Ends, MayMove, RunInv
  <2> HIDE DEF q
  <2> QED BY <1>2, <1>4, <2>2, MoveKeeps
<1>7. CASE Kind[r] = "drafting"
  <2>1. \/ q \in {"ready", "answered", "raised", "creating"}
        \/ q = "refused" /\ calls' = calls /\ pc[r] = "idle"
        \/ q = "refused" /\ calls' = calls /\ pc[r] \in {"answered", "creating"}
              /\ files[Output[r]] # NoArtifacts
    <3>1. \A place : Goto(r, place) => q = place
      BY <1>1 DEF TrialTypes, Goto
    <3>2. AfterCall(r) = "answered"
      BY <1>7 DEF AfterCall
    <3>3. CASE BeginDraft(r) \/ BeginAdapter(r) \/ RejectContext(r)
      BY <3>1, <3>2, <3>3 DEF BeginDraft, BeginAdapter, RejectContext
    <3>4. CASE AnswerDraft(r) \/ FailDraft(r) \/ GarbleDraft(r)
      BY <3>1, <3>2, <3>4 DEF AnswerDraft, FailDraft, GarbleDraft
    <3>5. CASE RefuseDraft(r)
      BY <3>1, <3>5 DEF RefuseDraft, MayBegin
    <3>6. CASE CheckAgain(r)
      BY <3>1, <3>6 DEF CheckAgain, IsAbsent
    <3>7. CASE LoseRace(r)
      BY <3>1, <3>7 DEF LoseRace, NoArtifacts
    <3> HIDE DEF q
    <3> QED BY <3>3, <3>4, <3>5, <3>6, <3>7
  <2>2. pc[r] \in {"idle", "ready", "answered", "creating"}
    BY DEF BeginDraft, RefuseDraft, BeginAdapter, RejectContext, AnswerDraft,
           FailDraft, GarbleDraft, CheckAgain, LoseRace, MayBegin
  <2>3. files[Output[r]] # NoArtifacts => Report(Output[r]) # None
    <3>1. files[Output[r]] \in [report : Reports \cup {None}, sidecar : Reports \cup {None}]
      BY <1>1, OutputIsPath DEF TrialTypes
    <3> QED BY <1>1, <3>1 DEF PathInv, Report, NoArtifacts
  <2>4. DraftingInv(r)
    BY <1>1, <1>7 DEF RunInv
  <2>5. ~(Report(Output[r]) # None /\ Report(Output[r]).by = r)
    BY <2>2, <2>4 DEF DraftingInv, Writing
  <2>6. pc[r] = "idle" => calls[r] = 0
    BY <2>4 DEF DraftingInv
  <2>7. Report(Output[r])' = Report(Output[r])
    BY <1>2 DEF Report
  <2>8. DraftingInv(r)'
    BY <2>1, <2>3, <2>5, <2>6, <2>7 DEF DraftingInv, Writing
  <2>9. q \in PlacesOf(Kind[r]) /\ MayMove(r, q) /\ RunInv(r)'
    BY <1>7, <2>1, <2>8 DEF PlacesOf, Ends, MayMove, RunInv
  <2> HIDE DEF q
  <2> QED BY <1>2, <1>4, <2>9, MoveKeeps
<1> QED BY <1>5, <1>6, <1>7

\* A process that is killed, or ended by an exception, leaves what it has written.
LEMMA EndKeeps ==
  ASSUME TrialInv, NEW r \in Runs, FailWrite(r) \/ Kill(r)
  PROVE  TrialInv'
<1>1. TrialTypes /\ RunInv(r)
  BY DEF TrialInv
<1>2. PICK q \in {"raised", "died"} :
        pc' = [pc EXCEPT ![r] = q] /\ UNCHANGED <<files, digest, calls>>
  BY DEF FailWrite, Kill, Goto
<1>3. pc'[r] = q
  BY <1>1, <1>2 DEF TrialTypes
<1>4. q \in PlacesOf(Kind[r]) /\ MayMove(r, q)
  BY DEF PlacesOf, Ends, MayMove, Waiting
<1>5. RunInv(r)'
  BY <1>3 DEF RunInv, ExtractionInv, DraftingInv, Writing
<1> QED BY <1>2, <1>4, <1>5, MoveKeeps

-----------------------------------------------------------------------------
(* Steps that write an artifact or read it back                            *)

\* Trials of different kinds do not share an output, and of the extraction trials
\* of one output at most one is underway.
LEMMA OthersDoNotWrite ==
  ASSUME TrialInv, NEW r \in Runs, r \in Underway, Kind[r] \in {"extraction", "drafting"},
         NEW s \in Runs, s # r, Output[s] = Output[r]
  PROVE  \/ Kind[s] = "adapter"
         \/ Kind[r] = "extraction" /\ Kind[s] = "extraction" /\ s \notin Underway
         \/ Kind[r] = "drafting" /\ Kind[s] = "drafting"
<1>1. Kind[s] \in {"extraction", "drafting", "adapter"}
  BY TrialsAssumption
<1>2. Kind[r] = "extraction" => Kind[s] # "drafting"
  BY TrialsAssumption
<1>3. Kind[r] = "drafting" => Kind[s] # "extraction"
  BY TrialsAssumption
<1>4. Kind[r] = "extraction" /\ Kind[s] = "extraction" => s \notin Underway
  BY DEF TrialInv, OneAtATime
<1> QED BY <1>1, <1>2, <1>3, <1>4

\* A trial that writes its own artifacts, where no report of another drafting trial
\* is, disturbs nobody.
LEMMA WriteKeeps ==
  ASSUME TrialInv, NEW r \in Runs, r \in Underway, Kind[r] \in {"extraction", "drafting"},
         NEW q \in PlacesOf(Kind[r]), pc' = [pc EXCEPT ![r] = q],
         NEW f \in [report : Reports \cup {None}, sidecar : Reports \cup {None}],
         files' = [files EXCEPT ![Output[r]] = f], UNCHANGED <<digest, calls>>,
         PathInv(Output[r])', RunInv(r)',
         Kind[r] = "drafting" =>
            /\ f.report # None /\ f.report.by = r
            /\ Report(Output[r]) # None => Report(Output[r]).by = r
  PROVE  TrialInv'
<1>1. TrialTypes /\ OneAtATime
  BY DEF TrialInv
<1>2. \A s \in Runs : s # r => pc'[s] = pc[s]
  BY <1>1 DEF TrialTypes
<1>3. pc'[r] = q /\ Output[r] \in Paths
  BY <1>1, OutputIsPath DEF TrialTypes
<1>4. \A p \in Paths : files'[p] = IF p = Output[r] THEN f ELSE files[p]
  BY <1>1 DEF TrialTypes
<1>5. TrialTypes'
  <2>1. pc' \in [Runs -> UNION {PlacesOf(k) : k \in {"extraction", "drafting", "adapter"}}]
    BY <1>1 DEF TrialTypes
  <2>2. \A s \in Runs : pc'[s] \in PlacesOf(Kind[s])
    BY <1>1, <1>2, <1>3 DEF TrialTypes
  <2>3. files' \in [Paths -> [report : Reports \cup {None}, sidecar : Reports \cup {None}]]
    BY <1>1 DEF TrialTypes
  <2> QED BY <1>1, <2>1, <2>2, <2>3 DEF TrialTypes
<1>6. OneAtATime'
  BY <1>1, StaysOneAtATime DEF MayMove
<1>7. \A p \in Paths : PathInv(p)'
  <2>1. ASSUME NEW p \in Paths, p # Output[r] PROVE PathInv(p)'
    <3>1. files'[p] = files[p] /\ PathInv(p)
      BY <1>4, <2>1 DEF TrialInv
    <3> QED BY <3>1 DEF PathInv, Report
  <2> QED BY <2>1
<1>8. ASSUME NEW s \in Runs, s # r PROVE RunInv(s)'
  <2>1. /\ pc'[s] = pc[s] /\ calls'[s] = calls[s] /\ digest'[s] = digest[s]
        /\ RunInv(s) /\ Output[s] \in Paths
    BY <1>2, <1>8, OutputIsPath DEF TrialInv
  <2>2. CASE Output[s] # Output[r]
    <3>1. files'[Output[s]] = files[Output[s]]
      BY <1>4, <2>1, <2>2
    <3> QED BY <2>1, <3>1 DEF RunInv, ExtractionInv, DraftingInv, Report
  <2>3. CASE Output[s] = Output[r] /\ Kind[s] = "adapter"
    BY <2>3 DEF RunInv
  <2>4. CASE Output[s] = Output[r] /\ Kind[s] = "extraction" /\ s \notin Underway
    BY <2>1, <2>4 DEF RunInv, ExtractionInv, Underway, Waiting
  <2>5. CASE Output[s] = Output[r] /\ Kind[r] = "drafting" /\ Kind[s] = "drafting"
    <3>1. DraftingInv(s) /\ Report(Output[s])' = f.report
      BY <1>4, <2>1, <2>5 DEF RunInv, Report
    <3>2. TornOf(s) # None /\ WholeOf(s) # None
      BY NoneIsNoReport
    <3>3. pc[s] \notin Writing \cup {"done"}
      <4>1. Report(Output[s]) # TornOf(s) /\ Report(Output[s]) # WholeOf(s)
        <5>1. TornOf(s).by = s /\ WholeOf(s).by = s
          BY DEF TornOf, WholeOf
        <5>2. Report(Output[s]) = Report(Output[r])
          BY <2>5
        <5> QED BY <1>8, <2>5, <3>2, <5>1, <5>2
      <4>2. DraftingInv(s)
        BY <3>1
      <4>3. pc[s] # "writing"
        BY <4>1, <4>2 DEF DraftingInv
      <4>4. pc[s] \notin {"written", "digested", "done"}
        BY <4>1, <4>2 DEF DraftingInv
      <4> QED BY <4>3, <4>4 DEF Writing
    <3>4. DraftingInv(s)'
      BY <1>8, <2>1, <2>5, <3>1, <3>3 DEF DraftingInv, Writing
    <3> QED BY <2>5, <3>4 DEF RunInv
  <2> QED BY <1>8, <2>2, <2>3, <2>4, <2>5, OthersDoNotWrite
<1> QED BY <1>5, <1>6, <1>7, <1>8 DEF TrialInv

\* The steps that open or finish a report, and that leave a sidecar
LEMMA ReportKeeps ==
  ASSUME TrialInv, NEW r \in Runs, OpenReport(r) \/ FinishReport(r) \/ CreateReport(r)
  PROVE  TrialInv'
<1> DEFINE p == Output[r]
           q == IF FinishReport(r) THEN "written" ELSE "writing"
           new == IF FinishReport(r) THEN WholeOf(r) ELSE TornOf(r)
           f == [files[p] EXCEPT !.report = new]
<1>1. TrialTypes /\ RunInv(r) /\ PathInv(p) /\ p \in Paths
  BY OutputIsPath DEF TrialInv
<1>2. pc[r] \in {"cases", "writing", "creating"} /\ r \in Underway
  BY DEF OpenReport, FinishReport, CreateReport, Underway, Waiting
<1>3. /\ Kind[r] \in {"extraction", "drafting"}
      /\ pc[r] = "cases" => Kind[r] = "extraction"
      /\ pc[r] = "creating" => Kind[r] = "drafting"
  BY <1>1, <1>2, TrialsAssumption DEF TrialTypes, PlacesOf, Ends, Writing
<1>4. /\ pc' = [pc EXCEPT ![r] = q] /\ UNCHANGED <<digest, calls>>
      /\ files' = [files EXCEPT ![p].report = new]
  <2>1. CASE FinishReport(r)
    BY <2>1 DEF FinishReport, Goto, WholeOf
  <2>2. CASE ~FinishReport(r)
    BY <2>2 DEF OpenReport, CreateReport, Goto, TornOf
  <2> QED BY <2>1, <2>2
<1>5. files[p] \in [report : Reports \cup {None}, sidecar : Reports \cup {None}]
  BY <1>1 DEF TrialTypes
<1>6. new \in Reports /\ new # None /\ new.by = r /\ new \in {WholeOf(r), TornOf(r)}
  BY NoneIsNoReport DEF WholeOf, TornOf, Reports
<1>7. q \in {"written", "writing"} /\ (q = "written" <=> new = WholeOf(r)) /\ (q = "writing" <=> new = TornOf(r))
  BY DEF WholeOf, TornOf
<1>8. Kind[r] = "drafting" => (Report(p) # None => Report(p).by = r)
  <2>1. CASE FinishReport(r)
    <3>1. Kind[r] = "drafting" => Report(p) = TornOf(r)
      BY <1>1, <2>1 DEF RunInv, DraftingInv, FinishReport
    <3> QED BY <3>1 DEF TornOf
  <2>2. CASE OpenReport(r)
    BY <1>3, <2>2 DEF OpenReport
  <2>3. CASE CreateReport(r)
    BY <2>3 DEF CreateReport, Report
  <2> QED BY <2>1, <2>2, <2>3
<1> HIDE DEF q, new
<1>9. /\ f \in [report : Reports \cup {None}, sidecar : Reports \cup {None}]
      /\ f.report = new /\ f.sidecar = files[p].sidecar
      /\ files' = [files EXCEPT ![p] = f]
  BY <1>1, <1>4, <1>5, <1>6 DEF TrialTypes
<1>10. pc'[r] = q /\ files'[p] = f /\ calls'[r] = calls[r]
  BY <1>1, <1>4, <1>9 DEF TrialTypes
<1> HIDE DEF f
<1>11. PathInv(p)'
  BY <1>1, <1>3, <1>6, <1>9, <1>10 DEF PathInv, Report
<1>12. RunInv(r)'
  <2>1. Report(p)' = new
    BY <1>9, <1>10 DEF Report
  <2>2. ExtractionInv(r)'
    BY <1>7, <1>10, <2>1 DEF ExtractionInv
  <2>3. DraftingInv(r)'
    BY <1>7, <1>10, <2>1 DEF DraftingInv, Writing
  <2> QED BY <2>2, <2>3 DEF RunInv
<1>13. q \in PlacesOf(Kind[r])
  BY <1>3, <1>7 DEF PlacesOf, Writing
<1> HIDE DEF p
<1> QED BY <1>2, <1>3, <1>4, <1>6, <1>8, <1>9, <1>11, <1>12, <1>13, WriteKeeps DEF p

LEMMA SidecarKeeps ==
  ASSUME TrialInv, NEW r \in Runs, WriteSidecar(r) \/ CreateSidecar(r)
  PROVE  TrialInv'
<1> DEFINE p == Output[r]
           f == [files[p] EXCEPT !.sidecar = WholeOf(r)]
<1>1. TrialTypes /\ RunInv(r) /\ PathInv(p) /\ p \in Paths
  BY OutputIsPath DEF TrialInv
<1>2. pc[r] = "digested" /\ r \in Underway /\ Kind[r] \in {"extraction", "drafting"}
  BY DEF WriteSidecar, CreateSidecar, Underway, Waiting
<1>3. digest[r] = WholeOf(r) /\ Report(p) = WholeOf(r)
  BY <1>1, <1>2 DEF RunInv, ExtractionInv, DraftingInv
<1>4. /\ pc' = [pc EXCEPT ![r] = "done"] /\ UNCHANGED <<digest, calls>>
      /\ files' = [files EXCEPT ![p].sidecar = WholeOf(r)]
  BY <1>3 DEF WriteSidecar, CreateSidecar, Goto
<1>5. files[p] \in [report : Reports \cup {None}, sidecar : Reports \cup {None}]
  BY <1>1 DEF TrialTypes
<1>6. WholeOf(r) \in Reports /\ WholeOf(r) # None /\ WholeOf(r).by = r /\ WholeOf(r).whole
  BY NoneIsNoReport DEF WholeOf, Reports
<1>7. /\ f \in [report : Reports \cup {None}, sidecar : Reports \cup {None}]
      /\ f.report = WholeOf(r) /\ f.sidecar = WholeOf(r)
      /\ files' = [files EXCEPT ![p] = f]
  BY <1>1, <1>3, <1>4, <1>5, <1>6 DEF TrialTypes, Report
<1>8. pc'[r] = "done" /\ files'[p] = f
  BY <1>1, <1>4, <1>7 DEF TrialTypes
<1> HIDE DEF f
<1>9. PathInv(p)'
  BY <1>2, <1>6, <1>7, <1>8 DEF PathInv, Report
<1>10. RunInv(r)'
  BY <1>7, <1>8 DEF RunInv, ExtractionInv, DraftingInv, Report
<1>11. "done" \in PlacesOf(Kind[r])
  BY <1>2 DEF PlacesOf, Ends
<1>12. f.report # None /\ f.report.by = r /\ Report(p).by = r
  BY <1>3, <1>6, <1>7
<1> HIDE DEF p
<1> QED BY <1>2, <1>4, <1>7, <1>9, <1>10, <1>11, <1>12, WriteKeeps DEF p

LEMMA ReadBackKeeps ==
  ASSUME TrialInv, NEW r \in Runs, ReadBack(r)
  PROVE  TrialInv'
<1>1. TrialTypes /\ OneAtATime /\ RunInv(r) /\ Output[r] \in Paths
  BY OutputIsPath DEF TrialInv
<1>2. /\ pc[r] = "written" /\ r \in Underway
      /\ pc' = [pc EXCEPT ![r] = "digested"] /\ UNCHANGED <<files, calls>>
  BY DEF ReadBack, Goto, Underway, Waiting
<1>3. Kind[r] \in {"extraction", "drafting"}
  BY <1>1, <1>2, TrialsAssumption DEF TrialTypes, PlacesOf, Ends
<1>4. Report(Output[r]) = WholeOf(r)
  BY <1>1, <1>2, <1>3 DEF RunInv, ExtractionInv, DraftingInv
<1>5. digest' = [digest EXCEPT ![r] = WholeOf(r)]
  BY <1>4 DEF ReadBack, Report, WholeOf
<1>6. /\ pc'[r] = "digested" /\ digest'[r] = WholeOf(r) /\ calls'[r] = calls[r]
      /\ Report(Output[r])' = WholeOf(r)
      /\ \A s \in Runs : s # r => pc'[s] = pc[s] /\ digest'[s] = digest[s]
  BY <1>1, <1>2, <1>4, <1>5 DEF TrialTypes, Report
<1>7. TrialTypes'
  <2>1. "digested" \in PlacesOf(Kind[r])
    BY <1>3 DEF PlacesOf, Writing
  <2>2. pc' \in [Runs -> UNION {PlacesOf(k) : k \in {"extraction", "drafting", "adapter"}}]
    BY <1>1, <1>2, <1>3, <2>1 DEF TrialTypes
  <2>3. WholeOf(r) \in Reports
    BY DEF WholeOf, Reports
  <2>4. digest' \in [Runs -> Reports \cup {None}]
    BY <1>1, <1>5, <2>3 DEF TrialTypes
  <2>5. \A s \in Runs : pc'[s] \in PlacesOf(Kind[s])
    BY <1>1, <1>6, <2>1 DEF TrialTypes
  <2> QED BY <1>1, <1>2, <2>2, <2>4, <2>5 DEF TrialTypes
<1>8. OneAtATime'
  BY <1>1, <1>2, StaysOneAtATime DEF MayMove
<1>9. \A s \in Paths : PathInv(s)'
  BY <1>2 DEF TrialInv, PathInv, Report
<1>10. RunInv(r)'
  BY <1>6 DEF RunInv, ExtractionInv, DraftingInv, WholeOf, Writing
<1>11. ASSUME NEW s \in Runs, s # r PROVE RunInv(s)'
  BY <1>2, <1>6, <1>11 DEF TrialInv, RunInv, ExtractionInv, DraftingInv, Report
<1> QED BY <1>7, <1>8, <1>9, <1>10, <1>11 DEF TrialInv

-----------------------------------------------------------------------------
(* The theorems                                                            *)

LEMMA NextTrials == TrialInv /\ [Next]_vars => TrialInv'
<1> SUFFICES ASSUME TrialInv, [Next]_vars PROVE TrialInv'
  OBVIOUS
<1>1. CASE UNCHANGED vars
  BY <1>1 DEF vars, TrialInv, TrialTypes, OneAtATime, Underway, PathInv, RunInv, ExtractionInv,
              DraftingInv, Report
<1>2. CASE Next
  <2>1. PICK r \in Runs :
        \/ BeginTrial(r) \/ RefuseTrial(r) \/ BlockCase(r) \/ FailCase(r) \/ AnswerCase(r) \/ EscapeCase(r)
        \/ OpenReport(r) \/ FinishReport(r) \/ ReadBack(r) \/ WriteSidecar(r)
        \/ BeginDraft(r) \/ RefuseDraft(r) \/ BeginAdapter(r) \/ RejectContext(r)
        \/ AnswerDraft(r) \/ FailDraft(r) \/ GarbleDraft(r)
        \/ CheckAgain(r) \/ CreateReport(r) \/ LoseRace(r) \/ CreateSidecar(r)
        \/ FailWrite(r) \/ Kill(r)
    BY <1>2 DEF Next
  <2> QED BY <2>1, ExtractionMoves, DraftingMoves, ReportKeeps, SidecarKeeps, ReadBackKeeps, EndKeeps
<1> QED BY <1>1, <1>2

LEMMA TrialInvariant == Spec => []TrialInv
<1>1. Init => TrialInv
  BY InitTrials
<1>2. TrialInv /\ [Next]_vars => TrialInv'
  BY NextTrials
<1> QED BY <1>1, <1>2, PTL DEF Spec

\* A report that its sidecar vouches for was written to its end, however many
\* trials are killed while they write (main, write_report_with_sidecar).
THEOREM VouchedReportsAreWhole == Spec => []VouchedReportIsWhole
<1>1. TrialInv => VouchedReportIsWhole
  BY DEF TrialInv, PathInv, VouchedReportIsWhole, IsVouched
<1> QED BY <1>1, TrialInvariant, PTL

\* However many drafting trials race for one output, each that called the model
\* and ended has its report there, or found the report of another one
\* (execute_draft_invocation, run_trial).
THEOREM CallsLeaveEvidence == Spec => []CallsAreEvidenced
<1>1. TrialInv => CallsAreEvidenced
  <2> SUFFICES ASSUME TrialInv, NEW r \in Of("drafting"), calls[r] > 0, pc[r] \in {"done", "refused"}
      PROVE  /\ Report(Output[r]) # None
             /\ pc[r] = "done" => Report(Output[r]) = WholeOf(r) /\ IsVouched(Output[r])
             /\ pc[r] = "refused" => Report(Output[r]).by # r
    BY DEF CallsAreEvidenced, WholeOf
  <2>1. DraftingInv(r) /\ r \in Runs
    BY DEF TrialInv, RunInv, Of
  <2>2. Report(Output[r]) # None
    BY <2>1, NoneIsNoReport DEF DraftingInv
  <2>3. CASE pc[r] = "done"
    BY <2>1, <2>2, <2>3 DEF DraftingInv, IsVouched
  <2>4. CASE pc[r] = "refused"
    BY <2>1, <2>2, <2>4 DEF DraftingInv, Writing
  <2> QED BY <2>2, <2>3, <2>4
<1> QED BY <1>1, TrialInvariant, PTL

LEMMA EvidenceStays ==
  ASSUME TrialInv, [Next]_vars, NEW p \in Paths,
         IsEvidence(p), Report(p).by \in Of("drafting")
  PROVE  Report(p)' = Report(p)
<1>1. TrialTypes /\ PathInv(p)
  BY DEF TrialInv
<1>2. CASE UNCHANGED files
  BY <1>2 DEF Report
<1>3. ASSUME NEW r \in Runs,
             files' = [files EXCEPT ![Output[r]].sidecar = digest[r]]
      PROVE  Report(p)' = Report(p)
  <2>1. files[p] \in [report : Reports \cup {None}, sidecar : Reports \cup {None}]
    BY <1>1 DEF TrialTypes
  <2> QED BY <1>1, <1>3, <2>1 DEF TrialTypes, Report
<1>4. ASSUME NEW r \in Runs, OpenReport(r) \/ FinishReport(r) \/ CreateReport(r)
      PROVE  Report(p)' = Report(p)
  <2>1. p # Output[r] => files'[p] = files[p]
    BY <1>1, <1>4 DEF TrialTypes, OpenReport, FinishReport, CreateReport
  <2>2. CASE p # Output[r]
    BY <2>1, <2>2 DEF Report
  <2>3. CASE p = Output[r]
    <3>1. Kind[r] # "extraction"
      BY <1>1, <2>3, TrialsAssumption DEF PathInv, IsEvidence, Of
    <3>2. /\ pc[r] \in {"cases", "writing", "creating"}
          /\ pc[r] = "cases" => Kind[r] = "extraction"
          /\ pc[r] = "writing" => Kind[r] \in {"extraction", "drafting"}
      BY <1>1, <1>4, TrialsAssumption
         DEF TrialTypes, PlacesOf, Ends, Writing, OpenReport, FinishReport, CreateReport
    <3>3. CASE pc[r] = "writing"
      <4>1. Report(p) = TornOf(r)
        BY <2>3, <3>1, <3>2, <3>3 DEF TrialInv, RunInv, DraftingInv
      <4> QED BY <4>1 DEF IsEvidence, TornOf
    <3>4. CASE pc[r] = "creating"
      BY <1>4, <2>3, <3>4 DEF OpenReport, FinishReport, CreateReport, IsEvidence, Report
    <3> QED BY <3>1, <3>2, <3>3, <3>4
  <2> QED BY <2>2, <2>3
<1>5. ASSUME NEW r \in Runs,
             \/ BeginTrial(r) \/ RefuseTrial(r) \/ BlockCase(r) \/ FailCase(r) \/ AnswerCase(r) \/ EscapeCase(r)
             \/ ReadBack(r) \/ BeginDraft(r) \/ RefuseDraft(r) \/ BeginAdapter(r) \/ RejectContext(r)
             \/ AnswerDraft(r) \/ FailDraft(r) \/ GarbleDraft(r)
             \/ CheckAgain(r) \/ LoseRace(r) \/ FailWrite(r) \/ Kill(r)
      PROVE  UNCHANGED files
  BY <1>5 DEF BeginTrial, RefuseTrial, BlockCase, FailCase, AnswerCase, EscapeCase, ReadBack,
              BeginDraft, RefuseDraft, BeginAdapter, RejectContext, AnswerDraft, FailDraft, GarbleDraft,
              CheckAgain, LoseRace, FailWrite, Kill
<1>6. ASSUME NEW r \in Runs, WriteSidecar(r) \/ CreateSidecar(r)
      PROVE  files' = [files EXCEPT ![Output[r]].sidecar = digest[r]]
  BY <1>6 DEF WriteSidecar, CreateSidecar
<1>7. UNCHANGED vars => UNCHANGED files
  BY DEF vars
<1> QED BY <1>2, <1>3, <1>4, <1>5, <1>6, <1>7 DEF Next

\* What a drafting trial has written to its end stays as it is, however many others
\* race for the same output (_write_exclusive).
THEOREM EvidenceIsNotOverwritten == Spec => EvidenceIsImmutable
<1>1. TrialInv /\ [Next]_vars =>
        [\A p \in Paths : IsEvidence(p) /\ Report(p).by \in Of("drafting") => Report(p)' = Report(p)]_vars
  BY EvidenceStays
<1> QED BY <1>1, TrialInvariant, PTL DEF Spec, EvidenceIsImmutable

-----------------------------------------------------------------------------
(* What an accepted draft tells                                            *)

\* Variables that hold something for each run, whatever it is
HoldsPerRun(f) == f = [r \in Runs |-> f[r]]

\* A draft answers the context of its run, which the adapter found fit and which
\* stays as it was.
DraftAnswers(r) ==
    draft[r] # None =>
        /\ pc[r] # "idle" /\ IsFit(r)
        /\ \E a : draft[r] = DraftOf(context[r], a)

\* The inductive invariant
DraftInv ==
    /\ HoldsPerRun(context) /\ HoldsPerRun(draft)
    /\ \A r \in Runs : DraftAnswers(r)

\* No run goes back to where it began.
LEMMA BegunOnce ==
  ASSUME TrialTypes, [Next]_vars, NEW s \in Runs, pc[s] # "idle"
  PROVE  pc'[s] # "idle"
<1>1. ASSUME NEW r \in Runs, NEW q, q # "idle", Goto(r, q) PROVE pc'[s] # "idle"
  BY <1>1 DEF Goto, TrialTypes
<1>2. CASE UNCHANGED vars
  BY <1>2 DEF vars
<1>3. CASE Next
  <2>1. PICK r \in Runs :
        \/ BeginTrial(r) \/ RefuseTrial(r) \/ BlockCase(r) \/ FailCase(r) \/ AnswerCase(r) \/ EscapeCase(r)
        \/ OpenReport(r) \/ FinishReport(r) \/ ReadBack(r) \/ WriteSidecar(r)
        \/ BeginDraft(r) \/ RefuseDraft(r) \/ BeginAdapter(r) \/ RejectContext(r)
        \/ AnswerDraft(r) \/ FailDraft(r) \/ GarbleDraft(r)
        \/ CheckAgain(r) \/ CreateReport(r) \/ LoseRace(r) \/ CreateSidecar(r)
        \/ FailWrite(r) \/ Kill(r)
    BY <1>3 DEF Next
  <2>2. CASE BlockCase(r) \/ FailCase(r) \/ AnswerCase(r)
    BY <2>2 DEF BlockCase, FailCase, AnswerCase
  <2>3. CASE BeginTrial(r) \/ RefuseTrial(r) \/ EscapeCase(r) \/ OpenReport(r) \/ FinishReport(r)
    BY <1>1, <2>3 DEF BeginTrial, RefuseTrial, EscapeCase, OpenReport, FinishReport
  <2>4. CASE ReadBack(r) \/ WriteSidecar(r) \/ CreateReport(r) \/ LoseRace(r) \/ CreateSidecar(r)
          \/ FailWrite(r) \/ Kill(r)
    BY <1>1, <2>4 DEF ReadBack, WriteSidecar, CreateReport, LoseRace, CreateSidecar, FailWrite, Kill
  <2>5. CASE BeginDraft(r) \/ RefuseDraft(r) \/ BeginAdapter(r) \/ CheckAgain(r)
    BY <1>1, <2>5 DEF BeginDraft, RefuseDraft, BeginAdapter, CheckAgain
  <2>6. CASE RejectContext(r) \/ AnswerDraft(r) \/ FailDraft(r) \/ GarbleDraft(r)
    BY <1>1, <2>6 DEF RejectContext, AnswerDraft, FailDraft, GarbleDraft, AfterCall
  <2> QED BY <2>1, <2>2, <2>3, <2>4, <2>5, <2>6
<1> QED BY <1>2, <1>3

LEMMA InitDrafts == Init => DraftInv
BY DEF Init, DraftInv, HoldsPerRun, DraftAnswers

LEMMA NextDrafts == TrialInv /\ DraftInv /\ [Next]_vars => DraftInv'
<1> SUFFICES ASSUME TrialInv, DraftInv, [Next]_vars PROVE DraftInv'
  OBVIOUS
<1>1. HoldsPerRun(context) /\ HoldsPerRun(draft) /\ \A r \in Runs : DraftAnswers(r)
  BY DEF DraftInv
<1>2. \A s \in Runs : pc[s] # "idle" => pc'[s] # "idle"
  BY BegunOnce DEF TrialInv
<1>3. CASE UNCHANGED drafting
  <2>1. context' = context /\ draft' = draft
    BY <1>3 DEF drafting
  <2> QED BY <1>1, <1>2, <2>1 DEF DraftInv, HoldsPerRun, DraftAnswers, IsFit
<1>4. ASSUME NEW r \in Runs, NEW c, pc[r] = "idle", draft' = draft,
             context' = [context EXCEPT ![r] = c]
      PROVE  DraftInv'
  <2>1. HoldsPerRun(context)' /\ HoldsPerRun(draft)'
    BY <1>1, <1>4 DEF HoldsPerRun
  <2>2. \A s \in Runs : s # r => context'[s] = context[s]
    BY <1>1, <1>4 DEF HoldsPerRun
  <2>3. draft'[r] = None
    BY <1>1, <1>4 DEF DraftAnswers
  <2>4. \A s \in Runs : DraftAnswers(s)'
    BY <1>1, <1>2, <1>4, <2>2, <2>3 DEF DraftAnswers, IsFit
  <2> QED BY <2>1, <2>4 DEF DraftInv
<1>5. ASSUME NEW r \in Runs, AnswerDraft(r) PROVE DraftInv'
  <2>1. PICK a \in Drafts(context[r]) : draft' = [draft EXCEPT ![r] = DraftOf(context[r], a)]
    BY <1>5 DEF AnswerDraft
  <2>2. context' = context /\ pc[r] = "ready" /\ IsFit(r)
    BY <1>5 DEF AnswerDraft
  <2>3. HoldsPerRun(context)' /\ HoldsPerRun(draft)'
    BY <1>1, <2>1, <2>2 DEF HoldsPerRun
  <2>4. \A s \in Runs : draft'[s] = IF s = r THEN DraftOf(context[r], a) ELSE draft[s]
    BY <1>1, <2>1 DEF HoldsPerRun
  <2>5. DraftAnswers(r)'
    BY <1>2, <2>2, <2>4 DEF DraftAnswers, IsFit
  <2>6. \A s \in Runs : s # r => DraftAnswers(s)'
    BY <1>1, <1>2, <2>2, <2>4 DEF DraftAnswers, IsFit
  <2> QED BY <2>3, <2>5, <2>6 DEF DraftInv
<1>6. ASSUME NEW r \in Runs, BeginDraft(r) \/ BeginAdapter(r) PROVE DraftInv'
  BY <1>4, <1>6 DEF BeginDraft, BeginAdapter, MayBegin
<1>7. ASSUME NEW r \in Runs,
             \/ BeginTrial(r) \/ RefuseTrial(r) \/ BlockCase(r) \/ FailCase(r) \/ AnswerCase(r) \/ EscapeCase(r)
             \/ OpenReport(r) \/ FinishReport(r) \/ ReadBack(r) \/ WriteSidecar(r)
             \/ RefuseDraft(r) \/ RejectContext(r) \/ FailDraft(r) \/ GarbleDraft(r)
             \/ CheckAgain(r) \/ CreateReport(r) \/ LoseRace(r) \/ CreateSidecar(r)
             \/ FailWrite(r) \/ Kill(r)
      PROVE  UNCHANGED drafting
  BY <1>7 DEF BeginTrial, RefuseTrial, BlockCase, FailCase, AnswerCase, EscapeCase, OpenReport,
              FinishReport, ReadBack, WriteSidecar, RefuseDraft, RejectContext, FailDraft, GarbleDraft,
              CheckAgain, CreateReport, LoseRace, CreateSidecar,
         FailWrite, Kill
<1>8. UNCHANGED vars => UNCHANGED drafting
  BY DEF vars
<1> QED BY <1>3, <1>5, <1>6, <1>7, <1>8 DEF Next

LEMMA DraftInvariant == Spec => []DraftInv
<1>1. Init => DraftInv
  BY InitDrafts
<1>2. TrialInv /\ DraftInv /\ [Next]_vars => DraftInv'
  BY NextDrafts
<1> QED BY <1>1, <1>2, TrialInvariant, PTL DEF Spec

\* What a draft of a valid context tells is supported, agrees with itself and holds
\* nothing restricted; a rejected draft tells nothing.
LEMMA DraftTellsSupported ==
  ASSUME NEW c, NEW a, IsValidContext(c)
  PROVE  LET d == DraftOf(c, a)
             told == {x \in c.claims : x.id \in Drafted(d.units)}
         IN  /\ \A x \in told :
                  /\ x.state = "active" /\ x.value \notin Restricted
                  /\ {x.subject} \cup x.targets \subseteq c.entities \ Restricted
                  /\ \E i \in DOMAIN d.units :
                        /\ x.id \in d.units[i].claims
                        /\ x.supports \cap d.units[i].evidence \cap c.evidence # {}
             /\ \A x, y \in told : ~AreConflicting(x, y)
<1> DEFINE d == DraftOf(c, a)
           told == {x \in c.claims : x.id \in Drafted(d.units)}
<1>1. CASE IsAcceptable(c, a)
  <2>1. d.units = a.units
    BY <1>1 DEF DraftOf
  <2>2. \A i \in DOMAIN a.units : UnitIsSupported(c, a.units[i])
    BY <1>1 DEF IsAcceptable
  <2>3. ASSUME NEW x \in told
        PROVE  /\ x.state = "active" /\ x.value \notin Restricted
               /\ {x.subject} \cup x.targets \subseteq c.entities \ Restricted
               /\ \E i \in DOMAIN d.units :
                     /\ x.id \in d.units[i].claims
                     /\ x.supports \cap d.units[i].evidence \cap c.evidence # {}
    <3>1. x \in c.claims /\ x.state = "active"
      BY DEF IsValidContext
    <3>2. {x.subject} \cup x.targets \subseteq c.entities
      BY DEF IsValidContext
    <3>3. x.supports \subseteq c.evidence
      BY DEF IsValidContext
    <3>4. Restricted \cap c.entities = {} /\ x.value \notin Restricted
      BY DEF IsValidContext, TellsNothingRestricted
    <3>5. PICK i \in DOMAIN a.units : x.id \in a.units[i].claims
      BY <2>1 DEF Drafted
    <3>6. x.supports \cap a.units[i].evidence # {}
      BY <2>2, <3>1, <3>5 DEF UnitIsSupported, ClaimsWith
    <3>7. x.supports \cap a.units[i].evidence \cap c.evidence # {}
      BY <3>3, <3>6
    <3> HIDE DEF d
    <3> QED BY <2>1, <3>1, <3>2, <3>4, <3>5, <3>7
  <2>4. \A x, y \in told : ~AreConflicting(x, y)
    BY DEF IsValidContext
  <2> QED BY <2>3, <2>4
<1>2. CASE ~IsAcceptable(c, a)
  <2>1. d.units = <<>>
    BY <1>2 DEF DraftOf
  <2>2. told = {}
    BY <2>1 DEF Drafted
  <2> QED BY <2>2
<1> QED BY <1>1, <1>2

\* For any contexts and answers, and whichever caller made the context, a draft
\* that is accepted for editorial review tells active, supported Claims that agree
\* and nothing restricted (build_bilingual_draft_run, validate_drafting_context).
THEOREM AcceptedDraftsAreGrounded == Spec => []AcceptedDraftIsGrounded
<1>1. DraftInv => AcceptedDraftIsGrounded
  <2> SUFFICES ASSUME DraftInv, NEW r \in Runs, draft[r] # None
      PROVE  LET c == context[r]
                 told == {a \in c.claims : a.id \in Drafted(draft[r].units)}
             IN  /\ \A a \in told :
                       /\ a.state = "active" /\ a.value \notin Restricted
                       /\ {a.subject} \cup a.targets \subseteq c.entities \ Restricted
                       /\ \E i \in DOMAIN draft[r].units :
                             /\ a.id \in draft[r].units[i].claims
                             /\ a.supports \cap draft[r].units[i].evidence \cap c.evidence # {}
                 /\ \A a, b \in told : ~AreConflicting(a, b)
    BY DEF AcceptedDraftIsGrounded
  <2>1. IsValidContext(context[r]) /\ \E a : draft[r] = DraftOf(context[r], a)
    BY DEF DraftInv, DraftAnswers, IsFit
  <2> QED BY <2>1, DraftTellsSupported
<1> QED BY <1>1, DraftInvariant, PTL

-----------------------------------------------------------------------------
(* Matching, first come, first served                                      *)

\* The order of the natural numbers is well founded.
LEMMA NaturalOrder ==
  \E R : IsWellFoundedOn(R, Nat) /\ \A x, y \in Nat : x < y => <<x, y>> \in R
<1> DEFINE R == OpToRel(<, Nat)
<1>1. \A x, y \in Nat : x < y => <<x, y>> \in R
  BY DEF OpToRel
<1>2. IsWellFoundedOn(R, Nat)
  BY NatLessThanWellFounded
<1> HIDE DEF R
<1> QED BY <1>1, <1>2

\* Every nonempty set of them has a least one.
LEMMA LeastNatural ==
  ASSUME NEW S, S \subseteq Nat, S # {}
  PROVE  LeastOf(S) \in S /\ \A j \in S : LeastOf(S) <= j
<1>1. PICK R : IsWellFoundedOn(R, Nat) /\ \A x, y \in Nat : x < y => <<x, y>> \in R
  BY NaturalOrder
<1>2. PICK x \in S : \A y \in S : ~(<<y, x>> \in R)
  <2>1. IsWellFoundedOn(R, Nat)
    BY <1>1
  <2> QED BY <2>1, WFMin
<1>3. ASSUME NEW j \in S PROVE x <= j
  <2>1. ~(<<j, x>> \in R)
    BY <1>2
  <2>2. ~(j < x)
    BY <1>1, <2>1, Zenon
  <2> QED BY <2>2
<1> QED BY <1>3 DEF LeastOf

\* Induction: a set that holds zero and every successor holds them all.
LEMMA NaturalInduction ==
  ASSUME NEW S, 0 \in S, \A n \in Nat : n \in S => n + 1 \in S
  PROVE  Nat \subseteq S
<1> DEFINE T == Nat \ S
           x == LeastOf(T)
<1> SUFFICES ASSUME T # {} PROVE FALSE
  OBVIOUS
<1>1. x \in T /\ \A j \in T : x <= j
  BY LeastNatural
<1> HIDE DEF x
<1>2. x # 0 /\ x \in Nat
  BY <1>1
<1>3. x - 1 \in Nat /\ ~(x <= x - 1)
  BY <1>2
<1>4. x - 1 \in S
  BY <1>1, <1>3
<1>5. (x - 1) + 1 \in S
  BY <1>3, <1>4
<1>6. (x - 1) + 1 = x
  BY <1>2
<1> QED BY <1>1, <1>5, <1>6

\* The recursion of LeftAfter has a solution, and this is the one it takes.
LEMMA ServingIsDefined ==
  ASSUME NEW expected, NEW actual, NEW k \in Nat
  PROVE  \E left : left = [n \in 0..k |-> IF n = 0 THEN DOMAIN actual
                                          ELSE Serve(expected, actual, left[n - 1], n)]
<1> DEFINE Solves(f, m) ==
             f = [n \in 0..m |-> IF n = 0 THEN DOMAIN actual
                                 ELSE Serve(expected, actual, f[n - 1], n)]
           S == {m \in Nat : \E f : Solves(f, m)}
<1>1. 0 \in S
  <2>1. Solves([n \in 0..0 |-> DOMAIN actual], 0)
    OBVIOUS
  <2> QED BY <2>1
<1>2. ASSUME NEW m \in Nat, m \in S PROVE m + 1 \in S
  <2>1. PICK f : Solves(f, m)
    BY <1>2
  <2> DEFINE g == [n \in 0..(m + 1) |-> IF n = m + 1 THEN Serve(expected, actual, f[m], m + 1) ELSE f[n]]
  <2>2. \A n \in 0..m : f[n] = IF n = 0 THEN DOMAIN actual ELSE Serve(expected, actual, f[n - 1], n)
    BY <2>1
  <2>3. ASSUME NEW n \in 0..(m + 1)
        PROVE  g[n] = IF n = 0 THEN DOMAIN actual ELSE Serve(expected, actual, g[n - 1], n)
    <3>1. CASE n = 0
      BY <2>2, <3>1
    <3>2. CASE n = m + 1
      BY <3>2
    <3>3. CASE n \in 1..m
      <4>1. n \in 0..m /\ n - 1 \in 0..(m + 1) /\ n # m + 1 /\ n - 1 # m + 1 /\ n # 0
        BY <3>3
      <4>2. g[n] = f[n] /\ g[n - 1] = f[n - 1]
        BY <4>1
      <4> HIDE DEF g
      <4> QED BY <2>2, <4>1, <4>2
    <3> QED BY <3>1, <3>2, <3>3
  <2>4. Solves(g, m + 1)
    BY <2>3
  <2> HIDE DEF g, Solves
  <2> QED BY <2>4
<1>3. Nat \subseteq S
  <2> HIDE DEF S
  <2> QED BY <1>1, <1>2, NaturalInduction
<1> QED BY <1>3

LEMMA LeftAfterDef ==
  ASSUME NEW expected, NEW actual, NEW k \in Nat
  PROVE  \E left :
           /\ left = [n \in 0..k |-> IF n = 0 THEN DOMAIN actual
                                     ELSE Serve(expected, actual, left[n - 1], n)]
           /\ LeftAfter(expected, actual, k) = left[k]
<1> DEFINE Body(f) == [n \in 0..k |-> IF n = 0 THEN DOMAIN actual
                                      ELSE Serve(expected, actual, f[n - 1], n)]
           left == CHOOSE f : f = Body(f)
<1>1. LeftAfter(expected, actual, k) = left[k]
  BY DEF LeftAfter
<1>2. left = Body(left)
  BY ServingIsDefined
<1> QED BY <1>1, <1>2

\* Whatever can be served first come, first served, can be matched one to one: a
\* candidate leaves only when an expectation takes it, and there are as many.
LEMMA ServedIsMatched ==
  ASSUME NEW expected, NEW actual, NEW k \in Nat,
         DOMAIN expected = 1..k, DOMAIN actual = 1..k,
         LeftAfter(expected, actual, k) = {}
  PROVE  IsPerfectMatch(expected, actual)
<1>1. PICK left :
        /\ left = [n \in 0..k |-> IF n = 0 THEN DOMAIN actual
                                  ELSE Serve(expected, actual, left[n - 1], n)]
        /\ LeftAfter(expected, actual, k) = left[k]
  BY LeftAfterDef
<1> DEFINE fitting(n) == {i \in left[n - 1] : Fits(expected[n], actual[i])}
           takes(n) == fitting(n) # {}
           f == [n \in 1..k |-> IF takes(n) THEN LeastOf(fitting(n)) ELSE 1]
<1>2. left[0] = 1..k /\ left[k] = {}
  BY <1>1
<1>3. \A n \in 1..k : left[n] = Serve(expected, actual, left[n - 1], n)
  BY <1>1
<1>4. \A n \in 0..k : left[n] \subseteq 1..k
  <2> DEFINE S == {n \in Nat : n <= k => left[n] \subseteq 1..k}
  <2>1. 0 \in S
    BY <1>2
  <2>2. ASSUME NEW n \in Nat, n \in S PROVE n + 1 \in S
    <3>1. n + 1 <= k => left[n + 1] = Serve(expected, actual, left[n], n + 1)
      BY <1>3
    <3>2. Serve(expected, actual, left[n], n + 1) \subseteq left[n]
      BY DEF Serve
    <3> QED BY <2>2, <3>1, <3>2
  <2>3. Nat \subseteq S
    <3> HIDE DEF S
    <3> QED BY <2>1, <2>2, NaturalInduction
  <2> QED BY <2>3
<1>5. \A n \in 1..k : takes(n) => LeastOf(fitting(n)) \in fitting(n)
  <2> TAKE n \in 1..k
  <2>1. fitting(n) \subseteq Nat
    BY <1>4
  <2> HIDE DEF fitting
  <2> QED BY <2>1, LeastNatural
<1>6. \A n \in 1..k : takes(n) => f[n] \in 1..k /\ Fits(expected[n], actual[f[n]])
  BY <1>4, <1>5
<1>7. \A n \in 1..k : left[n] = IF takes(n) THEN left[n - 1] \ {f[n]} ELSE left[n - 1]
  BY <1>3 DEF Serve
<1>8. f \in [1..k -> 1..k]
  <2>1. \A n \in 1..k : 1 \in 1..k
    OBVIOUS
  <2> HIDE DEF takes
  <2> QED BY <1>6, <2>1
<1> HIDE DEF f, takes
<1>9. ASSUME NEW i \in 1..k PROVE \E n \in 1..k : takes(n) /\ f[n] = i
  <2> DEFINE gone == {n \in Nat : n <= k /\ i \notin left[n]}
             m == LeastOf(gone)
  <2>1. m \in gone /\ \A j \in gone : m <= j
    <3>1. k \in gone
      BY <1>2
    <3>2. gone \subseteq Nat
      OBVIOUS
    <3> HIDE DEF gone
    <3> QED BY <3>1, <3>2, LeastNatural
  <2> HIDE DEF m
  <2>2. m \in 1..k
    BY <1>2, <2>1
  <2>3. i \in left[m - 1] /\ i \notin left[m]
    <3>1. m - 1 \in Nat /\ m - 1 <= k /\ ~(m <= m - 1)
      BY <2>2
    <3>2. m - 1 \notin gone
      BY <2>1, <3>1
    <3> QED BY <2>1, <3>1, <3>2
  <2> QED BY <1>7, <2>2, <2>3
<1>10. f \in Injection(1..k, 1..k)
  <2>1. f \in Surjection(1..k, 1..k)
    BY <1>8, <1>9, Fun_IsSurj
  <2>2. IsFiniteSet(1..k)
    BY FS_Interval
  <2> QED BY <2>1, <2>2, FS_SurjSameCardinalityImpliesInj
<1>11. \A m, n \in 1..k : f[m] = f[n] => m = n
  BY <1>10, Fun_InjectionProperties
<1>12. \A n \in 1..k : takes(n)
  <2> SUFFICES ASSUME NEW n \in 1..k, ~takes(n) PROVE FALSE
    OBVIOUS
  <2>1. f[n] \in 1..k
    BY <1>8
  <2>2. PICK m \in 1..k : takes(m) /\ f[m] = f[n]
    BY <1>9, <2>1
  <2>3. m = n
    BY <1>11, <2>2
  <2> QED BY <2>2, <2>3
<1>13. {f[i] : i \in 1..k} = 1..k
  BY <1>8, <1>9
<1>14. \A n \in 1..k : Fits(expected[n], actual[f[n]])
  BY <1>6, <1>12
<1> QED BY <1>8, <1>11, <1>13, <1>14 DEF IsPerfectMatch

LEMMA PassesIsMatched ==
  ASSUME NEW expected, NEW actual, IsList(expected), IsList(actual), AllServed(expected, actual)
  PROVE  IsPerfectMatch(expected, actual)
<1> DEFINE k == Len(expected)
<1>1. k \in Nat /\ DOMAIN expected = 1..k /\ DOMAIN actual = 1..Len(actual)
  BY DEF IsList
<1>2. Len(actual) = k /\ LeftAfter(expected, actual, k) = {}
  BY DEF AllServed
<1> HIDE DEF k
<1> QED BY <1>1, <1>2, ServedIsMatched


-----------------------------------------------------------------------------
(* What an extraction trial has done for each case                         *)

AllCases == UNION {{c[i] : i \in DOMAIN c} : c \in Corpora}
AllResults ==
    [invoked : BOOLEAN, run : {None} \cup {RunOf(a) : a \in Texts}, pass : BOOLEAN]

\* Of the cases that have a result, those that were sent
Sent(r) == Cardinality({i \in 1..Len(results[r]) : IsSendable(cases[r][i])})
Reported(r) == \E p \in Paths : Report(p) # None /\ Report(p).by = r
IsFinished(r) == Len(results[r]) = Len(cases[r]) /\ calls[r] = Sent(r)

\* A case that expects records passes on candidates that serve them all.
IsProven(case, result) ==
    case.gold = "accepted_for_candidate_review" /\ result.pass =>
        IsList(result.run.records) /\ AllServed(case.expected, result.run.records)

\* A call for each case that was sent, as long as no answer has ended the trial;
\* nothing is written before every case has its result.
CaseInv(r) ==
    /\ cases[r] \in Seq(AllCases) /\ results[r] \in Seq(AllResults)
    /\ Len(results[r]) <= Len(cases[r])
    /\ pc[r] = "idle" => calls[r] = 0 /\ results[r] = <<>> /\ ~Reported(r)
    /\ pc[r] = "cases" => calls[r] = Sent(r)
    /\ pc[r] \in Writing \cup {"done"} \/ Reported(r) => IsFinished(r)
    /\ \A i \in 1..Len(results[r]) : IsProven(cases[r][i], results[r][i])

\* The inductive invariant
CasesInv ==
    /\ HoldsPerRun(cases) /\ HoldsPerRun(results)
    /\ \A r \in Of("extraction") : CaseInv(r)

\* The steps of a run
Step(r) ==
    \/ BeginTrial(r) \/ RefuseTrial(r) \/ BlockCase(r) \/ FailCase(r) \/ AnswerCase(r) \/ EscapeCase(r)
    \/ OpenReport(r) \/ FinishReport(r) \/ ReadBack(r) \/ WriteSidecar(r)
    \/ BeginDraft(r) \/ RefuseDraft(r) \/ BeginAdapter(r) \/ RejectContext(r)
    \/ AnswerDraft(r) \/ FailDraft(r) \/ GarbleDraft(r)
    \/ CheckAgain(r) \/ CreateReport(r) \/ LoseRace(r) \/ CreateSidecar(r)
    \/ FailWrite(r) \/ Kill(r)

\* A run tries, writes and counts for itself only.
LEMMA RunsAreApart ==
  ASSUME TrialTypes, HoldsPerRun(cases), HoldsPerRun(results), NEW r \in Runs, Step(r)
  PROVE  /\ HoldsPerRun(cases)' /\ HoldsPerRun(results)'
         /\ \A s \in Runs : s # r =>
              /\ pc'[s] = pc[s] /\ calls'[s] = calls[s]
              /\ cases'[s] = cases[s] /\ results'[s] = results[s]
<1>1. /\ pc \in [Runs -> UNION {PlacesOf(k) : k \in {"extraction", "drafting", "adapter"}}]
      /\ calls \in [Runs -> Nat]
  BY DEF TrialTypes
<1>2. pc' = pc \/ \E q : pc' = [pc EXCEPT ![r] = q]
  BY DEF Step, Goto, BeginTrial, RefuseTrial, BlockCase, FailCase, AnswerCase, EscapeCase, OpenReport,
         FinishReport, ReadBack, WriteSidecar, BeginDraft, RefuseDraft, BeginAdapter, RejectContext,
         AnswerDraft, FailDraft, GarbleDraft, CheckAgain, CreateReport, LoseRace, CreateSidecar,
         FailWrite, Kill
<1>3. calls' = calls \/ calls' = [calls EXCEPT ![r] = @ + 1]
  BY DEF Step, Call, BeginTrial, RefuseTrial, BlockCase, FailCase, AnswerCase, EscapeCase, OpenReport,
         FinishReport, ReadBack, WriteSidecar, BeginDraft, RefuseDraft, BeginAdapter, RejectContext,
         AnswerDraft, FailDraft, GarbleDraft, CheckAgain, CreateReport, LoseRace, CreateSidecar,
         FailWrite, Kill
<1>4. cases' = cases \/ \E c : cases' = [cases EXCEPT ![r] = c]
  BY DEF Step, trial, Result, BeginTrial, RefuseTrial, BlockCase, FailCase, AnswerCase, EscapeCase,
         OpenReport, FinishReport, ReadBack, WriteSidecar, BeginDraft, RefuseDraft, BeginAdapter,
         RejectContext, AnswerDraft, FailDraft, GarbleDraft, CheckAgain, CreateReport, LoseRace,
         CreateSidecar, FailWrite, Kill
<1>5. results' = results \/ \E c : results' = [results EXCEPT ![r] = c]
  BY DEF Step, trial, Result, BeginTrial, RefuseTrial, BlockCase, FailCase, AnswerCase, EscapeCase,
         OpenReport, FinishReport, ReadBack, WriteSidecar, BeginDraft, RefuseDraft, BeginAdapter,
         RejectContext, AnswerDraft, FailDraft, GarbleDraft, CheckAgain, CreateReport, LoseRace,
         CreateSidecar, FailWrite, Kill
<1>6. HoldsPerRun(cases)' /\ HoldsPerRun(results)'
  BY <1>4, <1>5 DEF HoldsPerRun
<1>7. \A s \in Runs : s # r => pc'[s] = pc[s] /\ calls'[s] = calls[s]
  BY <1>1, <1>2, <1>3
<1>8. \A s \in Runs : s # r => cases'[s] = cases[s] /\ results'[s] = results[s]
  BY <1>4, <1>5 DEF HoldsPerRun
<1> QED BY <1>6, <1>7, <1>8

\* Only a run itself opens or finishes a report of its own.
LEMMA OwnReports ==
  ASSUME TrialTypes, NEW r \in Runs, Step(r), NEW s \in Runs, Reported(s)'
  PROVE  Reported(s) \/ (s = r /\ (OpenReport(r) \/ FinishReport(r) \/ CreateReport(r)))
<1>1. PICK p \in Paths : Report(p)' # None /\ Report(p)'.by = s
  BY DEF Reported
<1>2. files \in [Paths -> [report : Reports \cup {None}, sidecar : Reports \cup {None}]]
  BY DEF TrialTypes
<1>3. files[p] \in [report : Reports \cup {None}, sidecar : Reports \cup {None}]
  BY <1>2
<1>4. CASE Report(p)' = Report(p)
  BY <1>1, <1>4 DEF Reported
<1>5. CASE OpenReport(r) \/ FinishReport(r) \/ CreateReport(r)
  <2>1. Report(p)' = Report(p) \/ Report(p)'.by = r
    <3>1. Report(p)' = Report(p) \/ Report(p)' \in {TornOf(r), WholeOf(r)}
      BY <1>2, <1>3, <1>5 DEF OpenReport, FinishReport, CreateReport, Report, TornOf, WholeOf
    <3> QED BY <3>1 DEF TornOf, WholeOf
  <2> QED BY <1>1, <1>4, <1>5, <2>1
<1>6. CASE WriteSidecar(r) \/ CreateSidecar(r)
  <2>1. Report(p)' = Report(p)
    BY <1>2, <1>3, <1>6 DEF WriteSidecar, CreateSidecar, Report
  <2> QED BY <1>4, <2>1
<1>7. ASSUME \/ BeginTrial(r) \/ RefuseTrial(r) \/ BlockCase(r) \/ FailCase(r) \/ AnswerCase(r) \/ EscapeCase(r)
             \/ ReadBack(r) \/ BeginDraft(r) \/ RefuseDraft(r) \/ BeginAdapter(r) \/ RejectContext(r)
             \/ AnswerDraft(r) \/ FailDraft(r) \/ GarbleDraft(r)
             \/ CheckAgain(r) \/ LoseRace(r) \/ FailWrite(r) \/ Kill(r)
      PROVE  Report(p)' = Report(p)
  <2>1. UNCHANGED files
    BY <1>7 DEF BeginTrial, RefuseTrial, BlockCase, FailCase, AnswerCase, EscapeCase, ReadBack,
                BeginDraft, RefuseDraft, BeginAdapter, RejectContext, AnswerDraft, FailDraft, GarbleDraft,
                CheckAgain, LoseRace, FailWrite, Kill
  <2> QED BY <2>1 DEF Report
<1> QED BY <1>4, <1>5, <1>6, <1>7 DEF Step

\* A step that leaves a run's cases, results and calls alone keeps what is said of
\* them, if the run writes only when it is finished.
LEMMA CasesStay ==
  ASSUME NEW s \in Of("extraction"), CaseInv(s),
         cases'[s] = cases[s], results'[s] = results[s], calls'[s] = calls[s],
         \/ pc'[s] = pc[s]
         \/ pc'[s] \in {"refused", "raised", "died"}
         \/ pc'[s] \in Writing \cup {"done"} /\ IsFinished(s),
         Reported(s)' => Reported(s) \/ (IsFinished(s) /\ pc'[s] # "idle")
  PROVE  CaseInv(s)'
<1>1. Sent(s)' = Sent(s) /\ (IsFinished(s) => IsFinished(s)')
  BY DEF Sent, IsFinished
<1> QED BY <1>1 DEF CaseInv, Writing

\* One more result adds one to the cases that were sent, if its case was.
LEMMA OneMoreSent ==
  ASSUME NEW n \in Nat, NEW c
  PROVE  Cardinality({i \in 1..(n + 1) : IsSendable(c[i])})
           = Cardinality({i \in 1..n : IsSendable(c[i])}) + IF IsSendable(c[n + 1]) THEN 1 ELSE 0
<1> DEFINE S == {i \in 1..n : IsSendable(c[i])}
           T == {i \in 1..(n + 1) : IsSendable(c[i])}
<1> SUFFICES Cardinality(T) = Cardinality(S) + IF IsSendable(c[n + 1]) THEN 1 ELSE 0
  OBVIOUS
<1>1. IsFiniteSet(S) /\ Cardinality(S) \in Nat
  <2>1. IsFiniteSet(1..n) /\ S \in SUBSET (1..n)
    BY FS_Interval
  <2> HIDE DEF S
  <2> QED BY <2>1, FS_Subset, FS_CardinalityType
<1>2. CASE IsSendable(c[n + 1])
  <2>1. T = S \cup {n + 1} /\ n + 1 \notin S
    BY <1>2
  <2> HIDE DEF S, T
  <2> QED BY <1>1, <1>2, <2>1, FS_AddElement
<1>3. CASE ~IsSendable(c[n + 1])
  <2>1. T = S
    BY <1>3
  <2> HIDE DEF S, T
  <2> QED BY <1>1, <1>3, <2>1
<1> QED BY <1>2, <1>3

\* A trial begins with some first cases of its corpus.
LEMMA BeginKeepsCases ==
  ASSUME TrialTypes, CasesInv, NEW r \in Of("extraction"), BeginTrial(r)
  PROVE  CaseInv(r)'
<1>1. r \in Runs /\ CaseInv(r) /\ HoldsPerRun(cases) /\ HoldsPerRun(results)
  BY DEF CasesInv, Of
<1>2. PICK a \in Args, corpus \in Corpora :
        /\ MayBegin(r) /\ MayTry(a, corpus)
        /\ cases' = [cases EXCEPT ![r] = Prefix(corpus, a.cases)]
        /\ Goto(r, "cases")
        /\ UNCHANGED <<files, results, calls>>
  BY DEF BeginTrial
<1>3. pc[r] = "idle" /\ calls[r] = 0 /\ results[r] = <<>> /\ ~Reported(r)
  BY <1>1, <1>2 DEF CaseInv, MayBegin
<1>4. /\ pc'[r] = "cases" /\ calls'[r] = 0 /\ results'[r] = <<>>
      /\ cases'[r] = Prefix(corpus, a.cases)
  BY <1>1, <1>2, <1>3 DEF TrialTypes, Goto, HoldsPerRun
<1>5. corpus \in Seq(AllCases) /\ a.cases \in Nat
  <2>1. corpus \in Seq({corpus[i] : i \in DOMAIN corpus}) /\ a.cases \in Int /\ a.cases >= 0
    BY <1>2, InputsAssumption DEF IsList, MayTry
  <2>2. \A i \in DOMAIN corpus : corpus[i] \in AllCases
    BY DEF AllCases
  <2> QED BY <2>1, <2>2
<1>6. Prefix(corpus, a.cases) \in Seq(AllCases)
  BY <1>5 DEF Prefix
<1>7. ~Reported(r)'
  BY <1>2, <1>3 DEF Reported, Report
<1>8. Sent(r)' = 0
  <2>1. {i \in 1..Len(results'[r]) : IsSendable(cases'[r][i])} = {}
    BY <1>4
  <2> QED BY <2>1, FS_EmptySet DEF Sent
<1>9. results'[r] \in Seq(AllResults) /\ Len(results'[r]) = 0 /\ Len(cases'[r]) \in Nat
  BY <1>4, <1>6
<1> QED BY <1>4, <1>6, <1>7, <1>8, <1>9 DEF CaseInv, Writing

\* The result of a case is that of its answer, and the call, if any, was for it.
LEMMA ResultKeepsCases ==
  ASSUME TrialTypes, CasesInv, NEW r \in Of("extraction"),
         BlockCase(r) \/ FailCase(r) \/ AnswerCase(r)
  PROVE  CaseInv(r)'
<1> DEFINE n == Len(results[r])
           case == cases[r][n + 1]
<1>1. r \in Runs /\ CaseInv(r) /\ HoldsPerRun(cases) /\ HoldsPerRun(results)
  BY DEF CasesInv, Of
<1>2. /\ pc[r] = "cases" /\ n < Len(cases[r]) /\ case = Case(r)
      /\ pc' = pc /\ cases' = cases /\ UNCHANGED files
  BY DEF BlockCase, FailCase, AnswerCase, HasCase, Case, Result
<1>3. /\ n \in Nat /\ Len(cases[r]) \in Nat /\ calls[r] = Sent(r) /\ calls[r] \in Nat
      /\ results[r] \in Seq(AllResults) /\ cases[r] \in Seq(AllCases)
  BY <1>1, <1>2 DEF CaseInv, TrialTypes
<1>4. PICK new \in AllResults :
        /\ results' = [results EXCEPT ![r] = Append(@, new)]
        /\ IsProven(case, new)
        /\ calls'[r] = calls[r] + IF IsSendable(case) THEN 1 ELSE 0
  <2>1. CASE BlockCase(r)
    <3> DEFINE new == [invoked |-> FALSE, run |-> None, pass |-> case.gold = "blocked_before_invocation"]
    <3>1. results' = [results EXCEPT ![r] = Append(@, new)]
      BY <1>2, <2>1 DEF BlockCase, Result
    <3>2. new \in AllResults /\ IsProven(case, new)
      BY DEF AllResults, IsProven
    <3>3. ~IsSendable(case) /\ calls'[r] = calls[r] + 0
      BY <1>2, <1>3, <2>1 DEF BlockCase
    <3> HIDE DEF new, case
    <3> QED BY <3>1, <3>2, <3>3
  <2>2. CASE FailCase(r)
    <3> DEFINE new == [invoked |-> TRUE, run |-> None, pass |-> FALSE]
    <3>1. results' = [results EXCEPT ![r] = Append(@, new)]
      BY <1>2, <2>2 DEF FailCase, Result
    <3>2. new \in AllResults /\ IsProven(case, new)
      BY DEF AllResults, IsProven
    <3>3. IsSendable(case) /\ calls'[r] = calls[r] + 1
      BY <1>1, <1>2, <2>2 DEF FailCase, Call, TrialTypes
    <3> QED BY <3>1, <3>2, <3>3
  <2>3. CASE AnswerCase(r)
    <3>1. PICK a \in Texts : Result(r, TRUE, RunOf(a), Passes(Case(r), RunOf(a)))
      BY <2>3 DEF AnswerCase
    <3> DEFINE new == [invoked |-> TRUE, run |-> RunOf(a), pass |-> Passes(case, RunOf(a))]
    <3>2. results' = [results EXCEPT ![r] = Append(@, new)]
      BY <1>2, <3>1 DEF Result
    <3>3. new \in AllResults
      BY DEF AllResults, Passes
    <3>4. IsProven(case, new)
      <4> SUFFICES ASSUME case.gold = "accepted_for_candidate_review", Passes(case, RunOf(a))
          PROVE  IsList(RunOf(a).records) /\ AllServed(case.expected, RunOf(a).records)
        BY DEF IsProven
      <4>1. RunOf(a).status = "accepted_for_candidate_review" /\ AllServed(case.expected, RunOf(a).records)
        BY DEF Passes
      <4>2. RunOf(a).records = a.records
        BY <4>1 DEF RunOf
      <4> QED BY <4>1, <4>2, InputsAssumption
    <3>5. IsSendable(case) /\ calls'[r] = calls[r] + 1
      BY <1>1, <1>2, <2>3 DEF AnswerCase, Call, TrialTypes
    <3> HIDE DEF new
    <3> QED BY <3>2, <3>3, <3>4, <3>5
  <2> QED BY <2>1, <2>2, <2>3
<1>5. results'[r] = Append(results[r], new)
  BY <1>1, <1>4 DEF HoldsPerRun
<1>6. /\ results'[r] \in Seq(AllResults) /\ Len(results'[r]) = n + 1
      /\ results'[r][n + 1] = new /\ \A i \in 1..n : results'[r][i] = results[r][i]
  BY <1>3, <1>5
<1>7. Sent(r)' = Sent(r) + IF IsSendable(case) THEN 1 ELSE 0
  <2>1. Sent(r)' = Cardinality({i \in 1..(n + 1) : IsSendable(cases[r][i])})
    BY <1>2, <1>6 DEF Sent
  <2>2. Sent(r) = Cardinality({i \in 1..n : IsSendable(cases[r][i])})
    BY DEF Sent
  <2> HIDE DEF n
  <2>3. Cardinality({i \in 1..(n + 1) : IsSendable(cases[r][i])})
          = Cardinality({i \in 1..n : IsSendable(cases[r][i])})
              + IF IsSendable(cases[r][n + 1]) THEN 1 ELSE 0
    BY <1>3, OneMoreSent, Zenon
  <2> QED BY <2>1, <2>2, <2>3
<1>8. calls'[r] = Sent(r)'
  BY <1>3, <1>4, <1>7
<1>9. ~Reported(r)'
  <2>1. ~Reported(r)
    BY <1>1, <1>2, <1>3 DEF CaseInv, IsFinished
  <2> QED BY <1>2, <2>1 DEF Reported, Report
<1>10. \A i \in 1..(n + 1) : IsProven(cases'[r][i], results'[r][i])
  <2>1. \A i \in 1..n : IsProven(cases[r][i], results[r][i])
    BY <1>1 DEF CaseInv
  <2>2. \A i \in 1..(n + 1) : i \in 1..n \/ i = n + 1
    BY <1>3
  <2> HIDE DEF n
  <2> QED BY <1>2, <1>4, <1>6, <2>1, <2>2
<1>11. n + 1 <= Len(cases'[r]) /\ cases'[r] \in Seq(AllCases)
  BY <1>2, <1>3
<1> QED BY <1>2, <1>6, <1>8, <1>9, <1>10, <1>11 DEF CaseInv, Writing

LEMMA StepKeepsCases ==
  ASSUME TrialTypes, CasesInv, NEW r \in Of("extraction"), Step(r)
  PROVE  CaseInv(r)'
<1>1. /\ r \in Runs /\ Kind[r] = "extraction" /\ CaseInv(r)
      /\ HoldsPerRun(cases) /\ HoldsPerRun(results)
  BY DEF CasesInv, Of
<1>2. pc[r] \in Ends \cup Writing \cup {"cases"}
  <2>1. pc[r] \in PlacesOf("extraction")
    BY <1>1 DEF TrialTypes
  <2> QED BY <2>1 DEF PlacesOf
<1>3. CASE BlockCase(r) \/ FailCase(r) \/ AnswerCase(r)
  BY <1>3, ResultKeepsCases
<1>4. CASE BeginTrial(r)
  BY <1>4, BeginKeepsCases
<1>5. ASSUME EscapeCase(r) PROVE CaseInv(r)'
  <2>1. /\ pc[r] = "cases" /\ Len(results[r]) < Len(cases[r])
        /\ pc'[r] = "raised" /\ cases' = cases /\ results' = results /\ UNCHANGED files
    BY <1>1, <1>5 DEF EscapeCase, HasCase, Goto, trial, TrialTypes
  <2>2. ~Reported(r)
    <3>1. Len(results[r]) # Len(cases[r])
      BY <1>1, <2>1 DEF CaseInv
    <3> QED BY <1>1, <3>1 DEF CaseInv, IsFinished
  <2>3. ~Reported(r)'
    BY <2>1, <2>2 DEF Reported, Report
  <2> QED BY <1>1, <2>1, <2>3 DEF CaseInv, Writing
<1>6. ASSUME UNCHANGED <<trial, calls>>,
             \/ pc'[r] = pc[r]
             \/ pc'[r] \in {"refused", "raised", "died"}
             \/ pc'[r] \in Writing \cup {"done"} /\ IsFinished(r),
             OpenReport(r) \/ FinishReport(r) \/ CreateReport(r) => IsFinished(r) /\ pc'[r] \in Writing
      PROVE  CaseInv(r)'
  <2>1. Reported(r)' => Reported(r) \/ (IsFinished(r) /\ pc'[r] # "idle")
    BY <1>1, <1>6, OwnReports DEF Writing
  <2>2. cases'[r] = cases[r] /\ results'[r] = results[r] /\ calls'[r] = calls[r]
    BY <1>6 DEF trial
  <2> QED BY <1>1, <1>6, <2>1, <2>2, CasesStay
<1>7. ASSUME OpenReport(r) PROVE CaseInv(r)'
  <2>1. IsFinished(r)
    BY <1>1, <1>7 DEF OpenReport, HasCase, CaseInv, IsFinished
  <2>2. pc'[r] = "writing" /\ UNCHANGED <<trial, calls>>
    BY <1>1, <1>7 DEF OpenReport, Goto, TrialTypes
  <2> QED BY <1>6, <2>1, <2>2 DEF Writing
<1>8. ASSUME FinishReport(r) \/ ReadBack(r) \/ WriteSidecar(r) PROVE CaseInv(r)'
  <2>1. pc[r] \in Writing
    BY <1>8 DEF FinishReport, ReadBack, WriteSidecar, Writing
  <2>2. IsFinished(r)
    BY <1>1, <2>1 DEF CaseInv
  <2>3. pc'[r] \in {"written", "digested", "done"} /\ UNCHANGED <<trial, calls>>
    BY <1>1, <1>8 DEF FinishReport, ReadBack, WriteSidecar, Goto, TrialTypes
  <2>4. OpenReport(r) \/ FinishReport(r) \/ CreateReport(r) => pc'[r] \in Writing
    BY <1>1 DEF OpenReport, FinishReport, CreateReport, Goto, TrialTypes, Writing
  <2> QED BY <1>6, <2>2, <2>3, <2>4 DEF Writing
<1>9. ASSUME RefuseTrial(r) \/ FailWrite(r) \/ Kill(r) PROVE CaseInv(r)'
  <2>1. pc'[r] \in {"refused", "raised", "died"} /\ UNCHANGED <<trial, calls, files>>
    BY <1>1, <1>9 DEF RefuseTrial, FailWrite, Kill, Goto, TrialTypes
  <2>2. Reported(r)' => Reported(r)
    BY <2>1 DEF Reported, Report
  <2>3. cases'[r] = cases[r] /\ results'[r] = results[r] /\ calls'[r] = calls[r]
    BY <2>1 DEF trial
  <2> QED BY <1>1, <2>1, <2>2, <2>3, CasesStay
<1>10. ~ \/ BeginDraft(r) \/ RefuseDraft(r) \/ BeginAdapter(r) \/ RejectContext(r)
         \/ AnswerDraft(r) \/ FailDraft(r) \/ GarbleDraft(r)
         \/ CheckAgain(r) \/ CreateReport(r) \/ LoseRace(r) \/ CreateSidecar(r)
  BY <1>1, <1>2 DEF BeginDraft, RefuseDraft, BeginAdapter, RejectContext, AnswerDraft, FailDraft,
                    GarbleDraft, CheckAgain, CreateReport, LoseRace, CreateSidecar, Ends, Writing
<1> QED BY <1>3, <1>4, <1>5, <1>7, <1>8, <1>9, <1>10 DEF Step

LEMMA InitCases == Init => CasesInv
<1> SUFFICES ASSUME Init PROVE CasesInv
  OBVIOUS
<1>1. HoldsPerRun(cases) /\ HoldsPerRun(results)
  BY DEF Init, HoldsPerRun
<1>2. ASSUME NEW r \in Of("extraction") PROVE CaseInv(r)
  <2>1. pc[r] = "idle" /\ calls[r] = 0 /\ cases[r] = <<>> /\ results[r] = <<>>
    BY DEF Init, Of
  <2>2. ~Reported(r)
    BY DEF Init, Reported, Report, NoArtifacts
  <2> QED BY <2>1, <2>2 DEF CaseInv, Writing
<1> QED BY <1>1, <1>2 DEF CasesInv

LEMMA NextCases == TrialTypes /\ CasesInv /\ [Next]_vars => CasesInv'
<1> SUFFICES ASSUME TrialTypes, CasesInv, [Next]_vars PROVE CasesInv'
  OBVIOUS
<1>1. CASE UNCHANGED vars
  BY <1>1 DEF vars, trial, CasesInv, HoldsPerRun, CaseInv, Sent, IsFinished, Reported, Report
<1>2. CASE Next
  <2>1. PICK r \in Runs : Step(r)
    BY <1>2 DEF Next, Step
  <2>2. HoldsPerRun(cases) /\ HoldsPerRun(results)
    BY DEF CasesInv
  <2>3. HoldsPerRun(cases)' /\ HoldsPerRun(results)'
    BY <2>1, <2>2, RunsAreApart
  <2>4. ASSUME NEW s \in Of("extraction"), s # r PROVE CaseInv(s)'
    <3>1. s \in Runs /\ CaseInv(s)
      BY DEF CasesInv, Of
    <3>2. /\ pc'[s] = pc[s] /\ calls'[s] = calls[s]
          /\ cases'[s] = cases[s] /\ results'[s] = results[s]
      BY <2>1, <2>2, <2>4, <3>1, RunsAreApart
    <3>3. Reported(s)' => Reported(s)
      BY <2>1, <2>4, <3>1, OwnReports
    <3> QED BY <3>1, <3>2, <3>3, CasesStay
  <2>5. r \in Of("extraction") => CaseInv(r)'
    BY <2>1, StepKeepsCases
  <2> QED BY <2>3, <2>4, <2>5 DEF CasesInv
<1> QED BY <1>1, <1>2

LEMMA CasesInvariant == Spec => []CasesInv
<1>1. Init => CasesInv
  BY InitCases
<1>2. TrialInv /\ CasesInv /\ [Next]_vars => CasesInv'
  BY NextCases DEF TrialInv
<1> QED BY <1>1, <1>2, TrialInvariant, PTL DEF Spec

\* For any corpus and any answers, an extraction report that passes every case
\* proves each of them: no case without a result, no call that was not for a case
\* that may be sent, and where records are expected, candidates that match them one
\* to one (main, evaluate_case, _all_expected_records_match).
THEOREM QualifiedReportsAreProven == Spec => []QualifiedMeansProven
<1>1. TrialInv /\ CasesInv => QualifiedMeansProven
  <2> SUFFICES ASSUME TrialInv, CasesInv, NEW p \in Paths, IsEvidence(p),
                      Report(p).by \in Of("extraction"), AllPass(Report(p).by)
      PROVE  LET r == Report(p).by
             IN  /\ Len(results[r]) = Len(cases[r])
                 /\ calls[r] = Cardinality({i \in DOMAIN cases[r] : IsSendable(cases[r][i])})
                 /\ \A i \in DOMAIN cases[r] :
                      cases[r][i].gold = "accepted_for_candidate_review" =>
                        IsPerfectMatch(cases[r][i].expected, results[r][i].run.records)
    BY DEF QualifiedMeansProven
  <2> DEFINE r == Report(p).by
  <2>1. r \in Of("extraction") /\ CaseInv(r) /\ Reported(r)
    BY DEF CasesInv, Reported, IsEvidence
  <2> HIDE DEF r
  <2>2. /\ Len(results[r]) = Len(cases[r]) /\ calls[r] = Sent(r)
        /\ cases[r] \in Seq(AllCases) /\ results[r] \in Seq(AllResults)
    BY <2>1 DEF CaseInv, IsFinished
  <2>3. DOMAIN cases[r] = 1..Len(results[r]) /\ DOMAIN results[r] = 1..Len(results[r])
    BY <2>2
  <2>4. ASSUME NEW i \in DOMAIN cases[r], cases[r][i].gold = "accepted_for_candidate_review"
        PROVE  IsPerfectMatch(cases[r][i].expected, results[r][i].run.records)
    <3>1. results[r][i].pass
      BY <2>3 DEF AllPass, r
    <3>2. /\ IsList(results[r][i].run.records)
          /\ AllServed(cases[r][i].expected, results[r][i].run.records)
      BY <2>1, <2>3, <2>4, <3>1 DEF CaseInv, IsProven
    <3>3. IsList(cases[r][i].expected)
      <4>1. cases[r][i] \in AllCases
        BY <2>2, <2>4
      <4>2. PICK c \in Corpora : cases[r][i] \in {c[j] : j \in DOMAIN c}
        BY <4>1 DEF AllCases
      <4> QED BY <4>2, InputsAssumption
    <3> QED BY <3>2, <3>3, PassesIsMatched
  <2> QED BY <2>2, <2>3, <2>4 DEF Sent, r
<1> QED BY <1>1, TrialInvariant, CasesInvariant, PTL
=============================================================================
