------------------------------- MODULE Trials -------------------------------
(***************************************************************************)
(* The two trial drivers and the evidence they leave behind: the           *)
(* extraction trial puts a corpus of cases to the model, the drafting      *)
(* trial one context.  Each ends by writing a report and a sidecar with    *)
(* the report's digest.  A process may be killed at any moment.            *)
(*                                                                         *)
(* A digest is the content it was taken of: who wrote it, and whether all  *)
(* of it was there.  Extraction trials that share an output are run one    *)
(* after the other; drafting trials may race.  An "adapter" run is a       *)
(* caller of the drafting adapter that brings a context of its own and     *)
(* writes nothing.                                                         *)
(***************************************************************************)
EXTENDS Extraction, Drafting, Provider

CONSTANTS
    Runs, Kind, Output,
    Together,    \* which runs are made beside or after each other
    Args,        \* arguments and surroundings of a run
    Corpora,     \* fixtures of the extraction trial
    Responses,   \* what the provider sends back
    Texts,       \* answers of the model to a case
    Selections,  \* drafting fixtures
    HandMade,    \* contexts of other callers
    Drafts(_)    \* answers of the model to a context

\* The two kinds of trial write to different places.
ASSUME TrialsAssumption ==
    /\ \A r \in Runs : Kind[r] \in {"extraction", "drafting", "adapter"}
    /\ \A r, s \in Runs :
        Kind[r] = "extraction" /\ Kind[s] = "drafting" => Output[r] # Output[s]
    /\ None \notin [by : Runs, whole : BOOLEAN]

\* Lists of the fixture and of an answer, and a number of the command line.
IsList(s) == s \in Seq({s[i] : i \in DOMAIN s})
ASSUME InputsAssumption ==
    /\ \A c \in Corpora : IsList(c) /\ \A i \in DOMAIN c : IsList(c[i].expected)
    /\ \A a \in Texts : IsList(a.records)
    /\ \A a \in Args : a.cases \in Int

VARIABLES
    pc,          \* where each run is
    files,       \* the artifacts at each output
    digest,      \* what an extraction run has read back of its report
    cases,       \* the cases an extraction run puts to the model
    results,     \* its results so far
    count,       \* and its counts
    context,     \* a drafting run's context, and the adapter's draft
    draft,
    calls        \* how often the model was really called (for the properties)

trial == <<cases, results, count>>
drafting == <<context, draft>>
vars == <<pc, files, digest, trial, drafting, calls>>

Paths == {Output[r] : r \in Runs}
NoArtifacts == [report |-> None, sidecar |-> None]
Of(kind) == {r \in Runs : Kind[r] = kind}
Waiting == {"idle", "done", "refused", "raised", "died"}
Underway == {r \in Runs : pc[r] \notin Waiting}
Began == {r \in Runs : pc[r] # "idle"}
NoCounts == [invoked |-> 0, accepted |-> 0, rejected |-> 0, blocked |-> 0,
             integrity |-> 0]

Init ==
    /\ pc = [r \in Runs |-> "idle"]
    /\ files = [p \in Paths |-> NoArtifacts]
    /\ digest = [r \in Runs |-> None]
    /\ cases = [r \in Runs |-> <<>>]
    /\ results = [r \in Runs |-> <<>>]
    /\ count = [r \in Runs |-> NoCounts]
    /\ context = [r \in Runs |-> None]
    /\ draft = [r \in Runs |-> None]
    /\ calls = [r \in Runs |-> 0]

MayBegin(r) == pc[r] = "idle" /\ \E T \in Together : Began \cup {r} \subseteq T
Goto(r, place) == pc' = [pc EXCEPT ![r] = place]
Count(r, one) == count' = [count EXCEPT ![r] = [f \in DOMAIN @ |-> @[f] + IF f \in one THEN 1 ELSE 0]]
Call(r) == calls' = [calls EXCEPT ![r] = @ + 1]

-----------------------------------------------------------------------------
(* The extraction trial.                                                   *)

\* The source revision must be known; a dirty worktree is only reported.
MayTry(a, corpus) ==
    /\ IsCorpus(corpus) /\ a.cases >= 0 /\ a.head # None
    /\ IF a.provider = "zai" THEN MayCall(a) /\ IsConsistent(a) ELSE MayAsk(a)

BeginTrial(r) ==
    /\ Kind[r] = "extraction" /\ MayBegin(r)
    /\ \A s \in Underway : Output[s] # Output[r]
    /\ \E a \in Args, corpus \in Corpora :
        /\ MayTry(a, corpus)
        /\ cases' = [cases EXCEPT ![r] = Prefix(corpus, a.cases)]
    /\ Goto(r, "cases")
    /\ UNCHANGED <<files, digest, results, count, drafting, calls>>

RefuseTrial(r) ==
    /\ Kind[r] = "extraction" /\ MayBegin(r)
    /\ \E a \in Args, corpus \in Corpora : ~MayTry(a, corpus)
    /\ Goto(r, "refused")
    /\ UNCHANGED <<files, digest, trial, drafting, calls>>

Case(r) == cases[r][Len(results[r]) + 1]
HasCase(r) == pc[r] = "cases" /\ Len(results[r]) < Len(cases[r])
Result(r, invoked, run, pass) ==
    /\ results' = [results EXCEPT ![r] =
                  Append(@, [invoked |-> invoked, run |-> run, pass |-> pass])]
    /\ cases' = cases

\* build_trial_prompt refuses the case, and nothing is sent.
BlockCase(r) ==
    /\ HasCase(r) /\ ~IsSendable(Case(r))
    /\ Result(r, FALSE, None, Case(r).gold = "blocked_before_invocation")
    /\ Count(r, {"blocked"})
    /\ UNCHANGED <<pc, files, digest, drafting, calls>>

\* The invoker raises an error that the loop catches.  The run does not remember
\* its provider: either one's responses lead to the same two outcomes.
FailCase(r) ==
    /\ HasCase(r) /\ IsSendable(Case(r))
    /\ \E x \in Responses : ~IsDelivered(x)
    /\ Result(r, TRUE, None, FALSE)
    /\ Count(r, {"invoked", "integrity"}) /\ Call(r)
    /\ UNCHANGED <<pc, files, digest, drafting>>

Counted(a) ==
    IF ~IsIntegral(a) THEN "integrity"
    ELSE IF RunOf(a).status = "rejected" THEN "rejected" ELSE "accepted"

AnswerCase(r) ==
    \E a \in Texts, x \in Responses :
        /\ HasCase(r) /\ IsSendable(Case(r)) /\ IsDelivered(x)
        /\ Result(r, TRUE, RunOf(a), Passes(Case(r), RunOf(a)))
        /\ Count(r, {"invoked", Counted(a)}) /\ Call(r)
        /\ UNCHANGED <<pc, files, digest, drafting>>

\* An answer, or a command that does not start, raises what the loop does not
\* catch: the process ends, and the results so far are lost.
EscapeCase(r) ==
    /\ HasCase(r) /\ IsSendable(Case(r))
    /\ Call(r) /\ Goto(r, "raised")
    /\ UNCHANGED <<files, digest, trial, drafting>>

\* write_bytes truncates whatever is there.
OpenReport(r) ==
    /\ pc[r] = "cases" /\ ~HasCase(r)
    /\ files' = [files EXCEPT ![Output[r]].report = [by |-> r, whole |-> FALSE]]
    /\ Goto(r, "writing")
    /\ UNCHANGED <<digest, trial, drafting, calls>>

FinishReport(r) ==
    /\ pc[r] = "writing"
    /\ files' = [files EXCEPT ![Output[r]].report = [by |-> r, whole |-> TRUE]]
    /\ Goto(r, "written")
    /\ UNCHANGED <<digest, trial, drafting, calls>>

\* The extraction trial digests what it reads back, the drafting trial what it
\* meant to write.
\* Mutant: the report is read back before it is flushed.
ReadBackEarly(r) ==
    /\ pc[r] = "writing" /\ Kind[r] = "extraction"
    /\ digest' = [digest EXCEPT ![r] = files[Output[r]].report]
    /\ Goto(r, "digested")
    /\ UNCHANGED <<files, trial, drafting, calls>>

ReadBack(r) ==
    /\ pc[r] = "written"
    /\ digest' = [digest EXCEPT ![r] =
                    IF Kind[r] = "extraction" THEN files[Output[r]].report
                    ELSE [by |-> r, whole |-> TRUE]]
    /\ Goto(r, "digested")
    /\ UNCHANGED <<files, trial, drafting, calls>>

WriteSidecar(r) ==
    /\ pc[r] = "digested" /\ Kind[r] = "extraction"
    /\ files' = [files EXCEPT ![Output[r]].sidecar = digest[r]]
    /\ Goto(r, "done")
    /\ UNCHANGED <<digest, trial, drafting, calls>>

-----------------------------------------------------------------------------
(* The drafting trial.                                                     *)

IsAbsent(p) == files[p] = NoArtifacts

\* The attestation names the route that the call takes.
IsAttested(a) ==
    /\ Resolved(a) = "coding-plan" => "coding" \in a.attested
    /\ Resolved(a) = "prepaid" => a.attested \cap {"prepaid", "general"} # {}

IsAuthorized(a) ==
    /\ a.attested # {} /\ IsAttested(a)
    /\ a.clean /\ a.head = a.reviewed
    /\ MayCall(a) /\ IsUnambiguous(a)

\* Every gate comes before the one call.
MayDraft(r, a, s) ==
    /\ IsAuthorized(a) /\ IsAbsent(Output[r])
    /\ CanBuild(s) /\ CanRender(ContextOf(s))

\* The one call is always made over HTTP.
FromZai == {x \in Responses : x.route = "zai"}

BeginDraft(r) ==
    /\ Kind[r] = "drafting" /\ MayBegin(r)
    /\ \E a \in Args, s \in Selections :
        /\ MayDraft(r, a, s)
        /\ context' = [context EXCEPT ![r] = ContextOf(s)]
    /\ Goto(r, "ready")
    /\ UNCHANGED <<files, digest, trial, draft, calls>>

RefuseDraft(r) ==
    /\ Kind[r] = "drafting" /\ MayBegin(r)
    /\ \E a \in Args, s \in Selections : ~MayDraft(r, a, s)
    /\ Goto(r, "refused")
    /\ UNCHANGED <<files, digest, trial, drafting, calls>>

BeginAdapter(r) ==
    /\ Kind[r] = "adapter" /\ MayBegin(r)
    /\ \E c \in HandMade : context' = [context EXCEPT ![r] = c]
    /\ Goto(r, "ready")
    /\ UNCHANGED <<files, digest, trial, draft, calls>>

\* The adapter checks the context, whoever made it, before it calls the model.
IsFit(r) == IsValidContext(context[r]) /\ CanRender(context[r])
AfterCall(r) == IF Kind[r] = "adapter" THEN "done" ELSE "answered"

RejectContext(r) ==
    /\ pc[r] = "ready" /\ ~IsFit(r)
    /\ Goto(r, AfterCall(r))
    /\ UNCHANGED <<files, digest, trial, drafting, calls>>

AnswerDraft(r) ==
    /\ pc[r] = "ready" /\ IsFit(r)
    /\ \E x \in FromZai : IsDelivered(x)
    /\ \E a \in Drafts(context[r]) : draft' = [draft EXCEPT ![r] = DraftOf(context[r], a)]
    /\ Call(r) /\ Goto(r, AfterCall(r))
    /\ UNCHANGED <<files, digest, trial, context>>

\* Mutant: an exception of the invoker ends the process.
EndByFailure(r) ==
    /\ pc[r] = "ready" /\ IsFit(r)
    /\ \E x \in FromZai : ~IsDelivered(x)
    /\ Call(r) /\ Goto(r, "refused")
    /\ UNCHANGED <<files, digest, trial, drafting>>

\* Whatever the invoker raises becomes an error in the report.
FailDraft(r) ==
    /\ pc[r] = "ready" /\ IsFit(r)
    /\ \E x \in FromZai : ~IsDelivered(x)
    /\ Call(r) /\ Goto(r, AfterCall(r))
    /\ UNCHANGED <<files, digest, trial, drafting>>

\* A lone surrogate in the answer cannot be hashed.  The adapter's error is
\* caught, the same error in build_trial_report is not.
GarbleDraft(r) ==
    /\ pc[r] = "ready" /\ IsFit(r)
    /\ Call(r) /\ Goto(r, "raised")
    /\ UNCHANGED <<files, digest, trial, drafting>>

\* build_trial_report compares every digest of the draft run with the bytes it
\* freezes, which the same process has just made; then the output is looked at
\* again.
CheckAgain(r) ==
    /\ pc[r] = "answered"
    /\ Goto(r, IF IsAbsent(Output[r]) THEN "creating" ELSE "refused")
    /\ UNCHANGED <<files, digest, trial, drafting, calls>>

\* Mutant: the file is opened for writing without "x".
CreateAnyway(r) ==
    /\ pc[r] = "creating"
    /\ files' = [files EXCEPT ![Output[r]].report = [by |-> r, whole |-> FALSE]]
    /\ Goto(r, "writing")
    /\ UNCHANGED <<digest, trial, drafting, calls>>

CreateReport(r) ==
    /\ pc[r] = "creating" /\ files[Output[r]].report = None
    /\ files' = [files EXCEPT ![Output[r]].report = [by |-> r, whole |-> FALSE]]
    /\ Goto(r, "writing")
    /\ UNCHANGED <<digest, trial, drafting, calls>>

LoseRace(r) ==
    /\ pc[r] = "creating" /\ files[Output[r]].report # None
    /\ Goto(r, "refused")
    /\ UNCHANGED <<files, digest, trial, drafting, calls>>

\* Nobody else creates this sidecar: he would have lost the race for the report.
CreateSidecar(r) ==
    /\ pc[r] = "digested" /\ Kind[r] = "drafting"
    /\ files[Output[r]].sidecar = None
    /\ files' = [files EXCEPT ![Output[r]].sidecar = digest[r]]
    /\ Goto(r, "done")
    /\ UNCHANGED <<digest, trial, drafting, calls>>

-----------------------------------------------------------------------------
(* How a run of either kind may end early.                                 *)

\* A report that cannot be encoded, because a lone surrogate came escaped in the
\* answer, or a file that cannot be opened, written or read: nothing catches the
\* exception, and what was written stays.
FailWrite(r) ==
    /\ \/ pc[r] = "cases" /\ ~HasCase(r)
       \/ pc[r] \in {"answered", "creating", "writing", "written", "digested"}
    /\ Goto(r, "raised")
    /\ UNCHANGED <<files, digest, trial, drafting, calls>>

Kill(r) ==
    /\ r \in Underway
    /\ Goto(r, "died")
    /\ UNCHANGED <<files, digest, trial, drafting, calls>>

Next ==
    \E r \in Runs :
        \/ BeginTrial(r) \/ RefuseTrial(r) \/ BlockCase(r) \/ FailCase(r) \/ AnswerCase(r) \/ EscapeCase(r)
        \/ OpenReport(r) \/ FinishReport(r) \/ ReadBack(r) \/ WriteSidecar(r)
        \/ BeginDraft(r) \/ RefuseDraft(r) \/ BeginAdapter(r) \/ RejectContext(r)
        \/ AnswerDraft(r) \/ FailDraft(r) \/ GarbleDraft(r)
        \/ CheckAgain(r) \/ CreateReport(r) \/ LoseRace(r) \/ CreateSidecar(r)
        \/ FailWrite(r) \/ Kill(r)

Spec == Init /\ [][Next]_vars

-----------------------------------------------------------------------------
(* Properties.                                                             *)

Report(p) == files[p].report
IsVouched(p) == Report(p) # None /\ files[p].sidecar = Report(p)
IsEvidence(p) == Report(p) # None /\ Report(p).whole

\* A report that its sidecar vouches for is complete: a run that is killed while
\* it writes, or a later run over the same output, never leaves a torn report
\* that looks verified (main, write_report_with_sidecar).
VouchedReportIsWhole == \A p \in Paths : IsVouched(p) => Report(p).whole

\* What a drafting trial has written stays as it is, whatever other trials race
\* for the same output (_write_exclusive).
EvidenceIsImmutable ==
    [][\A p \in Paths :
        IsEvidence(p) /\ Report(p).by \in Of("drafting") => Report(p)' = Report(p)]_vars

IsClean(r) == count[r].integrity = 0
AllPass(r) == \A i \in DOMAIN results[r] : results[r][i].pass

\* An extraction report that says "clean" and "all pass" proves every case it was
\* given: one result for each, a call for exactly those that may be sent, and where
\* records are expected, candidates that match them one to one, in some order
\* (main, evaluate_case, _all_expected_records_match).
QualifiedMeansProven ==
    \A p \in Paths : IsEvidence(p) /\ Report(p).by \in Of("extraction") =>
        LET r == Report(p).by
        IN  IsClean(r) /\ AllPass(r) =>
              /\ Len(results[r]) = Len(cases[r])
              /\ calls[r] = Cardinality({i \in DOMAIN cases[r] : IsSendable(cases[r][i])})
              /\ \A i \in DOMAIN cases[r] :
                    cases[r][i].gold = "accepted_for_candidate_review" =>
                        IsPerfectMatch(cases[r][i].expected, results[r][i].run.records)

\* Whoever made the context, a draft that is accepted for editorial review tells
\* only active Claims, each with supporting Evidence that the unit cites, no two
\* that contradict each other, and nothing restricted (build_bilingual_draft_run,
\* validate_drafting_context).
AcceptedDraftIsGrounded ==
    \A r \in Runs : draft[r] # None =>
        LET c == context[r]
            told == {a \in c.claims : a.id \in Drafted(draft[r].units)}
        IN  /\ \A a \in told :
                  /\ a.state = "active" /\ a.value \notin Restricted
                  /\ {a.subject} \cup a.targets \subseteq c.entities \ Restricted
                  /\ \E i \in DOMAIN draft[r].units :
                        /\ a.id \in draft[r].units[i].claims
                        /\ a.supports \cap draft[r].units[i].evidence \cap c.evidence # {}
            /\ \A a, b \in told : ~AreConflicting(a, b)

\* A drafting trial that called the model and came to its own end has left its
\* report, whether the call failed or not; the loser of a race for the output found
\* another's.  Excepted are trials that are killed, or that an exception ends on the
\* way from the answer to the two files (execute_draft_invocation, run_trial).
CallsAreEvidenced ==
    \A r \in Of("drafting") :
        calls[r] > 0 /\ pc[r] \in {"done", "refused"} =>
            /\ Report(Output[r]) # None
            /\ pc[r] = "done" => Report(Output[r]) = [by |-> r, whole |-> TRUE] /\ IsVouched(Output[r])
            /\ pc[r] = "refused" => Report(Output[r]).by # r
=============================================================================
