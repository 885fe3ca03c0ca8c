----------------------------- MODULE Extraction -----------------------------
(***************************************************************************)
(* The extraction trial: what becomes of one answer of the model to one    *)
(* case of the corpus, and whether the case passes.                        *)
(*                                                                         *)
(* An answer is the set of checks that its text does not pass, and the     *)
(* candidate records it holds.  Fitting says which records satisfy which   *)
(* expectation of a case.                                                  *)
(***************************************************************************)
EXTENDS FiniteSets, Sequences, Naturals

CONSTANTS
    Fitting,      \* <<expectation, candidate record>>
    TextLength    \* of the longest source text that may be sent

ASSUME TextLengthAssumption == TextLength \in Nat \ {0}

CheckOrder ==
    <<"strict-json-envelope", "case-allowlist", "no-substantive-candidates",
      "evidence-locator", "evidence-cardinality", "event-participants-shape",
      "event-role-vocabulary", "exact-quantity-bounds", "candidate-boundary",
      "json-schema">>
Checks == {CheckOrder[i] : i \in DOMAIN CheckOrder}

LeastOf(S) == CHOOSE i \in S : \A j \in S : i <= j

\* The boundary also refuses a run that ends before it starts.
FailedChecks(a) ==
    a.fails \cup IF a.setback THEN {"candidate-boundary"} ELSE {}

FirstFailed(a) ==
    CheckOrder[LeastOf({i \in DOMAIN CheckOrder : CheckOrder[i] \in FailedChecks(a)})]

\* A rejected run keeps no candidates.
RunOf(a) ==
    IF FailedChecks(a) = {}
    THEN [status |-> "accepted_for_candidate_review", check |-> "", records |-> a.records]
    ELSE [status |-> "rejected", check |-> FirstFailed(a), records |-> <<>>]

\* The driver validates what it got once more.  Rejecting does not mend a run
\* that ends before it starts.
IsIntegral(a) == ~a.setback

-----------------------------------------------------------------------------
(* The corpus.                                                             *)

GoldStatuses ==
    {"accepted_for_candidate_review", "rejected", "blocked_before_invocation"}

\* validate_metric_contract
IsCorpus(cases) ==
    /\ cases # <<>>
    /\ \A i, j \in DOMAIN cases : cases[i].id = cases[j].id => i = j
    /\ \A i \in DOMAIN cases : cases[i].gold \in GoldStatuses

\* cases[:max_cases], unless max_cases is zero
Prefix(cases, n) == IF n = 0 \/ n >= Len(cases) THEN cases ELSE SubSeq(cases, 1, n)

\* validate_trial_case: only a claimed queue item that authorizes AI extraction
\* and nothing canonical, and a public synthetic source inside its provenance, are
\* sent to the model.  "named" says that the case is a TRIAL and its source a
\* Document, "listed" that its lists are arrays of distinct non-empty strings; a
\* blank text has size zero.
IsSendable(case) ==
    /\ case.named /\ case.public /\ case.synthetic
    /\ case.size \in 1..TextLength
    /\ case.lane = "candidate_extraction" /\ case.state = "claimed"
    /\ case.ai /\ ~case.authority
    /\ case.listed /\ case.source \in case.documents

-----------------------------------------------------------------------------
(* Expected records are matched with candidates first come, first served.  *)

\* Whether a record is what a case expects: _evidence_matches, _entity_matches,
\* _claim_matches, _event_matches.
Fits(expected, actual) == <<expected, actual>> \in Fitting

\* An expectation takes the first free candidate that fits it.
Serve(expected, actual, free, n) ==
    LET fitting == {i \in free : Fits(expected[n], actual[i])}
    IN  IF fitting = {} THEN free ELSE free \ {LeastOf(fitting)}

\* The candidates that are left when the first k expectations have been served.
LeftAfter(expected, actual, k) ==
    LET left[n \in 0..k] ==
          IF n = 0 THEN DOMAIN actual ELSE Serve(expected, actual, left[n - 1], n)
    IN  left[k]

\* Mutant: one candidate may serve several expectations.
AllServedTogether(expected, actual) ==
    /\ Len(expected) = Len(actual)
    /\ \A n \in DOMAIN expected : \E i \in DOMAIN actual : Fits(expected[n], actual[i])

AllServed(expected, actual) ==
    /\ Len(expected) = Len(actual)
    /\ LeftAfter(expected, actual, Len(expected)) = {}

\* evaluate_case
Passes(case, run) ==
    /\ case.gold # "blocked_before_invocation" /\ run.status = case.gold
    /\ run.status = "rejected" => run.check = case.check
    /\ run.status # "rejected" => AllServed(case.expected, run.records)

\* What "the records match" means, in whatever order they come.
IsPerfectMatch(expected, actual) ==
    \E f \in [DOMAIN expected -> DOMAIN actual] :
        /\ \A i, j \in DOMAIN expected : f[i] = f[j] => i = j
        /\ {f[i] : i \in DOMAIN expected} = DOMAIN actual
        /\ \A i \in DOMAIN expected : Fits(expected[i], actual[f[i]])
=============================================================================
