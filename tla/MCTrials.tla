------------------------------ MODULE MCTrials ------------------------------
(***************************************************************************)
(* Two extraction trials over one output, one after the other; two         *)
(* drafting trials that race for one output; and a caller of the adapter.  *)
(*                                                                         *)
(* The corpus expects two records where a candidate that fits the second   *)
(* fits the first too, from a text of the greatest length; a rejection;    *)
(* and a case whose text is too long to be sent.                           *)
(***************************************************************************)
EXTENDS Trials, TLC

CONSTANTS e1, e2, d1, d2, a1, corpus, article,
          wide, narrow, both, loose, other,
          ship, base, v1, v2, secret, ev1, ev2, t, u, p, k1, k2, k3, gap, terms

MCRuns == {e1, e2, d1, d2, a1}
MCKind == (e1 :> "extraction") @@ (e2 :> "extraction") @@ (d1 :> "drafting")
          @@ (d2 :> "drafting") @@ (a1 :> "adapter")
MCOutput == (e1 :> corpus) @@ (e2 :> corpus) @@ (d1 :> article) @@ (d2 :> article)
            @@ (a1 :> article)
MCTogether == {{e1, e2}, {d1, d2}, {a1}}
\* Nothing orders the trials of a pair.
MCSymmetry == Permutations({e1, e2}) \cup Permutations({d1, d2})

\* "both" fits either expectation, "loose" only the wide one.
MCFitting == {<<wide, both>>, <<wide, loose>>, <<narrow, both>>}
MCCase(k, size, gold, check, expected) ==
    [id |-> k, named |-> TRUE, public |-> TRUE, synthetic |-> TRUE,
     size |-> size, authority |-> FALSE, listed |-> TRUE, lane |-> "candidate_extraction",
     state |-> "claimed", ai |-> TRUE, source |-> article, documents |-> {article},
     gold |-> gold, check |-> check, expected |-> expected]
MCCases ==
    <<MCCase(k1, TextLength, "accepted_for_candidate_review", "", <<wide, narrow>>),
      MCCase(k2, TextLength + 1, "blocked_before_invocation", "", <<>>),
      MCCase(k3, 1, "rejected", "evidence-locator", <<>>)>>
MCCorpora == {MCCases, <<MCCases[1], MCCases[1]>>}
MCResponses ==
    {[route |-> "zai", reached |-> TRUE, size |-> 1, status |-> n, strict |-> TRUE,
      content |-> "text"] : n \in {200, 500}}
    \cup {[route |-> "copilot", exit |-> n] : n \in {0, 1}}
MCText(fails, setback, records) ==
    [fails |-> fails, setback |-> setback, records |-> records]
MCTexts ==
    {MCText({}, FALSE, <<loose, both>>), MCText({}, FALSE, <<both, loose>>),
     MCText({}, FALSE, <<both, other>>),
     MCText({"evidence-locator", "json-schema"}, FALSE, <<both>>),
     MCText({}, TRUE, <<loose, both>>)}

MCOfficial == {"coding-plan", "prepaid"}
MCArgument(flag, env, endpoint, n) ==
    [provider |-> "zai", token |-> FALSE, version |-> None,
     timeout |-> 1, credential |-> TRUE, flag |-> flag, env |-> env,
     endpoint |-> endpoint, attested |-> {"coding"}, clean |-> TRUE, head |-> "tip",
     reviewed |-> "tip", cases |-> n]
MCAsking(version) ==
    [MCArgument(None, None, None, 2) EXCEPT
        !.provider = "copilot", !.token = TRUE, !.version = version]
MCArgs ==
    {MCArgument(None, None, "coding-plan", 0),
     MCArgument(None, "prepaid", "coding-plan", 0),
     MCArgument(None, None, "coding-plan", 2),
     MCAsking(None), MCAsking("any")}

MCClaim(k, v, at, state, supports) ==
    [id |-> k, subject |-> ship, predicate |-> p, value |-> v, scope |-> {},
     validity |-> at, targets |-> {}, supports |-> supports, others |-> {ev2} \ supports,
     recorded |-> "active", state |-> state]
MCEntity(e) == [id |-> e, recorded |-> "active", named |-> TRUE]
MCEvidence(e) == [id |-> e, recorded |-> "active"]
MCSelection(e, claims) ==
    [entities |-> {MCEntity(e)}, claims |-> {[c EXCEPT !.subject = e] : c \in claims},
     evidence |-> {MCEvidence(ev1), MCEvidence(ev2)},
     unknowns |-> {[id |-> gap, about |-> {e}]}]

first == MCClaim(k1, v1, t, "active", {ev1})
rival == MCClaim(k2, v2, t, "active", {ev2})
later == MCClaim(k3, v2, u, "active", {ev2})
MCPlain == MCSelection(ship, {first, later})
MCRivals == MCSelection(ship, {first, rival})
MCSecret == MCSelection(ship, {MCClaim(k1, secret, t, "active", {ev1})})
MCSelections ==
    {MCPlain, MCRivals, MCSecret, MCSelection(base, {first}),
     MCSelection(ship, {MCClaim(k1, v1, t, "withdrawn", {ev1})})}
MCHandMade ==
    {ContextOf(s) : s \in MCSelections}
    \cup {[ContextOf(MCPlain) EXCEPT !.claims = {first}]}

MCUnit(claims, evidence, clean) ==
    [claims |-> claims, evidence |-> evidence, clean |-> clean]
MCAnswer(units, undrafted, rendered, omitted, strict) ==
    [units |-> units, undrafted |-> undrafted, rendered |-> rendered,
     omitted |-> omitted, strict |-> strict]
MCDrafts(c) ==
    LET all == Ids(c.claims)
        gaps == Ids(c.unknowns)
        supports == UNION {a.supports : a \in c.claims}
        whole == MCUnit(all, supports, TRUE)
    IN  {MCAnswer(<<whole>>, {}, gaps, {}, TRUE),
         MCAnswer(<<MCUnit({k1}, {ev1}, TRUE)>>, all \ {k1}, {}, gaps, TRUE),
         MCAnswer(<<MCUnit(all, {ev2}, TRUE)>>, {}, gaps, {}, TRUE),
         MCAnswer(<<MCUnit(all, supports, FALSE)>>, {}, gaps, {}, TRUE),
         MCAnswer(<<whole, whole>>, {}, gaps, {}, TRUE),
         MCAnswer(<<>>, all, gaps, {}, TRUE),
         MCAnswer(<<>>, {}, gaps, {}, TRUE),
         MCAnswer(<<whole>>, {}, gaps, gaps, TRUE),
         MCAnswer(<<whole>>, {}, gaps, {}, FALSE)}
=============================================================================
