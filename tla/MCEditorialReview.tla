--------------------------- MODULE MCEditorialReview ---------------------------
(***************************************************************************)
(* A class A feed that is open to extraction and a class E feed that an    *)
(* allowlist names by mistake, two texts, two policies, of which the later *)
(* one finds a restricted term in the report and the update relevant, and  *)
(* two extraction runs.                                                    *)
(***************************************************************************)
EXTENDS EditorialReview, TLC

CONSTANTS official, lead, report, update, before, after

MCFeeds == {official, lead}

MCContents == {report, update}

MCPolicies == {before, after}

MCDiscoveryOnly == {lead}

MCAuthoritative == {official}

MCRelevant == before :> {report} @@ after :> {report, update}

MCRestricted == before :> {} @@ after :> {report}

MCPressing == before :> {} @@ after :> {report}

MCAllowlisted == [p \in MCPolicies |-> {official, lead}]

MCSymmetry == Permutations(Runs)
===============================================================================
