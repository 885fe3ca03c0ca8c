------------------------------ MODULE Provider ------------------------------
(***************************************************************************)
(* The edge to the model's provider, which both trial drivers share: which *)
(* route a call may take, and which responses count as an answer.  The     *)
(* extraction driver may also use the Copilot CLI, which is a subprocess.  *)
(* Redaction of the credential and the layout of a request are left out.   *)
(***************************************************************************)
EXTENDS Integers, FiniteSets

CONSTANTS
    None,
    Official,           \* the two documented routes, by mode
    MaxResponseBytes

\* Arguments: flag, env and endpoint name a route or are None; credential is
\* whether the environment holds a usable key.  For the CLI: token is whether it
\* holds one of GitHub's, version what the command answers, None if it fails.
Supplied(a) == {f \in {"flag", "env", "endpoint"} : a[f] # None}

\* resolve_zai_base_url: the flag comes first, then the environment.
Resolved(a) ==
    IF a.flag # None THEN a.flag ELSE IF a.env # None THEN a.env ELSE a.endpoint

IsOfficial(a) == Resolved(a) \in Official
MayCall(a) == a.timeout >= 1 /\ a.credential /\ IsOfficial(a)

\* The extraction driver tolerates several routes if they agree with the mode,
\* the drafting driver takes exactly one.
IsConsistent(a) == a.endpoint # None => Resolved(a) = a.endpoint
IsUnambiguous(a) == Cardinality(Supplied(a)) <= 1

\* The arguments that choose a route are refused with the CLI.
MayAsk(a) ==
    /\ a.flag = None /\ a.endpoint = None
    /\ a.timeout >= 1 /\ a.token /\ a.version # None

\* A redirect is refused and so arrives as its status.
IsReply(x) ==
    /\ x.reached
    /\ x.size <= MaxResponseBytes
    /\ x.status \in 200..299
    /\ x.strict /\ x.content = "text"

\* What the CLI prints is taken as it is, if the command ended well and in time.
IsDelivered(x) == IF x.route = "zai" THEN IsReply(x) ELSE x.exit = 0
=============================================================================
