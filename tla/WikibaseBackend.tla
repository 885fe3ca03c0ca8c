--------------------------- MODULE WikibaseBackend ----------------------------
(***************************************************************************)
(* The canonical backend as the M1 adapters use it: a Wikibase server that *)
(* creates an item or adds a statement for every accepted edit and knows   *)
(* nothing of the project's canonical record IDs.  Uniqueness of a record  *)
(* is therefore only what the readers of the server count.                 *)
(*                                                                         *)
(* A request is named by the call that sent it and the position of its     *)
(* mutation in the call's proposal.  The same name identifies the item or  *)
(* statement the request created, so two items for one record are two      *)
(* names.  The adapter lists the pages before it reads them and a created  *)
(* item is never edited again under the same record, so one scan sees what *)
(* was there when it listed: inspection is one step.                       *)
(***************************************************************************)
EXTENDS ApprovedPlans

CONSTANT Faults   \* which faults of server, network and process can occur

FaultKinds == {"read_error",   \* a read raises instead of answering
               "lost_reply",   \* time-out, reset connection or HTTP 5xx
               "garbled",      \* the reply of an accepted edit is unreadable
               "late_commit",  \* an edit is saved after its client gave up
               "interrupt",    \* an exception leaves the executor
               "crash"}        \* the process is killed

ASSUME FaultsAssumption == Faults \subseteq FaultKinds

VARIABLES
  store,      \* requests whose item or statement the server has saved
  inflight    \* requests sent and not answered, rejected or saved

backendVars == <<store, inflight>>

BackendInit ==
  /\ store = {}
  /\ inflight = {}

\* The mutations of the calls, by call and position.
Requests == {a \in Calls \X Nat : a[2] \in Positions(a[1])}

MutationOf(a) == PlannedMutation(a[1], a[2])

-------------------------------------------------------------------------------

\* The items that carry an ID (_domain_item_matches), and the statements of a
\* claim's subject under the claim's predicate that carry the claim ID.
Matches(k) == {a \in store : Key(MutationOf(a)) = k}

Missing(r) == r \notin Seeded /\ Matches(ItemKey(r)) = {}

\* _resolve_domain_item: exactly one item, or an error.
Resolved(r) == r \in Seeded \/ \E a \in store : Matches(ItemKey(r)) = {a}

\* Equal payload on the only match is equivalence; anything else found is a
\* conflict, two equal matches included.
Observed(k, d) ==
  IF Matches(k) = {} THEN "absent"
  ELSE IF \E a \in store : Matches(k) = {a} /\ MutationOf(a).payload = d
       THEN "equivalent"
       ELSE "conflict"

\* The base of an update is an item, and inspected as one.
BaseObserved(m) == Observed(ItemKey(m.base.record), m.base.payload)

\* inspect_effect, by kind of mutation.
InspectionState(m) ==
  IF m.kind = "claim" /\ ~Resolved(m.base.record) THEN "unknown"
  ELSE IF m.kind = "entity_update" /\ ~Resolved(m.base.record)
       THEN IF Missing(m.base.record) THEN "unknown" ELSE "conflict"
  ELSE IF m.kind = "event_update" /\ BaseObserved(m) # "equivalent"
       THEN BaseObserved(m)
  ELSE Observed(Key(m), m.payload)

\* _inspect_or_unknown: a read that raises is an explicit unknown.
Inspections(m) ==
  {InspectionState(m)} \cup (IF "read_error" \in Faults THEN {"unknown"} ELSE {})

\* Mutant: references are taken on trust.
ResolvableOnTrust(m) == m.refs \subseteq Records

Resolvable(m) == \A r \in m.refs : Resolved(r)

-------------------------------------------------------------------------------

\* The adapter posts wbeditentity for a mutation.
Post(a) ==
  /\ inflight' = inflight \cup {a}
  /\ UNCHANGED store

\* The server saves an edit: no uniqueness, no idempotency key.
Save(a) ==
  /\ a \in inflight
  /\ store' = store \cup {a}
  /\ inflight' = inflight \ {a}

\* The server declines an edit (HTTP 4xx or an error body).
Decline(a) ==
  /\ a \in inflight
  /\ inflight' = inflight \ {a}
  /\ UNCHANGED store
===============================================================================
