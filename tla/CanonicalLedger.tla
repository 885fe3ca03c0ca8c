---------------------------- MODULE CanonicalLedger ---------------------------
(***************************************************************************)
(* What canonical execution promises, without calls, lanes or failures: a  *)
(* ledger in which a record, or a Claim ID at one subject and predicate,   *)
(* is admitted once, with the content of an approved proposal, after the   *)
(* records it refers to, and is then immutable; and one Revision per       *)
(* proposal, once all of it is admitted.                                   *)
(***************************************************************************)
EXTENDS ApprovedPlans

CONSTANT NoPayload

VARIABLES
  ledger,      \* [Keys -> payload, or NoPayload while not admitted]
  revisions    \* the executions a Revision was recorded for

Admitted(r) == r \in Seeded \/ ledger[ItemKey(r)] # NoPayload

AdmittedWhole(p) ==
  \A i \in 1 .. Len(Plan[p]) : ledger[Key(Plan[p][i])] = Plan[p][i].payload

LedgerInit ==
  /\ ledger = [k \in Keys |-> NoPayload]
  /\ revisions = {}

Admit(m) ==
  /\ m.record \notin Seeded
  /\ ledger[Key(m)] = NoPayload
  /\ \A r \in m.refs : Admitted(r)
  /\ ledger' = [ledger EXCEPT ![Key(m)] = m.payload]
  /\ UNCHANGED revisions

Publish(c) ==
  /\ AdmittedWhole(ProposalOf[c])
  /\ \A d \in revisions : ProposalOf[d] # ProposalOf[c]
  /\ revisions' = revisions \cup {c}
  /\ UNCHANGED ledger

LedgerNext ==
  \/ \E p \in Proposals : \E i \in 1 .. Len(Plan[p]) : Admit(Plan[p][i])
  \/ \E c \in Calls : Publish(c)

LedgerSpec == LedgerInit /\ [][LedgerNext]_<<ledger, revisions>>
===============================================================================
