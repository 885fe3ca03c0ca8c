------------------------ MODULE MutationGuardRefinement -----------------------
(***************************************************************************)
(* Dispatched execution implements the canonical ledger: the ledger entry  *)
(* of a key is the payload of the item or statement inspection finds by it.*)
(***************************************************************************)
EXTENDS MutationGuard

CONSTANT NoPayload

ASSUME NoPayloadAssumption == NoPayload \notin Payloads

LedgerView ==
  [k \in Keys |->
     IF Matches(k) = {} THEN NoPayload
     ELSE MutationOf(CHOOSE a \in store : Key(MutationOf(a)) = k).payload]

Ledger == INSTANCE CanonicalLedger WITH ledger <- LedgerView

\* Every execution of every interleaving of calls, faults and retries is one
\* the ledger allows: records admitted once, immutable, after what they refer
\* to, and one Revision per whole proposal.
ImplementsLedger == Ledger!LedgerSpec
===============================================================================
