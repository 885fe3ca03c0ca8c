---------------------------- MODULE EditorialReview ----------------------------
(***************************************************************************)
(* Extraction from a claimed queue item and the hand-over to an editor:    *)
(* the gate before the model is invoked and the boundary after it          *)
(* (model_extraction_trial.py, ai_extraction_boundary.py), and the review  *)
(* packet (editorial_review_packet.py, _editorial_review_packet_core.py).  *)
(*                                                                         *)
(* The model runs while monitoring goes on: the item may absorb documents, *)
(* be given back, be routed to humans or be closed in the meantime.  The   *)
(* boundary is checked against the item as it was when the run began; only *)
(* the packet reads it again.                                              *)
(***************************************************************************)
EXTENDS EditorialRouting

CONSTANTS
  Runs,    \* extraction runs
  NoRun

VARIABLES
  runs,     \* the extraction runs, with what has become of them
  packets   \* the runs for which a review packet was built

reviewVars == <<routingVars, runs, packets>>

RunStates == {"invoked", "accepted", "rejected", "proposed", "empty"}

RunRecords ==
  [content : Contents, documents : SUBSET DocumentIds, state : RunStates]

ASSUME NoRunAssumption == NoRun \notin RunRecords

ReviewInit ==
  /\ RoutingInit
  /\ runs = [r \in Runs |-> NoRun]
  /\ packets = {}

\* Mutant: the lane of the item is not looked at.
IsClaimed(c) == queue[c] # NoItem /\ queue[c].state = "claimed"

\* The conditions that the gate, the boundary and the packet all make on an
\* item: claimed, in the extraction lane, whose ai_extraction_allowed is true.
IsOpenToExtraction(c) ==
  /\ queue[c] # NoItem
  /\ queue[c].state = "claimed"
  /\ queue[c].lane = "candidate_extraction"

\* A worker passes the gate and invokes the model on documents of the item (the
\* trial harness on one of them; the boundary admits any of them).
Invoke(r, c) ==
  /\ runs[r] = NoRun
  /\ IsOpenToExtraction(c)
  /\ \E docs \in SUBSET queue[c].documents :
        /\ docs # {}
        /\ runs' = [runs EXCEPT ![r] =
                      [content |-> c, documents |-> docs, state |-> "invoked"]]
  /\ UNCHANGED <<routingVars, packets>>

Becomes(r, from, to) ==
  /\ runs[r] # NoRun
  /\ runs[r].state = from
  /\ runs' = [runs EXCEPT ![r].state = to]
  /\ UNCHANGED <<routingVars, packets>>

\* The output is parsed and the run validated against the item of the gate:
\* what depends on the output alone decides.  An accepted run whose JSON fails
\* its schema is rejected after all, by who invoked the model.
Finish(r) ==
  \/ Becomes(r, "invoked", "accepted")
  \/ Becomes(r, "invoked", "rejected")
  \/ Becomes(r, "accepted", "rejected")

\* The resolver prepares one proposal, or none if no mutation survives.
Resolve(r) ==
  \/ Becomes(r, "accepted", "proposed")
  \/ Becomes(r, "accepted", "empty")

\* Mutant: the packet is content with some documents of the item.
CoversSome(r) == runs[r].documents \subseteq queue[runs[r].content].documents

\* The extraction used exactly the documents that the item has by now.
CoversItem(r) == runs[r].documents = queue[runs[r].content].documents

\* build_editorial_review_packet, with the item as it is now.  (The code takes the
\* caller's copy, which may be older; README.md, hazards.)
Package(r) ==
  /\ runs[r] # NoRun
  /\ runs[r].state = "proposed"
  /\ IsOpenToExtraction(runs[r].content)
  /\ CoversItem(r)
  /\ packets' = packets \cup {r}
  /\ UNCHANGED <<routingVars, runs>>

ReviewNext ==
  \/ RoutingNext /\ UNCHANGED <<runs, packets>>
  \/ \E r \in Runs :
        (\E c \in Contents : Invoke(r, c)) \/ Finish(r) \/ Resolve(r) \/ Package(r)

ReviewSpec == ReviewInit /\ [][ReviewNext]_reviewVars

-------------------------------------------------------------------------------

\* Every variable has the type its comment says.
ReviewTypeOK ==
  /\ RoutingTypeOK
  /\ runs \in [Runs -> RunRecords \cup {NoRun}]
  /\ packets \subseteq Runs

\* A packet is only handed over while no observation that its item has
\* absorbed is restricted, and it shows every document that the item has got,
\* those absorbed while the model ran included.
PacketIsWhole ==
  [][\A r \in packets' \ packets :
       LET item == queue[runs[r].content]
       IN  /\ \A o \in item.observations : ~IsRed(o)
           /\ runs[r].documents = {DocumentOf(o) : o \in item.observations}
    ]_reviewVars

\* Two packets about one text never each show a document the other lacks.
PacketsAreNested ==
  \A r, q \in packets : runs[r].content = runs[q].content =>
     \/ runs[r].documents \subseteq runs[q].documents
     \/ runs[q].documents \subseteq runs[r].documents

\* The documents of a run stay documents of its item, whatever the item absorbs
\* or becomes: the provenance that the boundary checked is never lost.
RunStaysInProvenance ==
  \A r \in Runs : runs[r] # NoRun =>
     /\ queue[runs[r].content] # NoItem
     /\ runs[r].documents \subseteq queue[runs[r].content].documents
===============================================================================
