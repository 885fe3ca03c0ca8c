------------------------- MODULE EditorialReviewProofs -------------------------
(***************************************************************************)
(* Theorems about review packets while monitoring goes on, for any feeds,  *)
(* contents, policies and extraction runs.                                 *)
(***************************************************************************)
EXTENDS EditorialReview, EditorialProofs

\* The inductive invariant.
ReviewInv ==
  /\ RoutingInv
  /\ ReviewTypeOK
  /\ RunStaysInProvenance
  /\ \A r \in packets : runs[r] # NoRun
  /\ PacketsAreNested

-------------------------------------------------------------------------------

\* Whatever monitoring and editors do, an item stays and keeps its documents.
LEMMA DocumentsGrow ==
  ASSUME RoutingInv, [RoutingNext]_routingVars,
         NEW c \in Contents, queue[c] # NoItem
  PROVE  queue'[c] # NoItem /\ queue[c].documents \subseteq queue'[c].documents
<1>1. CASE UNCHANGED queue
  BY <1>1
<1>2. ASSUME NEW o \in observations, Merge(o)
      PROVE  queue'[c] # NoItem /\ queue[c].documents \subseteq queue'[c].documents
  <2>1. o \in Observations /\ o.content \in Contents
    BY DEF RoutingInv, RoutingTypeOK, Observations
  <2>2. CASE c # o.content
    BY <1>2, <2>2 DEF Merge
  <2>3. CASE c = o.content
    <3>1. queue[c] \in Items
      BY DEF RoutingInv, RoutingTypeOK
    <3>2. queue'[c] = MergedItem(queue[c], o)
      BY <1>2, <2>3 DEF Merge, RoutingInv, RoutingTypeOK
    <3>3. /\ MergedItem(queue[c], o) \in Items
          /\ MergedItem(queue[c], o).documents =
               queue[c].documents \cup {DocumentOf(o)}
      BY <1>2, <2>1, <3>1, MergedItemIsItem DEF Merge
    <3> QED
      BY <3>2, <3>3, NoItemAssumption
  <2> QED
    BY <2>2, <2>3
<1>3. ASSUME NEW o \in observations, CreateItem(o)
      PROVE  queue'[c] # NoItem /\ queue[c].documents \subseteq queue'[c].documents
  <2>1. c # o.content
    BY <1>3 DEF CreateItem
  <2> QED
    BY <1>3, <2>1 DEF CreateItem
<1>4. ASSUME NEW d \in Contents, Claim(d) \/ GiveBack(d) \/ Close(d)
      PROVE  queue'[c] # NoItem /\ queue[c].documents \subseteq queue'[c].documents
  <2>1. PICK from \in ItemStates, to \in ItemStates : MoveItem(d, from, to)
    BY <1>4 DEF Claim, GiveBack, Close, ItemStates
  <2>2. CASE c # d
    BY <2>1, <2>2 DEF MoveItem
  <2>3. CASE c = d
    <3>1. queue[c] \in Items
      BY DEF RoutingInv, RoutingTypeOK
    <3>2. queue'[c] = [queue[c] EXCEPT !.state = to]
      BY <2>1, <2>3 DEF MoveItem, RoutingInv, RoutingTypeOK
    <3>3. queue'[c] \in Items /\ queue'[c].documents = queue[c].documents
      BY <3>1, <3>2 DEF Items
    <3> QED
      BY <3>3, NoItemAssumption
  <2> QED
    BY <2>2, <2>3
<1>5. ASSUME NEW o \in observations, Route(o)
      PROVE  queue'[c] # NoItem /\ queue[c].documents \subseteq queue'[c].documents
  BY <1>1, <1>2, <1>3, <1>5 DEF Route, Ignore
<1> QED
  BY <1>1, <1>4, <1>5 DEF RoutingNext, Fetch, ChangePolicy, routingVars

\* An item that is open to extraction has absorbed nothing restricted.
LEMMA OpenIsUnrestricted ==
  ASSUME RoutingInv, NEW c \in Contents, IsOpenToExtraction(c),
         NEW o \in queue[c].observations
  PROVE  ~IsRed(o)
<1> SUFFICES ASSUME IsRed(o) PROVE FALSE
  OBVIOUS
<1>1. queue[c] # NoItem /\ queue[c].lane = "candidate_extraction"
  BY DEF IsOpenToExtraction
<1>2. ~IsIgnored(o)
  BY <1>1 DEF RoutingInv, Filed
<1>3. DesiredLane(o) = "restricted_human"
  BY <1>2 DEF IsIgnored, DesiredLane
<1>4. LaneRank("restricted_human") <= LaneRank("candidate_extraction")
  BY <1>1, <1>3 DEF RoutingInv, ItemIsJoin
<1> QED
  BY <1>4 DEF LaneRank

LEMMA ReviewInvInit == ReviewInit => ReviewInv
<1> SUFFICES ASSUME ReviewInit PROVE ReviewInv
  OBVIOUS
<1>1. RoutingInv
  BY RoutingInvInit DEF ReviewInit
<1>2. ReviewTypeOK
  BY <1>1 DEF ReviewInit, ReviewTypeOK, RoutingInv
<1>3. RunStaysInProvenance /\ PacketsAreNested /\ packets = {}
  BY DEF ReviewInit, RunStaysInProvenance, PacketsAreNested
<1> QED
  BY <1>1, <1>2, <1>3 DEF ReviewInv

\* Monitoring does not touch runs and packets.
LEMMA ReviewInvRouting ==
  ASSUME ReviewInv, [RoutingNext]_routingVars, UNCHANGED <<runs, packets>>
  PROVE  ReviewInv'
<1>1. RoutingInv'
  BY InvNext DEF ReviewInv
<1>2. ReviewTypeOK'
  BY <1>1 DEF ReviewInv, ReviewTypeOK, RoutingInv
<1>3. RunStaysInProvenance'
  <2> SUFFICES ASSUME NEW r \in Runs, runs[r] # NoRun
               PROVE  /\ queue'[runs[r].content] # NoItem
                      /\ runs[r].documents \subseteq queue'[runs[r].content].documents
    BY DEF RunStaysInProvenance
  <2>1. runs[r].content \in Contents
    BY DEF ReviewInv, ReviewTypeOK, RunRecords
  <2>2. /\ queue[runs[r].content] # NoItem
        /\ runs[r].documents \subseteq queue[runs[r].content].documents
    BY DEF ReviewInv, RunStaysInProvenance
  <2> QED
    BY <2>1, <2>2, DocumentsGrow DEF ReviewInv
<1>4. PacketsAreNested' /\ \A r \in packets' : runs'[r] # NoRun
  BY DEF ReviewInv, PacketsAreNested
<1> QED
  BY <1>1, <1>2, <1>3, <1>4 DEF ReviewInv

\* A step of a run r that keeps its text and its documents.
LEMMA ReviewInvRun ==
  ASSUME ReviewInv, NEW r \in Runs, NEW run \in RunRecords, run # NoRun,
         runs' = [runs EXCEPT ![r] = run], UNCHANGED <<routingVars, packets>>,
         queue[run.content] # NoItem,
         run.documents \subseteq queue[run.content].documents,
         runs[r] # NoRun => /\ run.content = runs[r].content
                            /\ run.documents = runs[r].documents
  PROVE  ReviewInv'
<1>1. /\ runs'[r] = run
      /\ \A q \in Runs \ {r} : runs'[q] = runs[q]
  BY DEF ReviewInv, ReviewTypeOK
<1>2. RoutingInv'
  BY DEF ReviewInv, RoutingInv, RoutingTypeOK, Filed, ItemIsJoin, RoutedIsFiled,
         routingVars, monitorVars
<1>3. ReviewTypeOK'
  BY <1>2 DEF ReviewInv, ReviewTypeOK, RoutingInv
<1>4. RunStaysInProvenance'
  BY <1>1 DEF ReviewInv, RunStaysInProvenance, routingVars
<1>5. \A q \in packets' : runs'[q] # NoRun
  BY <1>1 DEF ReviewInv, ReviewTypeOK
<1>6. PacketsAreNested'
  <2>1. \A q \in packets : /\ runs'[q].content = runs[q].content
                           /\ runs'[q].documents = runs[q].documents
    BY <1>1 DEF ReviewInv, ReviewTypeOK
  <2> QED
    BY <2>1 DEF ReviewInv, PacketsAreNested
<1> QED
  BY <1>2, <1>3, <1>4, <1>5, <1>6 DEF ReviewInv

LEMMA ReviewInvInvoke ==
  ASSUME ReviewInv, NEW r \in Runs, NEW c \in Contents, Invoke(r, c)
  PROVE  ReviewInv'
<1>1. PICK docs \in SUBSET queue[c].documents :
         runs' = [runs EXCEPT ![r] =
                    [content |-> c, documents |-> docs, state |-> "invoked"]]
  BY DEF Invoke
<1> DEFINE run == [content |-> c, documents |-> docs, state |-> "invoked"]
<1>2. queue[c] # NoItem /\ queue[c] \in Items
  BY DEF Invoke, IsOpenToExtraction, ReviewInv, ReviewTypeOK, RoutingTypeOK
<1>3. run \in RunRecords /\ run.content = c /\ run.documents = docs
  BY <1>2 DEF RunRecords, RunStates, Items
<1>4. runs[r] = NoRun /\ UNCHANGED <<routingVars, packets>>
  BY DEF Invoke
<1> HIDE DEF run
<1>5. run # NoRun
  BY <1>3, NoRunAssumption
<1>6. runs' = [runs EXCEPT ![r] = run]
  BY <1>1 DEF run
<1> QED
  BY <1>2, <1>3, <1>4, <1>5, <1>6, ReviewInvRun

\* A run keeps its text and its documents from state to state.
LEMMA ReviewInvBecomes ==
  ASSUME ReviewInv, NEW r \in Runs, NEW from \in RunStates, NEW to \in RunStates,
         Becomes(r, from, to)
  PROVE  ReviewInv'
<1> DEFINE run == [runs[r] EXCEPT !.state = to]
<1>1. runs[r] \in RunRecords
  BY DEF Becomes, ReviewInv, ReviewTypeOK
<1>2. /\ run \in RunRecords
      /\ run.content = runs[r].content
      /\ run.documents = runs[r].documents
  BY <1>1 DEF RunRecords
<1>3. runs' = [runs EXCEPT ![r] = run] /\ UNCHANGED <<routingVars, packets>>
  BY DEF Becomes
<1> HIDE DEF run
<1>4. run # NoRun
  BY <1>2, NoRunAssumption
<1>5. /\ queue[run.content] # NoItem
      /\ run.documents \subseteq queue[run.content].documents
  BY <1>2 DEF Becomes, ReviewInv, RunStaysInProvenance
<1> QED
  BY <1>2, <1>3, <1>4, <1>5, ReviewInvRun

\* A packet shows all the documents of its item: those of earlier packets too.
LEMMA ReviewInvPackage ==
  ASSUME ReviewInv, NEW r \in Runs, Package(r)
  PROVE  ReviewInv'
<1>1. /\ runs' = runs
      /\ queue' = queue
      /\ packets' = packets \cup {r}
      /\ runs[r] # NoRun
      /\ runs[r].documents = queue[runs[r].content].documents
  BY DEF Package, CoversItem, routingVars
<1>2. RoutingInv'
  BY DEF Package, ReviewInv, RoutingInv, RoutingTypeOK, Filed, ItemIsJoin,
         RoutedIsFiled, routingVars, monitorVars
<1>3. ReviewTypeOK'
  BY <1>1, <1>2 DEF ReviewInv, ReviewTypeOK, RoutingInv
<1>4. RunStaysInProvenance' /\ \A q \in packets' : runs'[q] # NoRun
  BY <1>1 DEF ReviewInv, RunStaysInProvenance
<1>5. PacketsAreNested'
  <2>1. \A q \in packets : runs[q].content = runs[r].content =>
          runs[q].documents \subseteq runs[r].documents
    BY <1>1 DEF ReviewInv, ReviewTypeOK, RunStaysInProvenance
  <2> QED
    BY <1>1, <2>1 DEF ReviewInv, PacketsAreNested
<1> QED
  BY <1>2, <1>3, <1>4, <1>5 DEF ReviewInv

LEMMA ReviewInvNext == ReviewInv /\ [ReviewNext]_reviewVars => ReviewInv'
<1> SUFFICES ASSUME ReviewInv, [ReviewNext]_reviewVars PROVE ReviewInv'
  OBVIOUS
<1>1. CASE RoutingNext /\ UNCHANGED <<runs, packets>>
  BY <1>1, ReviewInvRouting
<1>2. CASE UNCHANGED reviewVars
  BY <1>2, ReviewInvRouting DEF reviewVars
<1>3. ASSUME NEW r \in Runs, NEW c \in Contents, Invoke(r, c) PROVE ReviewInv'
  BY <1>3, ReviewInvInvoke
<1>4. ASSUME NEW r \in Runs, Finish(r) \/ Resolve(r) PROVE ReviewInv'
  BY <1>4, ReviewInvBecomes DEF Finish, Resolve, RunStates
<1>5. ASSUME NEW r \in Runs, Package(r) PROVE ReviewInv'
  BY <1>5, ReviewInvPackage
<1> QED
  BY <1>1, <1>2, <1>3, <1>4, <1>5 DEF ReviewNext

LEMMA ReviewInvAlways == ReviewSpec => []ReviewInv
<1> QED
  BY ReviewInvInit, ReviewInvNext, PTL DEF ReviewSpec

-------------------------------------------------------------------------------

\* The variables of review and of the monitoring it runs beside are well typed.
THEOREM ReviewTypeCorrect == ReviewSpec => []ReviewTypeOK
<1>1. ReviewInv => ReviewTypeOK
  BY DEF ReviewInv
<1> QED
  BY <1>1, ReviewInvAlways, PTL

\* What the boundary checked of a run's documents stays true of its item,
\* whatever is routed to the item while the model runs and afterwards.
THEOREM ProvenanceKept == ReviewSpec => []RunStaysInProvenance
<1>1. ReviewInv => RunStaysInProvenance
  BY DEF ReviewInv
<1> QED
  BY <1>1, ReviewInvAlways, PTL

\* Of two packets about one text, one shows every document of the other.
THEOREM PacketsNested == ReviewSpec => []PacketsAreNested
<1>1. ReviewInv => PacketsAreNested
  BY DEF ReviewInv
<1> QED
  BY <1>1, ReviewInvAlways, PTL

\* A packet that is handed over shows the document of every observation routed
\* to its item so far, and none of them is restricted.
THEOREM PacketsWhole == ReviewSpec => PacketIsWhole
<1>1. ASSUME ReviewInv, [ReviewNext]_reviewVars, NEW r \in packets' \ packets
      PROVE  /\ \A o \in queue[runs[r].content].observations : ~IsRed(o)
             /\ runs[r].documents =
                  {DocumentOf(o) : o \in queue[runs[r].content].observations}
  <2>1. Package(r) /\ r \in Runs
    BY <1>1 DEF ReviewNext, reviewVars, Invoke, Finish, Resolve, Becomes, Package
  <2>2. runs[r].content \in Contents
    BY <1>1, <2>1 DEF Package, ReviewInv, ReviewTypeOK, RunRecords
  <2>3. IsOpenToExtraction(runs[r].content) /\ CoversItem(r)
    BY <2>1 DEF Package
  <2>4. \A o \in queue[runs[r].content].observations : ~IsRed(o)
    BY <1>1, <2>2, <2>3, OpenIsUnrestricted DEF ReviewInv
  <2>5. runs[r].documents =
          {DocumentOf(o) : o \in queue[runs[r].content].observations}
    BY <1>1, <2>2, <2>3
    DEF CoversItem, IsOpenToExtraction, ReviewInv, RoutingInv, ItemIsJoin
  <2> QED
    BY <2>4, <2>5
<1>2. ReviewInv /\ [ReviewNext]_reviewVars =>
        [\A r \in packets' \ packets :
           LET item == queue[runs[r].content]
           IN  /\ \A o \in item.observations : ~IsRed(o)
               /\ runs[r].documents = {DocumentOf(o) : o \in item.observations}
        ]_reviewVars
  BY <1>1
<1> QED
  BY <1>2, ReviewInvAlways, PTL DEF ReviewSpec, PacketIsWhole

\* Extraction and review only read the queue: with them beside it monitoring
\* behaves as it does alone, so all that is proved of it holds here as well.
THEOREM ReviewKeepsRouting == ReviewSpec => RoutingSpec
<1>1. ReviewInit => RoutingInit
  BY DEF ReviewInit
<1>2. [ReviewNext]_reviewVars => [RoutingNext]_routingVars
  BY DEF ReviewNext, reviewVars, Invoke, Finish, Resolve, Becomes, Package
<1> QED
  BY <1>1, <1>2, PTL DEF ReviewSpec, RoutingSpec
===============================================================================
