---------------------------- MODULE EditorialProofs ----------------------------
(***************************************************************************)
(* Theorems about the routing of observations, for any feeds, contents and *)
(* policies and any number of fetches.                                     *)
(***************************************************************************)
EXTENDS EditorialRouting, TLAPS

\* What the items hold, besides their types: observations that exist, that wanted
\* a lane and whose content is the key.
Filed ==
  \A c \in Contents : queue[c] # NoItem =>
     \A o \in queue[c].observations :
        o \in observations /\ o.content = c /\ ~IsIgnored(o)

\* The inductive invariant.
RoutingInv == RoutingTypeOK /\ Filed /\ ItemIsJoin /\ RoutedIsFiled

-------------------------------------------------------------------------------

\* _desired_lane answers a lane for an observation that is not ignored.
LEMMA DesiredLaneIsLane ==
  ASSUME NEW o, ~IsIgnored(o)
  PROVE  DesiredLane(o) \in Lanes
BY DEF IsIgnored, DesiredLane, Lanes

\* The rank orders the lanes.
LEMMA RankOrders ==
  /\ \A l \in Lanes : LaneRank(l) \in Nat
  /\ \A l, m \in Lanes : LaneRank(l) = LaneRank(m) => l = m
  /\ \A l \in Lanes : LaneRank(l) <= LaneRank("restricted_human")
BY DEF Lanes, LaneRank

\* Merging is a join of lanes: the result is one of the two, and above both.
LEMMA MergeIsJoin ==
  ASSUME NEW l \in Lanes, NEW o, ~IsIgnored(o)
  PROVE  /\ MergedLane(l, o) \in Lanes
         /\ MergedLane(l, o) \in {l, DesiredLane(o)}
         /\ LaneRank(l) <= LaneRank(MergedLane(l, o))
         /\ LaneRank(DesiredLane(o)) <= LaneRank(MergedLane(l, o))
BY DesiredLaneIsLane, RankOrders DEF MergedLane

\* A new item is an item about its only observation.
LEMMA NewItemIsItem ==
  ASSUME NEW o \in Observations, ~IsIgnored(o)
  PROVE  NewItem(o) \in Items
<1>1. DesiredLane(o) \in Lanes
  BY DesiredLaneIsLane
<1>2. IsHigh(o) \in BOOLEAN
  BY DEF IsHigh, IsRed
<1>3. DocumentOf(o) \in DocumentIds
  BY DEF Observations, DocumentOf, DocumentIds
<1> QED
  BY <1>1, <1>2, <1>3 DEF NewItem, Items, ItemStates

\* A merged item is an item, and its fields are the joins of the fields.
LEMMA MergedItemIsItem ==
  ASSUME NEW item \in Items, NEW o \in Observations, ~IsIgnored(o)
  PROVE  /\ MergedItem(item, o) \in Items
         /\ MergedItem(item, o).lane = MergedLane(item.lane, o)
         /\ MergedItem(item, o).state = item.state
         /\ MergedItem(item, o).high = (item.high \/ IsHigh(o))
         /\ MergedItem(item, o).observations = item.observations \cup {o}
         /\ MergedItem(item, o).documents = item.documents \cup {DocumentOf(o)}
<1>1. MergedLane(item.lane, o) \in Lanes
  BY MergeIsJoin DEF Items
<1>2. (item.high \/ IsHigh(o)) \in BOOLEAN
  OBVIOUS
<1>3. DocumentOf(o) \in DocumentIds
  BY DEF Observations, DocumentOf, DocumentIds
<1> QED
  BY <1>1, <1>2, <1>3 DEF MergedItem, Items

-------------------------------------------------------------------------------

LEMMA RoutingInvInit == RoutingInit => RoutingInv
BY RoutingAssumption
   DEF RoutingInit, RoutingInv, RoutingTypeOK, Filed, ItemIsJoin, RoutedIsFiled

\* A fetch adds one observation and touches no item.
LEMMA InvFetch ==
  ASSUME RoutingInv, NEW f \in Feeds, NEW c \in Contents, Fetch(f, c)
  PROVE  RoutingInv'
<1>1. DocumentRecord(f, c) \in Documents
  BY DEF DocumentRecord, Documents, RoutingInv, RoutingTypeOK
<1>2. ClassifiedDocument(f, c) \in Documents
  BY <1>1 DEF ClassifiedDocument, IsSameFingerprint, RoutingInv, RoutingTypeOK
<1>3. Observation(f, c) \in Observations
  BY DEF Observation, Observations, ClassifiedAs, Statuses, RoutingInv, RoutingTypeOK
<1>4. RoutingTypeOK'
  BY <1>2, <1>3 DEF Fetch, RoutingInv, RoutingTypeOK
<1>5. Filed'
  BY DEF Fetch, RoutingInv, Filed, IsIgnored, DesiredLane, IsRelevant, IsRed, Eligible
<1>6. ItemIsJoin'
  BY DEF Fetch, RoutingInv, ItemIsJoin
<1>7. RoutedIsFiled'
  BY DEF Fetch, RoutingInv, RoutedIsFiled
<1> QED
  BY <1>4, <1>5, <1>6, <1>7 DEF RoutingInv

LEMMA InvPolicy ==
  ASSUME RoutingInv, ChangePolicy
  PROVE  RoutingInv'
BY DEF ChangePolicy, RoutingInv, RoutingTypeOK, Filed, ItemIsJoin, RoutedIsFiled

\* An editor changes the state of an item, and nothing else of it.
LEMMA InvMove ==
  ASSUME RoutingInv, NEW c \in Contents,
         NEW from \in ItemStates, NEW to \in ItemStates, MoveItem(c, from, to)
  PROVE  RoutingInv'
<1> DEFINE moved == [queue[c] EXCEPT !.state = to]
<1>1. queue[c] \in Items
  BY DEF MoveItem, RoutingInv, RoutingTypeOK
<1>2. /\ moved \in Items
      /\ moved.lane = queue[c].lane /\ moved.high = queue[c].high
      /\ moved.observations = queue[c].observations
      /\ moved.documents = queue[c].documents
  BY <1>1 DEF Items
<1>3. queue' = [queue EXCEPT ![c] = moved]
  BY DEF MoveItem
<1>4. /\ queue'[c] = moved
      /\ \A d \in Contents \ {c} : queue'[d] = queue[d]
  BY <1>3 DEF RoutingInv, RoutingTypeOK
<1> HIDE DEF moved
<1>5. RoutingTypeOK'
  BY <1>2, <1>3, <1>4 DEF MoveItem, monitorVars, RoutingInv, RoutingTypeOK
<1>6. Filed'
  BY <1>2, <1>4 DEF MoveItem, monitorVars, RoutingInv, Filed
<1>7. ItemIsJoin'
  BY <1>2, <1>4 DEF MoveItem, RoutingInv, ItemIsJoin
<1>8. RoutedIsFiled'
  BY <1>2, <1>4, NoItemAssumption
     DEF MoveItem, monitorVars, RoutingInv, RoutedIsFiled, RoutingTypeOK, Observations
<1> QED
  BY <1>5, <1>6, <1>7, <1>8 DEF RoutingInv

\* What a routed observation o makes of the item of its content.
LEMMA InvFiled ==
  ASSUME RoutingInv, NEW o \in observations, ~IsIgnored(o), NEW item \in Items,
         queue' = [queue EXCEPT ![o.content] = item],
         routed' = routed \cup {o}, UNCHANGED monitorVars,
         IF queue[o.content] = NoItem
         THEN item = NewItem(o)
         ELSE item = MergedItem(queue[o.content], o)
  PROVE  RoutingInv'
<1>0. o \in Observations /\ o.content \in Contents
  BY DEF RoutingInv, RoutingTypeOK, Observations
<1>1. /\ queue'[o.content] = item
      /\ \A d \in Contents \ {o.content} : queue'[d] = queue[d]
      /\ item # NoItem
  BY <1>0, NoItemAssumption DEF RoutingInv, RoutingTypeOK
<1>2. item.observations = IF queue[o.content] = NoItem THEN {o}
                          ELSE queue[o.content].observations \cup {o}
  <2>1. CASE queue[o.content] = NoItem
    BY <2>1 DEF NewItem
  <2>2. CASE queue[o.content] # NoItem
    <3>1. queue[o.content] \in Items
      BY <1>0, <2>2 DEF RoutingInv, RoutingTypeOK
    <3> QED
      BY <2>2, <3>1, <1>0, MergedItemIsItem
  <2> QED
    BY <2>1, <2>2
<1>3. RoutingTypeOK'
  BY <1>0, <1>1, <1>2 DEF monitorVars, RoutingInv, RoutingTypeOK
<1>4. Filed'
  <2> SUFFICES ASSUME NEW c \in Contents, queue'[c] # NoItem,
                      NEW p \in queue'[c].observations
               PROVE  p \in observations' /\ p.content = c /\ ~IsIgnored(p)
    BY DEF Filed, IsIgnored, DesiredLane, IsRelevant, IsRed, Eligible
  <2>1. observations' = observations
    BY DEF monitorVars
  <2> QED
    BY <2>1, <1>1, <1>2 DEF RoutingInv, Filed
<1>5. ItemIsJoin'
  <2> DEFINE Joined(i) ==
        /\ \E p \in i.observations : i.lane = DesiredLane(p)
        /\ \A p \in i.observations : LaneRank(DesiredLane(p)) <= LaneRank(i.lane)
        /\ i.high <=> \E p \in i.observations : IsHigh(p)
        /\ i.documents = {DocumentOf(p) : p \in i.observations}
  <2>1. Joined(item)
    <3>1. CASE queue[o.content] = NoItem
      <4>1. /\ item.observations = {o} /\ item.lane = DesiredLane(o)
            /\ item.high = IsHigh(o) /\ item.documents = {DocumentOf(o)}
        BY <3>1 DEF NewItem
      <4>2. LaneRank(DesiredLane(o)) \in Nat
        BY DesiredLaneIsLane, RankOrders
      <4> QED
        BY <4>1, <4>2
    <3>2. CASE queue[o.content] # NoItem
      <4> DEFINE old == queue[o.content]
      <4>1. old \in Items /\ old.lane \in Lanes /\ old.high \in BOOLEAN
        BY <1>0, <3>2 DEF RoutingInv, RoutingTypeOK, Items
      <4>2. Joined(old)
        BY <1>0, <3>2 DEF RoutingInv, ItemIsJoin
      <4>3. \A p \in old.observations : DesiredLane(p) \in Lanes
        BY <1>0, <3>2, DesiredLaneIsLane DEF RoutingInv, Filed
      <4>4. item = MergedItem(old, o)
        BY <3>2
      <4> HIDE DEF old
      <4>5. /\ item.lane = MergedLane(old.lane, o)
            /\ item.high = (old.high \/ IsHigh(o))
            /\ item.observations = old.observations \cup {o}
            /\ item.documents = old.documents \cup {DocumentOf(o)}
        BY <4>1, <4>4, <1>0, MergedItemIsItem
      <4>6. /\ item.lane \in Lanes
            /\ item.lane \in {old.lane, DesiredLane(o)}
            /\ LaneRank(old.lane) <= LaneRank(item.lane)
            /\ LaneRank(DesiredLane(o)) <= LaneRank(item.lane)
        BY <4>1, <4>5, MergeIsJoin
      <4>7. \E p \in item.observations : item.lane = DesiredLane(p)
        BY <4>2, <4>5, <4>6
      <4>8. ASSUME NEW p \in item.observations
            PROVE  LaneRank(DesiredLane(p)) <= LaneRank(item.lane)
        <5>1. CASE p = o
          BY <5>1, <4>6
        <5>2. CASE p \in old.observations
          <6>1. LaneRank(DesiredLane(p)) <= LaneRank(old.lane)
            BY <5>2, <4>2
          <6>2. /\ LaneRank(DesiredLane(p)) \in Nat /\ LaneRank(old.lane) \in Nat
                /\ LaneRank(item.lane) \in Nat
            BY <5>2, <4>1, <4>3, <4>6, RankOrders
          <6> QED
            BY <6>1, <6>2, <4>6
        <5> QED
          BY <5>1, <5>2, <4>5
      <4>9. item.high <=> \E p \in item.observations : IsHigh(p)
        BY <4>2, <4>5
      <4>10. item.documents = {DocumentOf(p) : p \in item.observations}
        BY <4>2, <4>5
      <4> QED
        BY <4>7, <4>8, <4>9, <4>10
    <3> QED
      BY <3>1, <3>2
  <2>2. \A c \in Contents \ {o.content} : queue'[c] # NoItem => Joined(queue'[c])
    BY <1>1 DEF RoutingInv, ItemIsJoin
  <2>3. \A c \in Contents : queue'[c] # NoItem => Joined(queue'[c])
    BY <2>1, <2>2, <1>1
  <2> QED
    BY <2>3 DEF ItemIsJoin
<1>6. RoutedIsFiled'
  <2> SUFFICES ASSUME NEW p \in routed', ~IsIgnored(p)
               PROVE  queue'[p.content] # NoItem /\ p \in queue'[p.content].observations
    BY DEF RoutedIsFiled, IsIgnored, DesiredLane, IsRelevant, IsRed, Eligible
  <2>1. CASE p = o
    BY <2>1, <1>1, <1>2
  <2>2. CASE p \in routed
    <3>1. p.content \in Contents
      BY <2>2 DEF RoutingInv, RoutingTypeOK, Observations
    <3> QED
      BY <2>2, <3>1, <1>1, <1>2 DEF RoutingInv, RoutedIsFiled
  <2> QED
    BY <2>1, <2>2
<1> QED
  BY <1>3, <1>4, <1>5, <1>6 DEF RoutingInv

LEMMA InvRoute ==
  ASSUME RoutingInv, NEW o \in observations, Route(o)
  PROVE  RoutingInv'
<1>0. o \in Observations /\ o.content \in Contents
  BY DEF RoutingInv, RoutingTypeOK, Observations
<1>1. CASE Ignore(o)
  BY <1>1 DEF Ignore, Route, monitorVars, RoutingInv, RoutingTypeOK, Filed,
              ItemIsJoin, RoutedIsFiled
<1>2. CASE CreateItem(o)
  <2>1. NewItem(o) \in Items
    BY <1>0, <1>2, NewItemIsItem DEF CreateItem
  <2> QED
    BY <1>2, <2>1, InvFiled DEF CreateItem, Route
<1>3. CASE Merge(o)
  <2>1. queue[o.content] \in Items
    BY <1>0, <1>3 DEF Merge, RoutingInv, RoutingTypeOK
  <2>2. MergedItem(queue[o.content], o) \in Items
    BY <2>1, <1>0, <1>3, MergedItemIsItem DEF Merge
  <2> QED
    BY <1>3, <2>2, InvFiled DEF Merge, Route
<1> QED
  BY <1>1, <1>2, <1>3 DEF Route

LEMMA InvNext == RoutingInv /\ [RoutingNext]_routingVars => RoutingInv'
<1> SUFFICES ASSUME RoutingInv, [RoutingNext]_routingVars PROVE RoutingInv'
  OBVIOUS
<1>1. ASSUME NEW f \in Feeds, NEW c \in Contents, Fetch(f, c) PROVE RoutingInv'
  BY <1>1, InvFetch
<1>2. CASE ChangePolicy
  BY <1>2, InvPolicy
<1>3. ASSUME NEW o \in observations, Route(o) PROVE RoutingInv'
  BY <1>3, InvRoute
<1>4. ASSUME NEW c \in Contents, Claim(c) \/ GiveBack(c) \/ Close(c)
      PROVE  RoutingInv'
  <2>1. PICK from \in ItemStates, to \in ItemStates : MoveItem(c, from, to)
    BY <1>4 DEF Claim, GiveBack, Close, ItemStates
  <2> QED
    BY <2>1, InvMove
<1>5. CASE UNCHANGED routingVars
  BY <1>5 DEF routingVars, monitorVars, RoutingInv, RoutingTypeOK, Filed,
              ItemIsJoin, RoutedIsFiled
<1> QED
  BY <1>1, <1>2, <1>3, <1>4, <1>5 DEF RoutingNext

LEMMA RoutingInvAlways == RoutingSpec => []RoutingInv
<1> QED
  BY RoutingInvInit, InvNext, PTL DEF RoutingSpec

-------------------------------------------------------------------------------

\* The variables keep their types, and an item is about its key
\* (the identity that route_observation derives from the content).
THEOREM RoutingTypeCorrect == RoutingSpec => []RoutingTypeOK
<1>1. RoutingInv => RoutingTypeOK
  BY DEF RoutingInv
<1> QED
  BY <1>1, RoutingInvAlways, PTL

\* The items of the queue are joins of what was routed into them: the merge of
\* route_observation commutes and repeats, for any feeds and policies.
THEOREM ItemsAreJoins == RoutingSpec => []ItemIsJoin
<1>1. RoutingInv => ItemIsJoin
  BY DEF RoutingInv
<1> QED
  BY <1>1, RoutingInvAlways, PTL

\* No observation that was routed is ever dropped from its item.
THEOREM RoutedStaysFiled == RoutingSpec => []RoutedIsFiled
<1>1. RoutingInv => RoutedIsFiled
  BY DEF RoutingInv
<1> QED
  BY <1>1, RoutingInvAlways, PTL

\* Restricted material that was routed is with humans only.
THEOREM RestrictedWithHumans == RoutingSpec => []RestrictedReachesHumans
<1>1. ASSUME RoutingInv, NEW o \in routed, ~IsIgnored(o), IsRed(o)
      PROVE  queue[o.content].lane = "restricted_human"
  <2> DEFINE item == queue[o.content]
  <2>1. o.content \in Contents
    BY <1>1 DEF RoutingInv, RoutingTypeOK, Observations
  <2>2. /\ item # NoItem /\ o \in item.observations
    BY <1>1 DEF RoutingInv, RoutedIsFiled
  <2>3. item.lane \in Lanes
    BY <1>1, <2>1, <2>2 DEF RoutingInv, RoutingTypeOK, Items
  <2>4. DesiredLane(o) = "restricted_human"
    BY <1>1 DEF IsIgnored, DesiredLane
  <2>5. LaneRank("restricted_human") <= LaneRank(item.lane)
    BY <1>1, <2>1, <2>2, <2>4 DEF RoutingInv, ItemIsJoin
  <2> HIDE DEF item
  <2>6. item.lane = "restricted_human"
    BY <2>3, <2>5 DEF Lanes, LaneRank
  <2> QED
    BY <2>6 DEF item
<1>2. RoutingInv => RestrictedReachesHumans
  BY <1>1 DEF RestrictedReachesHumans
<1> QED
  BY <1>2, RoutingInvAlways, PTL

\* Material only ever seen on class E feeds is never opened to extraction.
THEOREM DiscoveryIsKept == RoutingSpec => []DiscoveryStaysDiscovery
<1>1. ASSUME RoutingInv, NEW c \in Contents, queue[c] # NoItem,
             queue[c].lane = "candidate_extraction"
      PROVE  \E o \in queue[c].observations : o.feed \notin DiscoveryOnly
  <2>1. PICK o \in queue[c].observations : queue[c].lane = DesiredLane(o)
    BY <1>1 DEF RoutingInv, ItemIsJoin
  <2>2. Eligible(o)
    BY <1>1, <2>1 DEF DesiredLane
  <2> QED
    BY <2>2 DEF Eligible
<1>2. RoutingInv => DiscoveryStaysDiscovery
  BY <1>1 DEF DiscoveryStaysDiscovery
<1> QED
  BY <1>2, RoutingInvAlways, PTL

\* Monitoring never changes what an editor has in hand or has closed.
THEOREM WorkUndisturbed == RoutingSpec => WorkIsUndisturbed
<1> DEFINE Undisturbed ==
      \A c \in Contents : queue[c] # NoItem =>
        /\ queue[c].state = "claimed" => queue'[c].lane = queue[c].lane
        /\ queue[c].state \in {"completed", "dismissed"} => queue'[c] = queue[c]
<1>1. ASSUME RoutingInv, [RoutingNext]_routingVars PROVE Undisturbed
  <2>1. ASSUME UNCHANGED queue PROVE Undisturbed
    BY <2>1
  <2>2. ASSUME NEW c \in Contents,
               NEW from \in {"queued", "claimed"}, NEW to \in ItemStates,
               MoveItem(c, from, to)
        PROVE  Undisturbed
    <3>1. queue[c] \in Items /\ queue[c].state = from
      BY <1>1, <2>2 DEF MoveItem, RoutingInv, RoutingTypeOK
    <3>2. queue'[c] = [queue[c] EXCEPT !.state = to]
      BY <1>1, <2>2 DEF MoveItem, RoutingInv, RoutingTypeOK
    <3>3. queue'[c].lane = queue[c].lane
      BY <3>1, <3>2 DEF Items
    <3>4. \A d \in Contents \ {c} : queue'[d] = queue[d]
      BY <1>1, <2>2 DEF MoveItem, RoutingInv, RoutingTypeOK
    <3> QED
      BY <3>1, <3>3, <3>4
  <2>3. ASSUME NEW o \in observations, Merge(o) PROVE Undisturbed
    <3>1. o \in Observations /\ o.content \in Contents
      BY <1>1 DEF RoutingInv, RoutingTypeOK, Observations
    <3>2. queue[o.content] \in Items
      BY <1>1, <2>3, <3>1 DEF Merge, RoutingInv, RoutingTypeOK
    <3>3. queue'[o.content] = MergedItem(queue[o.content], o)
      BY <1>1, <2>3, <3>1 DEF Merge, RoutingInv, RoutingTypeOK
    <3>4. queue'[o.content].lane = MergedLane(queue[o.content].lane, o)
      BY <2>3, <3>1, <3>2, <3>3, MergedItemIsItem DEF Merge
    <3>5. \A d \in Contents \ {o.content} : queue'[d] = queue[d]
      BY <2>3 DEF Merge
    <3> QED
      BY <2>3, <3>4, <3>5 DEF Merge, CanAbsorb
  <2>4. ASSUME NEW o \in observations, CreateItem(o) PROVE Undisturbed
    BY <2>4 DEF CreateItem
  <2>5. ASSUME NEW o \in observations, Route(o) PROVE Undisturbed
    BY <2>1, <2>3, <2>4, <2>5 DEF Route, Ignore
  <2>6. ASSUME NEW c \in Contents, Claim(c) \/ GiveBack(c) \/ Close(c)
        PROVE  Undisturbed
    <3>1. PICK from \in {"queued", "claimed"}, to \in ItemStates :
             MoveItem(c, from, to)
      BY <2>6 DEF Claim, GiveBack, Close, ItemStates
    <3> QED
      BY <2>2, <3>1
  <2> QED
    BY <1>1, <2>1, <2>5, <2>6
       DEF RoutingNext, Fetch, ChangePolicy, routingVars
<1>2. RoutingInv /\ [RoutingNext]_routingVars => [Undisturbed]_routingVars
  BY <1>1
<1> QED
  BY <1>2, RoutingInvAlways, PTL DEF RoutingSpec, WorkIsUndisturbed

-------------------------------------------------------------------------------

\* The Document a caller keeps of a feed is one of that feed, and no Document
\* is younger than the last fetch.
LatestIsKept ==
  /\ \A f \in Feeds : latest[f] # NoDocument =>
        latest[f] \in documents /\ latest[f].feed = f
  /\ \A d \in documents : d.retrieved < fetches

VersionsInv == LatestIsKept /\ VersionsPointBack

LEMMA VersionsFetch ==
  ASSUME RoutingTypeOK, VersionsInv, NEW f \in Feeds, NEW c \in Contents, Fetch(f, c)
  PROVE  VersionsInv'
<1> DEFINE new == ClassifiedDocument(f, c)
<1>1. /\ fetches \in Nat /\ fetches' = fetches + 1
      /\ documents' = documents \cup {new}
      /\ \A g \in Feeds : latest'[g] = IF g = f THEN new ELSE latest[g]
  BY DEF Fetch, RoutingTypeOK
<1>2. \A d \in documents : d.retrieved \in Nat
  BY DEF RoutingTypeOK, Documents
<1>3. CASE IsSameFingerprint(f, c)
  <2>1. new = latest[f] /\ new \in documents /\ new.feed = f
    BY <1>3 DEF ClassifiedDocument, IsSameFingerprint, VersionsInv, LatestIsKept
  <2>2. documents' = documents
    BY <1>1, <2>1
  <2> HIDE DEF new
  <2>3. LatestIsKept'
    BY <1>1, <1>2, <2>1, <2>2 DEF VersionsInv, LatestIsKept
  <2>4. VersionsPointBack'
    BY <2>2 DEF VersionsInv, VersionsPointBack
  <2> QED BY <2>3, <2>4 DEF VersionsInv
<1>4. CASE ~IsSameFingerprint(f, c)
  <2>1. /\ new.feed = f /\ new.content = c /\ new.retrieved = fetches
        /\ latest[f] = NoDocument => new.versionOf = NoContent
        /\ latest[f] # NoDocument => new.versionOf = latest[f].content
    BY <1>4 DEF ClassifiedDocument, DocumentRecord
  <2>2. ASSUME new.versionOf # NoContent
        PROVE  /\ new.versionOf # new.content
               /\ \E e \in documents : /\ e.feed = new.feed
                                       /\ e.content = new.versionOf
                                       /\ e.retrieved < new.retrieved
    BY <1>4, <2>1, <2>2 DEF IsSameFingerprint, VersionsInv, LatestIsKept
  <2> HIDE DEF new
  <2>3. LatestIsKept'
    BY <1>1, <1>2, <2>1 DEF VersionsInv, LatestIsKept
  <2>4. VersionsPointBack'
    BY <1>1, <2>2 DEF VersionsInv, VersionsPointBack
  <2> QED BY <2>3, <2>4 DEF VersionsInv
<1> QED BY <1>3, <1>4

\* A changed Document is a version of another text that its feed served before.
THEOREM VersionsAreOlder == RoutingSpec => []VersionsPointBack
<1>1. RoutingInit => VersionsInv
  BY DEF RoutingInit, VersionsInv, LatestIsKept, VersionsPointBack
<1>2. ASSUME RoutingTypeOK, VersionsInv, [RoutingNext]_routingVars
      PROVE  VersionsInv'
  <2>1. ASSUME UNCHANGED <<fetches, latest, documents>>
        PROVE  VersionsInv'
    BY <1>2, <2>1 DEF VersionsInv, LatestIsKept, VersionsPointBack
  <2>2. ASSUME NEW f \in Feeds, NEW c \in Contents, Fetch(f, c)
        PROVE  VersionsInv'
    BY <1>2, <2>2, VersionsFetch
  <2>3. CASE ChangePolicy
    BY <2>1, <2>3 DEF ChangePolicy
  <2>4. ASSUME NEW o \in observations, Route(o)
        PROVE  VersionsInv'
    BY <2>1, <2>4 DEF Route, monitorVars
  <2>5. ASSUME NEW c \in Contents, Claim(c) \/ GiveBack(c) \/ Close(c)
        PROVE  VersionsInv'
    BY <2>1, <2>5 DEF Claim, GiveBack, Close, MoveItem, monitorVars
  <2>6. CASE UNCHANGED routingVars
    BY <2>1, <2>6 DEF routingVars, monitorVars
  <2> QED BY <1>2, <2>2, <2>3, <2>4, <2>5, <2>6 DEF RoutingNext
<1>3. VersionsInv => VersionsPointBack
  BY DEF VersionsInv
<1> QED BY <1>1, <1>2, <1>3, RoutingTypeCorrect, PTL DEF RoutingSpec
===============================================================================
