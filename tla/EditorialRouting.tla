--------------------------- MODULE EditorialRouting ---------------------------
(***************************************************************************)
(* From a fetch to the editorial queue: classification of the fetched      *)
(* content (acquisition.py, document_identity.py), the observation made of *)
(* it under the routing policy of the moment, and its routing into the     *)
(* review queue (editorial_routing.py).                                    *)
(*                                                                         *)
(* A content is the SHA-256 of a canonical text; a feed is a registered    *)
(* pair of source and document key.  Exact copies meet in one queue item,  *)
(* whose ID is derived from the content.  Observations may wait, overtake  *)
(* each other and be routed again.  Editors claim items, give them back    *)
(* and close them; the code only reads the state of an item.               *)
(***************************************************************************)
EXTENDS Naturals

CONSTANTS
  Feeds, Contents, Policies,
  DiscoveryOnly,      \* feeds of class E sources
  Authoritative,      \* feeds of class A and B sources
  Relevant,           \* the contents a policy finds relevant
  Restricted,         \* those in which it finds a restricted term
  Pressing,           \* those in which it finds a high-priority term
  Allowlisted,        \* the feeds it opens to automated extraction
  MaxFetches,         \* bound on the number of fetches
  NoDocument, NoItem, NoContent

ASSUME RoutingAssumption ==
  /\ DiscoveryOnly \subseteq Feeds
  /\ Authoritative \subseteq Feeds \ DiscoveryOnly
  /\ Relevant \in [Policies -> SUBSET Contents]
  /\ Restricted \in [Policies -> SUBSET Contents]
  /\ Pressing \in [Policies -> SUBSET Contents]
  /\ Allowlisted \in [Policies -> SUBSET Feeds]
  /\ MaxFetches \in Nat
  /\ NoContent \notin Contents

VARIABLES
  policy,         \* the routing policy in force
  fetches,        \* number of fetches so far, and the clock of the receipts
  latest,         \* the previous_document that the caller keeps of a feed
  documents,      \* every Document record that was ever built
  observations,   \* every observation that was ever made
  routed,         \* those that route_observation accepted or ignored
  queue           \* the queue item of a content

monitorVars == <<policy, fetches, latest, documents, observations>>

routingVars == <<monitorVars, routed, queue>>

\* The ID of a Document is derived from its key and the hash of its content.
DocumentIds == Feeds \X Contents

Documents ==
  [feed : Feeds, content : Contents, versionOf : Contents \cup {NoContent},
   retrieved : Nat]

Statuses == {"new", "changed", "unchanged"}

Observations ==
  [feed : Feeds, content : Contents, status : Statuses, policy : Policies,
   observed : Nat]

Lanes == {"discovery_review", "candidate_extraction", "restricted_human"}

ItemStates == {"queued", "claimed", "completed", "dismissed"}

Items ==
  [lane : Lanes, state : ItemStates, high : BOOLEAN,
   observations : SUBSET Observations, documents : SUBSET DocumentIds]

ASSUME NoItemAssumption == NoItem \notin Items

RoutingInit ==
  /\ policy \in Policies
  /\ fetches = 0
  /\ latest = [f \in Feeds |-> NoDocument]
  /\ documents = {}
  /\ observations = {}
  /\ routed = {}
  /\ queue = [c \in Contents |-> NoItem]

-------------------------------------------------------------------------------

\* Mutant: the stored fingerprint never equals the new one.
NeverSame(f, c) == FALSE

\* A fetch of the feed: the receipt's fields are left out, its time is kept.
IsSameFingerprint(f, c) == latest[f] # NoDocument /\ latest[f].content = c

ClassifiedAs(f, c) ==
  IF latest[f] = NoDocument THEN "new"
  ELSE IF IsSameFingerprint(f, c) THEN "unchanged" ELSE "changed"

DocumentRecord(f, c) ==
  [feed |-> f, content |-> c, retrieved |-> fetches,
   versionOf |-> IF latest[f] = NoDocument THEN NoContent
                 ELSE latest[f].content]

ClassifiedDocument(f, c) ==
  IF IsSameFingerprint(f, c) THEN latest[f] ELSE DocumentRecord(f, c)

Observation(f, c) ==
  [feed |-> f, content |-> c, status |-> ClassifiedAs(f, c),
   policy |-> policy, observed |-> fetches]

\* A successful fetch: classify_fetch, then build_monitoring_observation.  The
\* caller keeps the Document for the next fetch of the feed.
Fetch(f, c) ==
  /\ fetches < MaxFetches
  /\ fetches' = fetches + 1
  /\ latest' = [latest EXCEPT ![f] = ClassifiedDocument(f, c)]
  /\ documents' = documents \cup {ClassifiedDocument(f, c)}
  /\ observations' = observations \cup {Observation(f, c)}
  /\ UNCHANGED <<policy, routed, queue>>

\* The owners of the routing policy change it.
ChangePolicy ==
  /\ policy' \in Policies \ {policy}
  /\ UNCHANGED <<fetches, latest, documents, observations, routed, queue>>

-------------------------------------------------------------------------------

IsRelevant(o) == o.content \in Relevant[o.policy]

IsRed(o) == o.content \in Restricted[o.policy]

\* Mutant: an allowlisted class E feed may feed the extractor.
EligibleByFeedAlone(o) == ~IsRed(o) /\ o.feed \in Allowlisted[o.policy]

\* ai_extraction_eligible
Eligible(o) ==
  /\ ~IsRed(o)
  /\ o.feed \in Allowlisted[o.policy] \ DiscoveryOnly

\* _desired_lane answers no lane at all for unchanged or irrelevant content,
\* before it looks at anything else.
DesiredLane(o) ==
  IF o.status = "unchanged" \/ ~IsRelevant(o) THEN "none"
  ELSE IF IsRed(o) THEN "restricted_human"
  ELSE IF Eligible(o) THEN "candidate_extraction" ELSE "discovery_review"

IsIgnored(o) == DesiredLane(o) = "none"

LaneRank(lane) ==
  IF lane = "restricted_human" THEN 3
  ELSE IF lane = "candidate_extraction" THEN 2 ELSE 1

\* _priority of the observation in its own lane
IsHigh(o) ==
  \/ IsRed(o)
  \/ o.content \in Pressing[o.policy]
  \/ o.feed \in Authoritative

DocumentOf(o) == <<o.feed, o.content>>

\* Mutant: the newest observation decides.
NewestLane(lane, o) == DesiredLane(o)

MergedLane(lane, o) ==
  IF LaneRank(DesiredLane(o)) > LaneRank(lane) THEN DesiredLane(o) ELSE lane

NewItem(o) ==
  [lane |-> DesiredLane(o), state |-> "queued", high |-> IsHigh(o),
   observations |-> {o}, documents |-> {DocumentOf(o)}]

\* Mutant: the newest observation replaces the others.
MergedByReplacement(item, o) ==
  [item EXCEPT !.lane = MergedLane(@, o), !.high = @ \/ IsHigh(o),
               !.observations = {o}, !.documents = {DocumentOf(o)}]

\* Mutant: the item keeps the documents it was created with.
MergedWithoutDocument(item, o) ==
  [item EXCEPT !.lane = MergedLane(@, o), !.high = @ \/ IsHigh(o),
               !.observations = @ \cup {o}]

MergedItem(item, o) ==
  [item EXCEPT !.lane = MergedLane(@, o), !.high = @ \/ IsHigh(o),
               !.observations = @ \cup {o}, !.documents = @ \cup {DocumentOf(o)}]

\* Mutant: a claimed item absorbs whatever comes.
AbsorbsWhileOpen(item, o) == item.state \in {"queued", "claimed"}

\* What route_observation accepts: a closed item absorbs nothing, and the lane
\* of a claimed one cannot change.
CanAbsorb(item, o) ==
  \/ item.state = "queued"
  \/ item.state = "claimed" /\ MergedLane(item.lane, o) = item.lane

Ignore(o) ==
  /\ IsIgnored(o)
  /\ UNCHANGED queue

\* Mutant: an observation without a lane makes an item as well.
CreateAlways(o) ==
  /\ queue[o.content] = NoItem
  /\ queue' = [queue EXCEPT ![o.content] = NewItem(o)]

CreateItem(o) ==
  /\ ~IsIgnored(o)
  /\ queue[o.content] = NoItem
  /\ queue' = [queue EXCEPT ![o.content] = NewItem(o)]

Merge(o) ==
  /\ ~IsIgnored(o)
  /\ queue[o.content] # NoItem
  /\ CanAbsorb(queue[o.content], o)
  /\ queue' = [queue EXCEPT ![o.content] = MergedItem(@, o)]

\* An observation is routed, for the first time or again.  When it is refused
\* (EditorialRoutingError) nothing changes and it can be routed later.
Route(o) ==
  /\ Ignore(o) \/ CreateItem(o) \/ Merge(o)
  /\ routed' = routed \cup {o}
  /\ UNCHANGED monitorVars

-------------------------------------------------------------------------------

\* Editors and workers move an item between its states.
MoveItem(c, from, to) ==
  /\ queue[c] # NoItem
  /\ queue[c].state = from
  /\ queue' = [queue EXCEPT ![c].state = to]
  /\ UNCHANGED <<monitorVars, routed>>

Claim(c) == MoveItem(c, "queued", "claimed")

GiveBack(c) == MoveItem(c, "claimed", "queued")

Close(c) ==
  \E from \in {"queued", "claimed"}, to \in {"completed", "dismissed"} :
     MoveItem(c, from, to)

RoutingNext ==
  \/ \E f \in Feeds, c \in Contents : Fetch(f, c)
  \/ ChangePolicy
  \/ \E o \in observations : Route(o)
  \/ \E c \in Contents : Claim(c) \/ GiveBack(c) \/ Close(c)

RoutingSpec == RoutingInit /\ [][RoutingNext]_routingVars

-------------------------------------------------------------------------------

\* Every variable has the type its comment says, and an item is about its key.
RoutingTypeOK ==
  /\ policy \in Policies
  /\ fetches \in Nat
  /\ latest \in [Feeds -> Documents \cup {NoDocument}]
  /\ documents \subseteq Documents
  /\ observations \subseteq Observations
  /\ routed \subseteq observations
  /\ queue \in [Contents -> Items \cup {NoItem}]
  /\ \A c \in Contents : queue[c] # NoItem =>
        \A o \in queue[c].observations : o.content = c

\* What a queue item says is the join of what its observations say, whatever
\* the order, the repetitions and the policy changes in which they came: the
\* highest lane any of them wants, high if one is, the document of each.
ItemIsJoin ==
  \A c \in Contents : queue[c] # NoItem =>
     LET item == queue[c]
         obs == item.observations
     IN  /\ \E o \in obs : item.lane = DesiredLane(o)
         /\ \A o \in obs : LaneRank(DesiredLane(o)) <= LaneRank(item.lane)
         /\ item.high <=> \E o \in obs : IsHigh(o)
         /\ item.documents = {DocumentOf(o) : o \in obs}

\* A changed Document is a version of another text that the same feed served
\* before it, however often the feed was fetched without a change in between.
VersionsPointBack ==
  \A d \in documents : d.versionOf # NoContent =>
     /\ d.versionOf # d.content
     /\ \E e \in documents : /\ e.feed = d.feed
                            /\ e.content = d.versionOf
                            /\ e.retrieved < d.retrieved

\* An observation that was routed, and not ignored, is in the item of its
\* content for ever: no later merge, claim or policy drops its provenance.
RoutedIsFiled ==
  \A o \in routed : ~IsIgnored(o) =>
     queue[o.content] # NoItem /\ o \in queue[o.content].observations

\* Restricted material that was routed is with humans only, also when copies of
\* it come from feeds that are open to extraction, before or after.
RestrictedReachesHumans ==
  \A o \in routed : ~IsIgnored(o) /\ IsRed(o) =>
     queue[o.content].lane = "restricted_human"

\* Material only ever seen on class E feeds is never opened to extraction,
\* whatever allowlists say.
DiscoveryStaysDiscovery ==
  \A c \in Contents : queue[c] # NoItem /\ queue[c].lane = "candidate_extraction" =>
     \E o \in queue[c].observations : o.feed \notin DiscoveryOnly

\* Nothing an editor has in hand changes lane under them, and a closed item is
\* never touched again (M4-MON-F04).
WorkIsUndisturbed ==
  [][\A c \in Contents : queue[c] # NoItem =>
       /\ queue[c].state = "claimed" => queue'[c].lane = queue[c].lane
       /\ queue[c].state \in {"completed", "dismissed"} => queue'[c] = queue[c]
    ]_routingVars

\* A Document record is immutable: one ID is never given to two records.
DocumentIsImmutable ==
  \A d, e \in documents :
     d.feed = e.feed /\ d.content = e.content => d = e
===============================================================================
