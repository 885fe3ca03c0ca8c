------------------------------ MODULE MCReaders ------------------------------
(***************************************************************************)
(* A small world for Readers: an aircraft with its maker and its operator, *)
(* a base, a program and an exercise, and an organization that was merged  *)
(* into another one.                                                       *)
(***************************************************************************)
EXTENDS Readers, TLC

Record(etype, subtype, status) == [etype |-> etype, subtype |-> subtype, status |-> status]
MCEntity ==
    [f15  |-> Record("equipment_variant", "fighter", "active"),
     boe  |-> Record("organization", "manufacturer", "active"),
     rsaf |-> Record("organization", "service", "active"),
     old  |-> Record("organization", "manufacturer", "merged"),
     base |-> Record("facility", "air_base", "active"),
     prog |-> Record("procurement_program", "none", "active"),
     exer |-> Record("exercise", "none", "active")]

Link(evidence, role) == [evidence |-> evidence, role |-> role]
One == {Link("e1", "supports")}
Two == {Link("e1", "contextualizes"), Link("e2", "supports")}

Fact(subject, predicate, kind, value, state, verified, links) ==
    [subject |-> subject, predicate |-> predicate, kind |-> kind, value |-> value, scope |-> {},
     state |-> state, confidence |-> "high", verified |-> verified, links |-> links]
MCClaim ==
    [made |-> Fact("boe", "manufactures", "entity", "f15", "active", 1, One),
     ops  |-> Fact("rsaf", "operates", "entity", "f15", "disputed", 1, Two),
     was  |-> Fact("old", "manufactures", "entity", "f15", "active", 1, One),
     lat  |-> Fact("base", "latitude", "number", "24.085", "active", 1, One),
     lon  |-> Fact("base", "longitude", "number", "-47.585", "active", 1, One),
     lat2 |-> Fact("base", "latitude", "number", "24.1", "disputed", 1, One),
     name |-> Fact("base", "location_label", "string", "north", "active", 1, One),
     nom  |-> Fact("base", "location_label", "string", "nord", "active", 1, One),
     unit |-> Fact("base", "associated_with", "entity", "rsaf", "active", 1, One),
     from |-> Fact("base", "associated_with", "entity", "old", "active", 1, One),
     buys |-> Fact("prog", "acquires", "entity", "f15", "active", 1, Two),
     life |-> Fact("prog", "lifecycle_state", "string", "delivered", "active", 3, One),
     many |-> Fact("prog", "procurement_quantity", "number", "84", "active", Never, One)]
MCLanguage == [c \in DOMAIN MCClaim |-> IF c = "nom" THEN "fr" ELSE "en"]
MCAngle == [lat |-> 24085, lon |-> -47585, lat2 |-> 24100]

Part(entity, role) == [entity |-> entity, role |-> role]
MCEvent ==
    [deliv |-> [etype |-> "delivery", dated |-> 1, related |-> {"f15"}, claims |-> {"made"},
                participants |-> <<Part("boe", "supplier"), Part("rsaf", "recipient")>>,
                links |-> Two],
     award |-> [etype |-> "contract_award", dated |-> 1, related |-> {"prog"}, claims |-> {"buys"},
                participants |-> <<Part("boe", "contractor")>>,
                links |-> One \cup {Link("e1", "contextualizes")}],
     signed |-> [etype |-> "contract_award", dated |-> 1, related |-> {}, claims |-> {"buys"},
                 participants |-> <<>>, links |-> One],
     drill |-> [etype |-> "exercise", dated |-> 2, related |-> {"exer"}, claims |-> {},
                participants |-> <<Part("rsaf", "host"), Part("rsaf", "participant")>>,
                links |-> Two]]

MCEvidence == [e1 |-> "d1", e2 |-> "d2"]
MCDocument == [d1 |-> "gov", d2 |-> "press"]
MCSource == [gov |-> [class |-> "A", active |-> TRUE], press |-> [class |-> "C", active |-> FALSE]]

-----------------------------------------------------------------------------
\* Text: a hyphen stays, an underscore is folded to a space, a mark vanishes.
MCFold == [x \in {"f", "b", "r", "o", "c", "p", "e", "1", "5", "-", " "} |-> <<x>>]
          @@ [x \in {"_"} |-> <<" ">>] @@ [x \in {"~"} |-> <<>>]
MCLatin == {"f", "b", "r", "o", "c", "p", "e", "1", "5"}
MCSpelled ==
    [f15 |-> <<"f", "-", "1", "5">>, boe |-> <<"b", "1">>, rsaf |-> <<"r", "1">>,
     old |-> <<"o", "1">>, base |-> <<"c", "1">>, prog |-> <<"p", "1">>, exer |-> <<"e", "1">>]
MCNamed ==
    [f15 |-> {<<"f", "_", "1", "~", "5">>, <<"_", "b", "1">>}, boe |-> {<<"b">>}, rsaf |-> {<<"r">>},
     old |-> {<<"b">>}, base |-> {<<"c", "_", "b">>},
     prog |-> {<<"p">>, <<"p", "_", "1", "_", "5", "c">>}, exer |-> {<<"e">>}]
MCAliased == [x \in DOMAIN MCEntity |-> IF x = "boe" THEN {<<"f", "1", "5">>} ELSE {}]
MCDescribed == [x \in DOMAIN MCEntity |-> {<<"f", "_", "b">>}]
MCAlphabet == [f15 |-> 3, boe |-> 1, rsaf |-> 7, old |-> 2, base |-> 4, prog |-> 6, exer |-> 5]
MCFacets ==
    [x \in DOMAIN MCEntity |->
        [manufacturers |-> IF x = "f15" THEN {"boe"} ELSE {},
         services |-> IF x \in {"f15", "base"} THEN {"rsaf"} ELSE {}]]
MCRevised == DOMAIN MCEntity

-----------------------------------------------------------------------------
MCReviewAfter ==
    [p \in {MCClaim[c].predicate : c \in DOMAIN MCClaim} |->
        IF p = "manufactures" THEN 4 ELSE IF p = "operates" THEN 2 ELSE 3]
MCPollAfter == [daily |-> 1, weekly |-> 2, closed |-> 1]
MCFeed == [daily |-> "gov", weekly |-> "gov", closed |-> "press"]
MCWork ==
    [q1 |-> [lane |-> "candidate_extraction", priority |-> "normal", extraction |-> TRUE],
     q2 |-> [lane |-> "restricted_human", priority |-> "normal", extraction |-> FALSE]]

-----------------------------------------------------------------------------
MCPlans == {"write", "migrate", "place", "program", "legacy"}
Admit(id) == [kind |-> "admit", id |-> id]
Mark(id) == [kind |-> "mark", id |-> id]
\* A plan brings the provenance of its Claims along, in front of them.
First == <<Admit("gov"), Admit("d1"), Admit("e1")>>
Second == <<Admit("press"), Admit("d2"), Admit("e2")>>
MCSteps ==
    [write   |-> First \o Second \o <<Admit("made"), Admit("ops"), Admit("deliv")>>,
     migrate |-> <<Mark("f15"), Mark("boe"), Mark("rsaf"), Mark("deliv")>>,
     place   |-> First \o <<Admit("lat"), Admit("name"), Admit("lon"), Admit("unit"),
                            Admit("lat2")>>,
     program |-> First \o Second \o <<Admit("buys"), Admit("life"), Admit("many"),
                                      Admit("award"), Admit("signed"), Admit("drill")>>,
     legacy  |-> First \o <<Admit("from"), Admit("was"), Admit("nom")>>]
MCSeeded == DOMAIN MCEntity
MCPlace ==
    [rsaf |-> 1, e2 |-> 2, boe |-> 3, deliv |-> 4, f15 |-> 5, press |-> 6, gov |-> 7, d1 |-> 8,
     e1 |-> 9, d2 |-> 10, old |-> 11, base |-> 12, prog |-> 13, exer |-> 14, award |-> 15,
     drill |-> 16, signed |-> 17]

\* A bound: the provenance that is there already is behind an open plan.
Behind == [write |-> 3, migrate |-> 0, place |-> 3, program |-> 6, legacy |-> 3]
At(finished, open) ==
    [p \in MCPlans |->
        IF p \in finished THEN Len(MCSteps[p]) ELSE IF p \in open THEN Behind[p] ELSE 0]
Shift(kind, finished, open) == [kind |-> kind, progress |-> At(finished, open), plans |-> open]
\* The adapter beside its writers, two plans as the public data grows, and
\* the desk over all of it.
MCShifts ==
    {Shift("adapter", {}, {"write", "migrate"}),
     Shift("records", {"write"}, {"place", "legacy"}),
     Shift("records", {"write"}, {"program", "legacy"}),
     Shift("desk", MCPlans, {})}

\* What ReaderProofs supposes of the plans holds of these.
ASSUME InstanceAssumption == EvidenceGoesFirst

Ask(roots, domains) == [roots |-> roots, domains |-> domains]
MCRequests ==
    {Ask({"f15"}, {"procurement"}), Ask({"boe", "base"}, {"procurement"}),
     Ask({"prog"}, {"procurement"}), Ask({"exer"}, {"exercise"}),
     Ask({"rsaf"}, {"procurement", "exercise"})}
=============================================================================
