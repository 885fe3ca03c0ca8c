------------------------------- MODULE Search -------------------------------
(***************************************************************************)
(* The search projection and the reference lexical search over it, and the *)
(* catalog of filters that navigation offers.  A text is a sequence of     *)
(* atoms; Fold is the orthographic folding of one, which is a sequence: a  *)
(* space for punctuation, nothing for a diacritic.                         *)
(***************************************************************************)
EXTENDS PublicMap, SequencesExt

CONSTANTS
    Fold,       \* atom -> folded atoms
    Latin,      \* atoms that are ASCII letters or digits
    Spelled,    \* Entity -> the text of its ID
    Named,      \* Entity -> its names, a set of texts
    Aliased,    \* Entity -> its aliases
    Described,  \* Entity -> its descriptions
    Alphabet,   \* Entity -> its place in the order of display names and IDs
    Facets,     \* Entity -> the facet values its projection is given
    Revised,    \* Entities with a Revision
    CompactLength, \* the longest text that has a compact variant: 64
    QueryLength,   \* the longest query: 256
    HitLimit       \* the most hits that a query may ask for: 50

Separators == {"-", " "}
Spaced(text, atom) ==
    IF atom = " " /\ (text = <<>> \/ Last(text) = " ") THEN text ELSE Append(text, atom)
\* normalize_search_text: folded, with single spaces inside and none around
Normalized(text) ==
    LET folded == FoldLeft(Spaced, <<>>, FlattenSeq([i \in DOMAIN text |-> Fold[text[i]]]))
    IN  IF folded # <<>> /\ Last(folded) = " " THEN Front(folded) ELSE folded

IsDesignation(text) == ToSet(text) \cap Latin # {} /\ ToSet(text) \cap Separators # {}
Joined(text) == SelectSeq(text, LAMBDA a : a \notin Separators)
\* A short Latin designation is found with its separators and without.
IsCompacted(folded) == Len(folded) <= CompactLength /\ IsDesignation(folded)
Variants(text, compact) ==
    LET folded == Normalized(text)
    IN  ({folded} \cup IF compact /\ IsCompacted(folded) THEN {Joined(folded)} ELSE {}) \ {<<>>}

TermsOf(texts, compact) == UNION {Variants(t, compact) : t \in texts}
Fields(e) ==
    [id |-> Variants(Spelled[e], TRUE), name |-> TermsOf(Named[e], TRUE),
     alias |-> TermsOf(Aliased[e], TRUE), description |-> TermsOf(Described[e], FALSE)]

\* Entities have a name and a Revision, and are put in some order; the IDs that
\* the project gives (SDA-ORG-RSAF) are told apart without their case and their
\* hyphens, and no name is made of marks alone.
ASSUME SearchAssumption ==
    /\ IsFiniteSet(DOMAIN Entity) /\ DOMAIN Entity \subseteq Revised
    /\ HitLimit \in Nat \ {0}
    /\ \A e \in DOMAIN Entity :
        /\ Alphabet[e] \in Int /\ Normalized(Spelled[e]) # <<>>
        /\ Named[e] # {} /\ \A t \in Named[e] : Normalized(t) # <<>>
    /\ \A e, x \in DOMAIN Entity : Normalized(Spelled[e]) \in Variants(Spelled[x], TRUE) => e = x

-----------------------------------------------------------------------------
\* The facets whose values are Entities, and the types of those
FacetTypes ==
    [manufacturers |-> {"organization"}, services |-> {"organization", "military_unit"}]

\* Only active Entities with a Revision are indexed.
IsIndexed(e, b) ==
    e \in b.entities /\ Entity[e].status = "active" /\ Named[e] # {} /\ e \in Revised
\* The facets of a document, of which the Entity type is one
DocumentFacets(e) ==
    [f \in DOMAIN Facets[e] \cup {"entity_types"} |->
        IF f = "entity_types" THEN {Entity[e].etype} ELSE Facets[e][f]]
SearchDocument(e) ==
    [id |-> e, etype |-> Entity[e].etype, fields |-> Fields(e),
     terms |-> UNION {Fields(e)[f] : f \in DOMAIN Fields(e)}, facets |-> DocumentFacets(e)]
Index(b) == {SearchDocument(e) : e \in {x \in b.entities : IsIndexed(x, b)}}

\* The engine takes terms only as the projection derives them.
IsDerived(d) == d.fields = Fields(d.id) /\ d.terms = UNION {d.fields[f] : f \in DOMAIN d.fields}

\* A query has a filter for every facet, which may ask for nothing.
NoFilters == [f \in {"entity_types"} \cup DOMAIN FacetTypes |-> {}]

\* Of each facet: none asked for, or one of the values asked for.
FiltersMatch(d, filters) ==
    \A f \in DOMAIN filters : filters[f] = {} \/ filters[f] \cap d.facets[f] # {}

\* The runs between separators
TokensOf(t) ==
    {SubSeq(t, run[1], run[2]) : run \in
        {x \in (DOMAIN t) \X (DOMAIN t) :
            /\ x[1] <= x[2] /\ \A k \in x[1]..x[2] : t[k] \notin Separators
            /\ x[1] = 1 \/ t[x[1] - 1] \in Separators
            /\ x[2] = Len(t) \/ t[x[2] + 1] \in Separators}}
Tokens(terms) == UNION {TokensOf(t) : t \in terms}

\* The best of the qualities a match has: 0 for the ID, 4 for its tokens only.
Unmatched == 5
Qualities(d, query) ==
    {q \in 0..4 :
        \/ q = 0 /\ query \in d.fields.id
        \/ q = 1 /\ query \in d.fields.name
        \/ q = 2 /\ query \in d.fields.alias
        \/ q = 3 /\ \E t \in d.fields.name \cup d.fields.alias : IsPrefix(query, t)
        \/ q = 4 /\ TokensOf(query) # {} /\ TokensOf(query) \subseteq Tokens(d.terms)}
Quality(d, query) ==
    LET found == Qualities(d, query)
    IN  CHOOSE q \in found \cup {Unmatched} : \A r \in found : q <= r

\* Hits are ranked by quality, then by name and ID.
Better(x, y, quality) ==
    \/ quality[x] < quality[y]
    \/ quality[x] = quality[y] /\ Alphabet[x.id] < Alphabet[y.id]

\* The first hits, limit of them.
Hits(docs, text, filters, limit) ==
    LET query == Normalized(text)
        quality == [d \in {x \in docs : FiltersMatch(x, filters)} |-> Quality(d, query)]
        found == {d \in DOMAIN quality : quality[d] # Unmatched}
    IN  {d \in found : Cardinality({x \in found : Better(x, d, quality)}) < limit}
IsAskable(text) == Len(text) <= QueryLength
SearchRuns(docs, text, limit) ==
    /\ IsAskable(text) /\ limit \in 1..HitLimit
    /\ Normalized(text) # <<>> /\ \A d \in docs : IsDerived(d)
\* The documents with that ID or that name
Homonyms(docs, text) == {d \in docs : Normalized(text) \in d.fields.id \cup d.fields.name}

-----------------------------------------------------------------------------
(* The filters: a facet that names an Entity names an indexed one.         *)

Options(docs, facet) == UNION {d.facets[facet] : d \in docs}
FiltersBuild(docs) ==
    \A f \in DOMAIN FacetTypes : \A e \in Options(docs, f) :
        \E d \in docs : d.id = e /\ d.etype \in FacetTypes[f]
Count(docs, facet, e) == Cardinality({d \in docs : e \in d.facets[facet]})

NavigationBuilds(docs, graphs) == FiltersBuild(docs) /\ TimelineBuilds(graphs)
=============================================================================
