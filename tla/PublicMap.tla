------------------------------ MODULE PublicMap ------------------------------
(***************************************************************************)
(* The public map of fixed facilities and the payload its renderer draws.  *)
(* A facility is shown with exactly one eligible latitude and longitude;   *)
(* anything contested or half known makes the builder refuse the whole     *)
(* map.  Angles are in thousandths of a degree.                            *)
(***************************************************************************)
EXTENDS Views, Integers

CONSTANTS
    Angle,     \* the number that a coordinate Claim records
    Language   \* the language of a Claim's text

Coordinates == {"latitude", "longitude"}
FacilityPredicates == Coordinates \cup {"location_label", "associated_with"}
PublicCategories == {"air_base", "training_center"}

\* _coarsen: half up, to a hundredth of a degree
Coarsened(a) == IF a >= 0 THEN ((a + 5) \div 10) * 10 ELSE -(((-a + 5) \div 10) * 10)
Extent(predicate) == IF predicate = "latitude" THEN 90000 ELSE 180000

-----------------------------------------------------------------------------
ClaimsOf(facility, predicate, b) ==
    {c \in b.claims : Claim[c].subject = facility /\ Claim[c].predicate = predicate}
Disputed(facility, predicate, b) ==
    {c \in ClaimsOf(facility, predicate, b) : Claim[c].state = "disputed"}
Eligible(facility, predicate, b) ==
    {c \in ClaimsOf(facility, predicate, b) :
        Claim[c].state = "active" /\ Claim[c].confidence \in {"verified", "high"}}

Candidates(b) ==
    {f \in b.entities : Entity[f].etype = "facility" /\ Entity[f].status = "active"
                        /\ Entity[f].subtype \in PublicCategories}
Placed(b) ==
    {f \in Candidates(b) : \E p \in Coordinates : Eligible(f, p, b) # {}}

\* Mutant: a disputed coordinate is left out, as a disputed label is.
CoordinateIsSingle(facility, predicate, b) == Cardinality(Eligible(facility, predicate, b)) <= 1

CoordinateIsSettled(facility, predicate, b) ==
    Disputed(facility, predicate, b) = {} /\ Cardinality(Eligible(facility, predicate, b)) <= 1

Located(facility, b) ==
    \A p \in Coordinates :
        /\ Eligible(facility, p, b) # {}
        /\ \A c \in Eligible(facility, p, b) :
            Claim[c].kind = "number" /\ Angle[c] \in -Extent(p)..Extent(p)

\* A label is a text in a public language, and labels of one language agree.
LabelsAgree(facility, b) ==
    LET labels == Eligible(facility, "location_label", b)
    IN  /\ \A x \in labels : Claim[x].kind = "string" /\ Language[x] \in {"ar", "en"}
        /\ \A x, y \in labels : Language[x] = Language[y] => Claim[x].value = Claim[y].value

AssociationsHold(facility, b) ==
    \A c \in Eligible(facility, "associated_with", b) :
        /\ Claim[c].kind = "entity" /\ ValueEntity(c) \in b.entities
        /\ Entity[ValueEntity(c)].etype = "organization"
        /\ Entity[ValueEntity(c)].status = "active"

Shown(facility, b) == UNION {Eligible(facility, p, b) : p \in FacilityPredicates}

MapBuilds(b) ==
    /\ \A c \in b.claims : Claim[c].predicate \in FacilityPredicates =>
        Claim[c].subject \in b.entities /\ Entity[Claim[c].subject].etype = "facility"
    /\ \A f \in Candidates(b), p \in Coordinates : CoordinateIsSettled(f, p, b)
    /\ \A f \in Placed(b) :
        /\ Located(f, b) /\ LabelsAgree(f, b) /\ AssociationsHold(f, b)
        /\ \A c \in Shown(f, b) : Cited(Claim[c].links, b)

Feature(facility, b) ==
    [entity |-> facility, category |-> Entity[facility].subtype,
     coordinates |-> UNION {Eligible(facility, p, b) : p \in Coordinates},
     position |-> [p \in Coordinates |-> {Coarsened(Angle[c]) : c \in Eligible(facility, p, b)}],
     organizations |-> {ValueEntity(c) : c \in Eligible(facility, "associated_with", b)},
     links |-> UNION {Claim[c].links : c \in Shown(facility, b)}]
PublicMapView(b) == {Feature(f, b) : f \in Placed(b)}

-----------------------------------------------------------------------------
(* The renderer's payload trusts nothing of the view it is given.          *)

PayloadBuilds(features) ==
    /\ \A x, y \in features : x.entity = y.entity => x = y
    /\ \A x \in features :
        /\ x.category \in PublicCategories
        /\ Cardinality(x.coordinates) = 2
        /\ \A p \in Coordinates : \A a \in x.position[p] :
            a \in -Extent(p)..Extent(p) /\ a % 10 = 0
        /\ IsSupported(x.links)

\* The renderer draws a feature with the Evidence that supports it.
Payload(features) ==
    {[entity |-> x.entity, position |-> x.position, organizations |-> x.organizations,
      evidence |-> {l.evidence : l \in {m \in x.links : m.role = "supports"}}] : x \in features}
=============================================================================
