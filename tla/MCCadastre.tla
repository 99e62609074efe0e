----------------------------- MODULE MCCadastre -----------------------------
(***************************************************************************)
(* Instances of Cadastre for TLC.                                          *)
(*                                                                         *)
(* Neighbours: two parcels side by side, each with one infrastructure      *)
(* space that may cross the boundary.                                      *)
(* Floor: one parcel with a building and a floor, and three unit ids that  *)
(* may be drawn, split from one another, or merged.                        *)
(***************************************************************************)
EXTENDS Cadastre, TLC

CONSTANTS p1, p2, n1, n2,       \* parcels and their infrastructure
          b1, f1, u1, u2, u3,   \* building, floor, units
          j1, j2, r1, r2,       \* jobs and reviews
          adm, off              \* an administrator, an officer

Prism(foot, levels, datum) == [foot |-> foot, levels |-> levels, datum |-> datum]

----------------------------------------------------------------------------
NeighbourObjects == {p1, p2, n1, n2}
NeighbourKind == (p1 :> "PARCEL" @@ p2 :> "PARCEL" @@
                  n1 :> "INFRASTRUCTURE" @@ n2 :> "INFRASTRUCTURE")
NeighbourParent == (p1 :> NoObject @@ p2 :> NoObject @@ n1 :> p1 @@ n2 :> p2)
NeighbourRoot == (p1 :> p1 @@ p2 :> p2 @@ n1 :> p1 @@ n2 :> p2)
NeighbourSurvey == (p1 :> Prism({1}, {}, "msl") @@ p2 :> Prism({2}, {}, "msl"))
NeighbourVolumes == {Prism({1}, {}, "msl"), Prism({2}, {}, "msl"),
                     Prism({1, 2}, {1}, "msl")}
NeighbourEdited == {n1, n2}

----------------------------------------------------------------------------
FloorObjects == {p1, b1, f1, u1, u2, u3}
FloorKind == (p1 :> "PARCEL" @@ b1 :> "BUILDING" @@ f1 :> "FLOOR" @@
              u1 :> "UNIT" @@ u2 :> "UNIT" @@ u3 :> "UNIT")
FloorParent == (p1 :> NoObject @@ b1 :> p1 @@ f1 :> b1 @@
                u1 :> f1 @@ u2 :> f1 @@ u3 :> f1)
FloorRoot == [o \in FloorObjects |-> p1]
FloorSurvey == (p1 :> Prism({1, 2}, {}, "msl") @@
                b1 :> Prism({1, 2}, {1}, "msl") @@
                f1 :> Prism({1, 2}, {1}, "msl") @@
                u1 :> Prism({1, 2}, {1}, "msl"))
FloorVolumes == {Prism({1, 2}, {}, "msl"), Prism({1, 2}, {1}, "msl"),
                 Prism({1}, {1}, "msl"), Prism({2}, {1}, "msl")}

----------------------------------------------------------------------------
\* The units that are not surveyed are interchangeable.
UnitSymmetry == Permutations({u2, u3})
JobSymmetry == Permutations({j1, j2}) \cup Permutations({r1, r2})
=============================================================================
