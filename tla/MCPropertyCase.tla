--------------------------- MODULE MCPropertyCase ---------------------------
(***************************************************************************)
(* An instance of PropertyCase for TLC: the page of a unit is read while   *)
(* the unit and the floor around it are validated, reviewed and drawn      *)
(* again.                                                                  *)
(***************************************************************************)
EXTENDS PropertyCase, TLC

CONSTANTS p1, b1, f1, u1, j1, j2, r1, r2, adm, off

Prism(foot, levels, datum) == [foot |-> foot, levels |-> levels, datum |-> datum]

StoreyObjects == {p1, b1, f1, u1}
StoreyKind == (p1 :> "PARCEL" @@ b1 :> "BUILDING" @@ f1 :> "FLOOR" @@ u1 :> "UNIT")
StoreyParent == (p1 :> NoObject @@ b1 :> p1 @@ f1 :> b1 @@ u1 :> f1)
StoreyRoot == [o \in StoreyObjects |-> p1]
StoreySurvey == (p1 :> Prism({1, 2}, {}, "msl") @@
                 b1 :> Prism({1, 2}, {1}, "msl") @@
                 f1 :> Prism({1, 2}, {1}, "msl") @@
                 u1 :> Prism({1, 2}, {1}, "msl"))
StoreyVolumes == {Prism({1, 2}, {}, "msl"), Prism({1, 2}, {1}, "msl"),
                  Prism({1}, {1}, "msl"), Prism({2}, {1}, "msl")}

JobSymmetry == Permutations({j1, j2})
=============================================================================
