---------------------------- MODULE MCSuggestions ----------------------------
(***************************************************************************)
(* An instance of Suggestions for TLC: a real parcel, a synthetic one with *)
(* a building and a floor, and one source of either designation.           *)
(***************************************************************************)
EXTENDS Suggestions, TLC

CONSTANTS p, q, c, f, d1, d2, j1, j2

Of(id, kind, parent, synthetic, number) ==
    [id |-> id, kind |-> kind, parent |-> parent, synthetic |-> synthetic,
     number |-> number]

GivenObjects == {Of(p, "PARCEL", NoObject, FALSE, 0), Of(q, "PARCEL", NoObject, TRUE, 0),
                 Of(c, "BUILDING", q, TRUE, 0), Of(f, "FLOOR", c, TRUE, 0)}

Asked(kind, object, dataset, second) ==
    [kind |-> kind, object |-> object, dataset |-> dataset, second |-> second]

\* A request of every kind, and a height from sources of both designations.
AskedFor == {Asked("SUGGEST_BUILDINGS", p, d1, NoDataset),
             Asked("SUGGEST_UNITS", f, d2, NoDataset),
             Asked("SUGGEST_LEVELS", c, d2, NoDataset),
             Asked("ESTIMATE_HEIGHT", c, d2, d2),
             Asked("ESTIMATE_HEIGHT", c, d2, d1)}

JobSymmetry == Permutations({j1, j2})
=============================================================================
