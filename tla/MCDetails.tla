----------------------------- MODULE MCDetails -----------------------------
(* Instances of Details for TLC: interchangeable pages and requests.       *)
EXTENDS Details, TLC

CONSTANTS a, b, q1, q2

PageSymmetry == Permutations({a, b}) \cup Permutations({q1, q2})
=============================================================================
