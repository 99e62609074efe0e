----------------------------- MODULE MCMembers -----------------------------
(* Instances of Members for TLC: interchangeable users and requests.       *)
EXTENDS Members, TLC

CONSTANTS ana, bo, cy, q1, q2

MemberSymmetry == Permutations({ana, bo, cy}) \cup Permutations({q1, q2})
=============================================================================
