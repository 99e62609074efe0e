------------------------------ MODULE MCExports ------------------------------
(***************************************************************************)
(* An instance of Exports for TLC: a parcel p with building b, floor f and *)
(* unit u1, which may be split into u2 and u3; export jobs without a       *)
(* placement offset, or with the offsets 0, 10 and 0 again.                *)
(***************************************************************************)
EXTENDS Exports, TLC

CONSTANTS p, b, f, u1, u2, u3, j1, j2, j3

PlacementAlternates == (j1 :> 0 @@ j2 :> 10 @@ j3 :> 0)
PlacementLeftOut == (j1 :> NoOffset @@ j2 :> NoOffset)
=============================================================================
