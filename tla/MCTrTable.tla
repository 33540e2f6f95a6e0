------------------------------ MODULE MCTrTable ------------------------------
(***************************************************************************)
(* TrTable for TLC.  With Growth = 2 the capacities are 0, 2, 6, 14, ...,  *)
(* so that four keys force three rehashes.  The hashes make keys collide   *)
(* and wrap: at capacity 6 the homes are 5, 5, 0, 3; at 14 they are        *)
(* 11, 13, 12, 13.                                                         *)
(***************************************************************************)
EXTENDS TrTable, TLC

CONSTANTS k1, k2, k3, k4

MCHash == (k1 :> 11) @@ (k2 :> 41) @@ (k3 :> 12) @@ (k4 :> 27)
=============================================================================
