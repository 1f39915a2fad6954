---------------------------- MODULE MCCubeRequest ---------------------------
EXTENDS CubeRequest, TLC

CONSTANTS A, B

(* The two first slices share container A, the two last ones container B,    *)
(* which holds two datasets of the second slice.                             *)
Shared == << A :> 1 @@ B :> 0, A :> 1 @@ B :> 2, A :> 0 @@ B :> 1 >>

=============================================================================
