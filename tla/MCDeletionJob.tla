---------------------------- MODULE MCDeletionJob ----------------------------
(* Instances of DeletionJob for TLC. *)
EXTENDS DeletionJob, TLC

CONSTANTS d1, d2, d3, d4, d5, c1, c2, c3, c4

(* Two containers to delete, one that keeps a dataset, one not managed. *)
FourContainers == (d1 :> c1) @@ (d2 :> c2) @@ (d3 :> c3) @@ (d4 :> c3) @@ (d5 :> c4)

HandlerSymmetry == Permutations(Handler)
=============================================================================
