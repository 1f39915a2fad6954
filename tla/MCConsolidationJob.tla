------------------------- MODULE MCConsolidationJob -------------------------
(* Instances of ConsolidationJob for TLC. *)
EXTENDS ConsolidationJob, TLC

CONSTANTS t1, t2, s1, s2

OneTask == [t \in {t1} |-> {s1}]

(* s2 is merged by both tasks: it lies on two cells of the layout. *)
TwoTasks == (t1 :> {s1, s2}) @@ (t2 :> {s2})

HandlerSymmetry == Permutations(Handler)
=============================================================================
