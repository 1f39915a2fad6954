--------------------------- MODULE CatalogueSwap ---------------------------
(* What a consolidation promises to the readers of the catalogue: the        *)
(* datasets it merges are replaced by its products all at once and for good, *)
(* or never; it succeeds only after the replacement, and once it has failed  *)
(* without it, nothing more happens.                                         *)
CONSTANTS Task, Source, Inputs

VARIABLES
    plan,      \* the products to be made
    collapse,  \* are they added to the catalogue, without replacing anything?
    sources,   \* the source datasets that can be read
    products,  \* the products that can be read
    outcome    \* "running", "done" or "failed"

swapVars == <<plan, collapse, sources, products, outcome>>

Init ==
    /\ plan \in SUBSET Task
    /\ collapse \in BOOLEAN
    /\ sources = Source
    /\ products = {}
    /\ outcome = "running"

(* The replacement.  A collapse adds its products to the catalogue. *)
Swap ==
    /\ outcome = "running"
    /\ products = {}
    /\ products' = plan
    /\ sources' = IF collapse THEN Source ELSE Source \ UNION {Inputs[t] : t \in plan}
    /\ UNCHANGED <<plan, collapse, outcome>>

Succeed ==
    /\ outcome = "running"
    /\ products = plan
    /\ outcome' = "done"
    /\ UNCHANGED <<plan, collapse, sources, products>>

Fail ==
    /\ outcome = "running"
    /\ products = {}
    /\ outcome' = "failed"
    /\ UNCHANGED <<plan, collapse, sources, products>>

Next == Swap \/ Succeed \/ Fail

Spec == Init /\ [][Next]_swapVars
=============================================================================
