---------------------- MODULE MCConsolidationOrders ------------------------
EXTENDS ConsolidationOrders, TLC

CONSTANTS j1, j2

(* Two cells of the same reference system, that share no point. *)
Paved == "west" :> {1, 2} @@ "east" :> {3, 4}
OneZone == "west" :> "utm31" @@ "east" :> "utm31"

(* Two cells of two reference systems, at the limit of which they overlap.   *)
Overlapping == "west" :> {1, 2, 3} @@ "east" :> {2, 3, 4}
TwoZones == "west" :> "utm31" @@ "east" :> "utm32"

(* An image over the two cells, another of the same record, and one of the   *)
(* next record.                                                              *)
Images == {[rec |-> 1, shape |-> {2, 3}], [rec |-> 1, shape |-> {3}], [rec |-> 2, shape |-> {1, 2}]}

OneImage == {[rec |-> 1, shape |-> {1, 2, 3, 4}]}

TwoRecords == {[rec |-> 1, shape |-> {1}], [rec |-> 2, shape |-> {1}]}

=============================================================================
