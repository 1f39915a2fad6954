------------------------ MODULE MCConsolidationFleet ------------------------
(* The fleet of consolidation workers, checked on small instances.           *)
EXTENDS ConsolidationFleet

=============================================================================
