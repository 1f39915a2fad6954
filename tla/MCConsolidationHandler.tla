----------------------- MODULE MCConsolidationHandler -----------------------
(* An order of four records, two of which use container b: one merges it,    *)
(* the other may keep it as it is.  Container a holds two datasets of the    *)
(* first record, container c is on a local disk.                             *)
EXTENDS ConsolidationHandler, TLC

FourRecords == << <<"a", "a", "b">>, <<"b">>, <<"a", "c">>, <<"d">> >>

Sizes == "a" :> 3 @@ "b" :> 6 @@ "c" :> 1 @@ "d" :> 2

=============================================================================
