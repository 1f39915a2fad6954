SPECIFICATION Spec
CONSTANTS
    j1 = j1
    j2 = j2
    Job = {j1}
    Point = {1, 2, 3, 4}
    Cell = {"west", "east"}
    Area <- Paved
    Zone <- OneZone
    Record = {1, 2}
    Format = {"f1"}
    External <- TwoRecords
    Depths = {2}
INVARIANTS IndexingSucceeds
CHECK_DEADLOCK FALSE
