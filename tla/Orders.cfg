SPECIFICATION Spec
CONSTANTS
    j1 = j1
    j2 = j2
    Job = {j1, j2}
    Point = {1, 2, 3, 4}
    Cell = {"west", "east"}
    Area <- Paved
    Zone <- OneZone
    Record = {1, 2}
    Format = {"f1", "f2"}
    External <- Images
    Depths = {1, 2}
INVARIANTS TypeOK DeletedIsCopied OrdersHoldTheirSources
PROPERTIES NothingUnread
CHECK_DEADLOCK FALSE
