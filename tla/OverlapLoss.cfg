SPECIFICATION Spec
CONSTANTS
    j1 = j1
    j2 = j2
    Job = {j1, j2}
    Point = {1, 2, 3, 4}
    Cell = {"west", "east"}
    Area <- Overlapping
    Zone <- TwoZones
    Record = {1}
    Format = {"f1"}
    External <- OneImage
    Depths = {1}
PROPERTIES NothingUnread
CHECK_DEADLOCK FALSE
