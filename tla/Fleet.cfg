SPECIFICATION FairSpec
CONSTANTS
    Order = {"o1", "o2"}
    NbPods = 3
    Ratio = 1
    MinRatio = 1
    MinInstances = 0
    MaxInstances = 2
    MaxStep = 1
    Retries = 1
    MaxFaults = 3
INVARIANTS BoundedFleet OneHolder LongestWorkIsSpared
PROPERTIES OrdersAreKept WorkEnds
