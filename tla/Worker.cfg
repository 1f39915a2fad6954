SPECIFICATION FairSpec
CONSTANTS
    NbRecords = 4
    File = {"a", "b", "c", "d"}
    Datasets <- FourRecords
    Remote = {"a", "b", "d"}
    Usable = {"b", "c"}
    Size <- Sizes
    Loader = {"l1", "l2"}
    Worker = {"w1", "w2"}
    MaxMb = {0, 2, 4, 127}
    Mega = 4
    IntLimit = 128
    MaxFaults = 2
INVARIANTS TypeOK SourcesAreKept OutcomeIsJustified
PROPERTIES ConsolidateReturns
CHECK_DEADLOCK FALSE
