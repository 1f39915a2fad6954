SPECIFICATION FairSpec
CONSTANTS
    Worker = {w1, w2}
    A = A
    B = B
    Uri = {A, B}
    NbSlices = 3
    Uses <- Shared
    ClientLeaves = TRUE
INVARIANTS InOrder CompleteOrError FileKeptWhileUsed SoundWhileLive
PROPERTIES EverythingReleased
CHECK_DEADLOCK FALSE
