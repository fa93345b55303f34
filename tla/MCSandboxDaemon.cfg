\* Batches of two records out of three events.
CONSTANTS
    Events <- GuestEvents
    MockEvents <- Generated
    MaxEvents = 3
    Batch = 2
SPECIFICATION FairSpec
INVARIANTS
    IInv
    BatchNotStranded
    FastPathMatchesPolicy
PROPERTIES
    StopSilencesReader
    ViolationStopsVM
    BatchKillEnds
\* A thread inside stop can wait for main while main waits for it.
CHECK_DEADLOCK FALSE
