\* Three events on two processors, a ring of two records, and writes that block.
CONSTANTS
    Cpus = {1, 2}
    Programs <- TwoCpus
    RingSlots = 2
    Retries = 2
    Size = 2
    Window = 2
    MaxFaults = 1
    QueueSize = 2
    LogSize = 2
SPECIFICATION Spec
INVARIANTS
    StreamInOrder
    ProcessForest
PROPERTIES
    KilledIsFinal
    RecordsDelivered
    KillShown
