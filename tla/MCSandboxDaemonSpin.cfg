\* What stop says of its wait for the VM.
CONSTANTS
    Events <- GuestEvents
    MockEvents <- Generated
    MaxEvents = 3
    Batch = 2
SPECIFICATION FairSpec
PROPERTY SpinEnds
CHECK_DEADLOCK FALSE
