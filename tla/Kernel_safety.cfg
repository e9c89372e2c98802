\* The code's own bounds: eight slots, three bootstrap ticks, four restarts.
SPECIFICATION Spec
CONSTANTS
    MaxThreads = 8
    BootstrapTargetTicks = 3
    MaxInitRestarts = 4
INVARIANTS
    RunQueueSound
    CpuRunsCurrent
    SuccessorExists
    TrackedInitIsLive
    RestartBudget
PROPERTY
    SlotNeverRecycled
