CONSTANTS
    TargetTicks = 3
    MaxTicks = 4
    SelfTests = {"breakpoint", "page_fault", "general_protection", "panic", "power_reset", "heterexec"}
    GbPolls = 3

SPECIFICATION MCSpec
INVARIANTS BootOrderSound InterruptsOnlyInWaits BootstrapProvesTimer HandoverSound
PROPERTY BootEnds
