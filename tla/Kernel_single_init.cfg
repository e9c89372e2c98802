SPECIFICATION Spec
CONSTANTS
    MaxThreads = 5
    BootstrapTargetTicks = 3
    MaxInitRestarts = 2
INVARIANT
    SingleInit
