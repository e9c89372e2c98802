SPECIFICATION FairSpec
CONSTANTS
    MaxThreads = 7
    BootstrapTargetTicks = 3
    MaxInitRestarts = 4
PROPERTIES
    NoStarvation
    RestartServiced
