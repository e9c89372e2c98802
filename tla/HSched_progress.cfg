SPECIFICATION UrgentSpec
CONSTANTS
    Producers = {p1, p2}
    Consumers = {c1}
    Size = 2
    MaxSubmits = 4
PROPERTY
    SubmitNeverBlocks
