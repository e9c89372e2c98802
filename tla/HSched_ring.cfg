SPECIFICATION Spec
CONSTANTS
    Producers = {p1, p2}
    Consumers = {c1, c2}
    Size = 2
    MaxSubmits = 5
PROPERTIES
    IsBoundedQueue
    RefusalsHonest
