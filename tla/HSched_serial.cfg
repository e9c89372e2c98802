\* Submits that do not overlap: one producer, more submits than the ring holds.
SPECIFICATION Spec
CONSTANTS
    Producers = {p1}
    Consumers = {c1, c2}
    Size = 2
    MaxSubmits = 7
INVARIANT
    PollIsSound
