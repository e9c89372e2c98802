SPECIFICATION Spec
CONSTANTS
    MemoryMaps <- MCMemoryMaps
    WordMax = 31
    PageSize = 4
    ReservedEnd = 8
    MaxRegions = 2
    HeapPages = 2
    Sizes = {1, 3}
    Aligns = {1, 4}
INVARIANTS GrantsDisjoint GrantsUsable FramesAccounted HeapSound
CHECK_DEADLOCK FALSE
