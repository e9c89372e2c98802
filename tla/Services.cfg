SPECIFICATION Spec
CONSTANTS
    ConsoleCount = 2
    DefaultColumns = 2
    DefaultRows = 2
    MaxColumns = 3
    MaxRows = 2
    TargetWidth = 7
    TargetHeight = 5
    CharWidth = 2
    CharHeight = 2
    MinChars = 1
    Widths = {0, 1, 3, 5, 9}
    Heights = {0, 2, 7}
    Glyphs = {g}
    Blank = blank
    Spaces = {s1, s2}
    NumFrames = 6
    Levels = 2
    FanOut = 4
    UserPages = 4
    KernelPages = 1
    BrkBase = 1
    MmapBase = 2
    NativeBase = 2
    AreaPages = 2
    PageCounts = {1}
    PageBytes = 2
    MaxVmmSlots = 1
    RegionsPerProcess = 1
    ProcSlots = 4
    LclSlots = 3
    MaxPid = 5
    MaxCalls = 3
    Statuses = {7}
    Listings <- MCListings
    ContentCap = 15
    Counts = {0, 3, 24, 32, 56, 100}
    TreeNodes = 2
    RouteSizes = {4, 9}
    MaxSyncs = 3
    MaxNesting = 2
INVARIANTS ScreenShowsActive      ListingComplete NeverSpins 
CHECK_DEADLOCK FALSE
SYMMETRY SpaceSymmetry
