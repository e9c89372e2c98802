SPECIFICATION Spec
CONSTANTS
    Ids = {4096, 4097, 4098, 4099}
    Pages <- MCPages
    Miss <- MCMiss
    Capacity = 3
    SmokePages <- MCSmokePages
    Encode <- MCEncode
    Decode <- MCDecode
    Class <- MCClass
    Size <- MCSize
INVARIANT GaugesAgree
PROPERTY StoreIsCache
CHECK_DEADLOCK FALSE
