SPECIFICATION Spec
CONSTANTS
    Nil = Nil
    PageBytes = 14
    MaxRun = 4
    Bytes = {0, 255}
    Dictionary <- MCDictionary
    Patterns <- MCPatterns
    Checksum <- MCChecksum
    DevNodes = {"a"}
    ProcFiles = {"a"}
    AddressLimit = 64
    PageSize = 4
    UserSpaceBase = 4
    UserSpaceLimit = 48
    MaxProgramHeaders = 3
    HeaderSize = 4
    ProgramHeaderSize = 2
    StackPages = 5
    StackPageBytes = 32
    StackTop = 320
    AuxKeys <- MCAuxKeys
INVARIANTS RoundTrip ArchiveFaithful LookupStable ImageLoaded StackDelivered FirmwareUnderstood
CHECK_DEADLOCK FALSE
