CONSTANTS
    small = small
    medium = medium
    large = large
    Data = {small, medium, large}
    SizeOf <- Sizes
    WordSize = 65536
    MaxKey = 1
    MaxRecords = 3
    Missing = Missing
    NoInfo = NoInfo
    NoWrite = NoWrite
SPECIFICATION Spec
INVARIANTS
    TypeOK
    IndexIsWhatTheFileSays
    SequenceNumbersDiffer
    AlwaysReadable
    LenWithinCapacity
PROPERTIES
    ImplementsKeyValueStore
    CompactedFileIsMinimal
    NewKeysAreUnused
