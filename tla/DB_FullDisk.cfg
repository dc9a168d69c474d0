CONSTANTS
    small = small
    medium = medium
    large = large
    Data = {small}
    SizeOf <- Sizes
    WordSize = 65536
    MaxKey = 0
    MaxRecords = 1
    Missing = Missing
    NoInfo = NoInfo
    NoWrite = NoWrite
SPECIFICATION FullDiskSpec
PROPERTIES
    CompactionKeepsContents
