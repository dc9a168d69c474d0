CONSTANTS
    WriteSizes = {1, 65535}
    FrameOps = {2}
    FrameSizes = {126}
    ReadSizes = {50}
    MaxFrames = 1
    MaxWrites = 2
SPECIFICATION SpecSocket
INVARIANTS
    FramesAnnounceTheirLength
CHECK_DEADLOCK FALSE
