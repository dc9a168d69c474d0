CONSTANTS
    WriteSizes = {100}
    FrameOps = {2, 9}
    FrameSizes = {126}
    ReadSizes = {50}
    MaxFrames = 1
    MaxWrites = 1
SPECIFICATION SpecSocket
INVARIANTS
    PongEchoesPing
CHECK_DEADLOCK FALSE
