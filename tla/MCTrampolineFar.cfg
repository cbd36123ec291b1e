CONSTANTS
    Bases <- MCFarBases
    Prologues <- MCPrologues
    RegionSize = 8
    SizeofChunk = 2
    ChunksPerRegion = 3
    CallbackJumpOffset = 1
    SizeofRelativeJump = 1
    RangeofRelativeJump = 14
    NoChunk = NoChunk
    NoPrologue = NoPrologue
    Faults = {}
SPECIFICATION TrampolineSpec
INVARIANT NewRegionHasChunk
CHECK_DEADLOCK FALSE
