CONSTANTS
    Bases <- MCBases
    Prologues <- MCPrologues
    RegionSize = 8
    SizeofChunk = 2
    ChunksPerRegion = 3
    CallbackJumpOffset = 1
    SizeofRelativeJump = 1
    RangeofRelativeJump = 14
    NoChunk = NoChunk
    NoPrologue = NoPrologue
    Faults = {"init", "unprotect", "protect", "query", "alloc", "insert", "remove", "free"}
SPECIFICATION TrampolineSpec
INVARIANTS TrampolineTypeOK LiveChunksIntact UnusedCountsLive LiveChunksReach RegionsInUse
PROPERTIES NoDoubleHandOut ImplementsChunkPool
CHECK_DEADLOCK FALSE
