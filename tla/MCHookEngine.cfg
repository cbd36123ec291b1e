CONSTANTS
    Bases <- MCBases
    Prologues <- MCPrologues
    RegionSize = 8
    SizeofChunk = 2
    ChunksPerRegion = 3
    CallbackJumpOffset = 1
    SizeofRelativeJump = 1
    RangeofRelativeJump = 20
    NoChunk = NoChunk
    NoPrologue = NoPrologue
    Faults = {"init","query","alloc"}
    Threads = {t1, t2}
    NoThread = NoThread
    Clients <- MCClients
    Target <- MCTarget
    AtomicClaim = TRUE
    Fails = {"vectors"}
    Contract = {"valid_pointer", "discard", "settled", "newest_first", "commit_removals"}
    MaxOperations = 2
    MaxSuspend = 0
    Installers = {t1}
    Care = {"drained", "quiet", "returned"}
    MaxStack = 3
SPECIFICATION EngineSpec
INVARIANTS EngineTypeOK ExecutesLiveChunks PointerReachesOriginal RefusesRecursionOnly CallbacksLeaveNothing
CHECK_DEADLOCK FALSE
