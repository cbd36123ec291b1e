CONSTANTS
    Bases <- MCBases
    Prologues <- MCPrologues
    RegionSize = 8
    SizeofChunk = 2
    ChunksPerRegion = 3
    CallbackJumpOffset = 1
    SizeofRelativeJump = 1
    RangeofRelativeJump = 20
    NoChunk = NoChunk
    NoPrologue = NoPrologue
    Faults = {"unprotect", "protect"}
    Threads = {t1}
    NoThread = NoThread
    Clients <- MCClients
    Target <- MCTarget
    AtomicClaim = TRUE
    Fails = {"push", "write"}
    Contract = {"valid_pointer", "discard", "settled", "newest_first", "commit_removals"}
    MaxOperations = 2
    MaxSuspend = 0
SPECIFICATION Spec
INVARIANTS NoDanglingJump NoDanglingTrampoline PendingTrampolinesLive ClientPointersUsable MemorySafe UnusedCountsLive
CHECK_DEADLOCK FALSE
