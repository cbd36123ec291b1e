CONSTANTS
    Bases <- MCBases
    Prologues <- MCPrologues
    RegionSize = 8
    SizeofChunk = 2
    ChunksPerRegion = 3
    CallbackJumpOffset = 1
    SizeofRelativeJump = 1
    RangeofRelativeJump = 20
    NoChunk = NoChunk
    NoPrologue = NoPrologue
    Faults = {}
    Threads = {t1, t2}
    NoThread = NoThread
    Clients <- MCClients
    Target <- MCTarget
    AtomicClaim = TRUE
    Fails = {}
    Contract = {"valid_pointer", "discard", "settled", "newest_first", "commit_removals"}
    MaxOperations = 2
    MaxSuspend = 1
SPECIFICATION Spec
INVARIANT ResumedAfterTransaction
CHECK_DEADLOCK FALSE
