CONSTANTS
    Bases <- MCOneBase
    Prologues <- MCPrologues
    RegionSize = 8
    SizeofChunk = 2
    ChunksPerRegion = 3
    CallbackJumpOffset = 1
    SizeofRelativeJump = 1
    RangeofRelativeJump = 20
    NoChunk = NoChunk
    NoPrologue = NoPrologue
    Faults = {}
    Threads = {t1, t2, t3}
    NoThread = NoThread
    Clients <- MCOneClient
    Target <- MCOneTarget
    AtomicClaim = TRUE
    Fails = {"vectors", "push", "suspend", "write"}
    Contract = {"valid_pointer", "discard", "settled", "newest_first", "commit_removals"}
    MaxOperations = 1
    MaxSuspend = 1
SPECIFICATION Spec
INVARIANTS TypeOK Exclusive SuspensionsAccounted
PROPERTY TransactionEnds
CHECK_DEADLOCK FALSE
