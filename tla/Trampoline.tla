----------------------------- MODULE Trampoline -----------------------------
(***************************************************************************)
(* src/src/Trampoline.c: the allocator of trampoline chunks.  Memory is    *)
(* taken from the system in regions of RegionSize bytes.  A region is an   *)
(* array of chunks, the first of which is the header, and is known by its  *)
(* base address; the i-th chunk of the region b is the pair <<b, i>>.      *)
(*                                                                         *)
(* The module gives every outcome of the three functions of the allocator  *)
(* an operator of its own (CreateReturns, CreateFails, ...), so that the   *)
(* module Transaction can call them, and a specification of the allocator  *)
(* alone, under a caller that frees what it got from Create.               *)
(***************************************************************************)
EXTENDS Integers, FiniteSets

CONSTANTS
    Bases,                  \* aligned addresses where a region can be allocated
    Prologues,              \* what Create is called for, see Prologue below
    RegionSize,             \* size of a region, the allocation granularity
    SizeofChunk,            \* sizeof(ZyrexTrampolineChunk)
    ChunksPerRegion,        \* g_trampoline_data.chunks_per_region
    CallbackJumpOffset,     \* offset of callback_jump in a chunk
    SizeofRelativeJump,     \* ZYREX_SIZEOF_RELATIVE_JUMP
    RangeofRelativeJump,    \* ZYREX_RANGEOF_RELATIVE_JUMP
    NoChunk,                \* the bytes of a function that is not hooked
    NoPrologue,             \* content of a chunk in zeroed memory
    Faults                  \* which library calls may fail, see FaultKinds

Chunks == Bases \X (1 .. ChunksPerRegion - 1)

(* How far Create gets with the instructions at an address: no five bytes  *)
(* can be read, the decoder fails, the relocation fails (for one thing on  *)
(* a relative call), or they can be moved.                                 *)
Kinds == {"unreadable", "undecodable", "unrelocatable", "plain"}

(* The instructions Create is called for: the bytes at the address (those  *)
(* of the unhooked function, or the jump to the chunk that hooks it), and  *)
(* the lowest and the highest address among the function and the targets   *)
(* of its relative instructions.                                           *)
Prologue == [kind : Kinds, address : Nat, lo : Nat, hi : Nat, code : Chunks \cup {NoChunk}]

FaultKinds == {"init", "unprotect", "protect", "query", "alloc", "insert", "remove", "free"}

ASSUME TrampolineAssumption ==
    /\ SizeofChunk \in Nat \ {0}
    /\ ChunksPerRegion \in Nat /\ ChunksPerRegion >= 2
    /\ RegionSize \in Nat /\ RegionSize >= SizeofChunk * ChunksPerRegion
    /\ Bases \subseteq {b \in Nat : b % RegionSize = 0}
    /\ CallbackJumpOffset \in 0 .. SizeofChunk
    /\ SizeofRelativeJump \in 0 .. CallbackJumpOffset
    /\ RangeofRelativeJump \in Nat
    /\ \A p \in Prologues : p \in Prologue /\ p.lo <= p.address /\ p.address <= p.hi
    /\ NoChunk \notin Chunks
    /\ Faults \subseteq FaultKinds

VARIABLES
    is_initialized,     \* g_trampoline_data.is_initialized
    regions,            \* g_trampoline_data.regions, a vector sorted by address
    mapped,             \* the regions that are allocated memory, listed or not
    unused,             \* header.number_of_unused_chunks of each region
    chunk,              \* content of each chunk; unmapped memory counts as zeroed
    live,               \* the chunks that Create returned and Free did not take back
    fault               \* "none", or how the program came to a halt

tvars == <<is_initialized, regions, mapped, unused, chunk, live, fault>>

Content == [is_used : BOOLEAN, source : Prologue \cup {NoPrologue}]

TrampolineTypeOK ==
    /\ is_initialized \in BOOLEAN
    /\ regions \subseteq mapped
    /\ mapped \subseteq Bases
    /\ unused \in [Bases -> Nat]
    /\ chunk \in [Chunks -> Content]
    /\ live \subseteq Chunks

Zeroed == [is_used |-> FALSE, source |-> NoPrologue]

TrampolineInit ==
    /\ is_initialized = FALSE
    /\ regions = {}
    /\ mapped = {}
    /\ unused = [b \in Bases |-> 0]
    /\ chunk = [c \in Chunks |-> Zeroed]
    /\ live = {}
    /\ fault = "none"

-----------------------------------------------------------------------------
(* Addresses *)

Address(c) == c[1] + c[2] * SizeofChunk

Abs(n) == IF n < 0 THEN -n ELSE n

(* ZyrexTrampolineRegionInRange compares with `<' before it subtracts: the *)
(* condition is "base - lo + lo < base", never true, so that the distance  *)
(* is the span of the chunks of a region, wherever the region is.          *)
RegionInRange == SizeofChunk * (ChunksPerRegion - 1) <= RangeofRelativeJump

(* The size of the chunk is forgotten. *)
InReachOfStart(c, a) == Abs(Address(c) - a) <= RangeofRelativeJump

(* The distance test of ZyrexTrampolineRegionFindChunkInRegion, with the   *)
(* size of the chunk added for a chunk behind the address.                 *)
InReach(c, a) ==
    Abs(Address(c) - a + (IF a < Address(c) THEN SizeofChunk ELSE 0)) <= RangeofRelativeJump

(* The flag of the chunk is not looked at. *)
FitsUsed(c, p) == unused[c[1]] # 0 /\ RegionInRange /\ InReach(c, p.lo) /\ InReach(c, p.hi)

(* The upper bound of the operands is not looked at. *)
FitsLow(c, p) == unused[c[1]] # 0 /\ RegionInRange /\ ~chunk[c].is_used /\ InReach(c, p.lo)

(* Does FindChunkInRegion accept the chunk? *)
Fits(c, p) ==
    /\ unused[c[1]] # 0
    /\ RegionInRange
    /\ ~chunk[c].is_used
    /\ InReach(c, p.lo) /\ InReach(c, p.hi)

Mid(p) == (p.lo + p.hi) \div 2

(* When FindChunk comes to the region: from the place of Mid in the sorted *)
(* vector it takes the region there and those below in turns with those    *)
(* above.                                                                  *)
Rank(r) == Cardinality({q \in regions : q < r})

FoundIndex(p) ==
    LET below == Cardinality({q \in regions : q < Mid(p)})
    IN  IF below = Cardinality(regions) THEN below - 1 ELSE below

VisitTime(r, p) ==
    IF Rank(r) <= FoundIndex(p) THEN 2 * (FoundIndex(p) - Rank(r))
                                ELSE 2 * (Rank(r) - FoundIndex(p)) - 1

(* ZyrexTrampolineRegionFindChunk returns the chunk c. *)
FindsChunk(p, c) ==
    /\ c[1] \in regions
    /\ Fits(c, p)
    /\ \A d \in Chunks : d[1] \in regions /\ Fits(d, p) =>
        \/ VisitTime(c[1], p) < VisitTime(d[1], p)
        \/ c[1] = d[1] /\ c[2] <= d[2]

FindsNothing(p) == \A d \in Chunks : d[1] \in regions => ~Fits(d, p)

(* When RegionAllocate tries the base: outwards from Mid, first below,     *)
(* then above, one region further in every round.                          *)
AllocTime(b, p) ==
    LET down == Mid(p) - (Mid(p) % RegionSize)
        up == IF Mid(p) % RegionSize = 0 THEN down ELSE down + RegionSize
    IN  IF b <= down THEN 2 * (down - b) ELSE 2 * (b - up) + RegionSize

(* ZyrexTrampolineRegionAllocate returns a new region at the base b; an    *)
(* allocation may fail at a base that was reported free.                   *)
Allocates(p, b) ==
    /\ b \in Bases \ mapped
    /\ "alloc" \notin Faults => \A a \in Bases \ mapped : AllocTime(b, p) <= AllocTime(a, p)

(* FindChunkInRegion accepts the chunk c of the new region b. *)
FitsNew(p, b, c) ==
    /\ c[1] = b
    /\ RegionInRange
    /\ InReach(c, p.lo) /\ InReach(c, p.hi)

-----------------------------------------------------------------------------
(* ZyrexTrampolineCreate *)

Readable(p) == p.kind # "unreadable"

(* The instructions can be decoded, and one chunk can reach all of them. *)
Bounded(p) == p.kind # "undecodable" /\ p.hi - p.lo <= RangeofRelativeJump

Used(p) == [is_used |-> TRUE, source |-> p]

(* Create returns a chunk of a region it already had. *)
CreateInListed(p, c) ==
    /\ FindsChunk(p, c)
    /\ chunk' = [chunk EXCEPT ![c] = Used(p)]
    /\ unused' = [unused EXCEPT ![c[1]] = @ - 1]
    /\ UNCHANGED <<regions, mapped>>

(* Create returns the first chunk in reach of a new region.  The region is *)
(* lost if the vector cannot grow: the status of the insertion is ignored. *)
CreateInNew(p, c) ==
    /\ FindsNothing(p)
    /\ Allocates(p, c[1])
    /\ FitsNew(p, c[1], c)
    /\ \A d \in Chunks : FitsNew(p, c[1], d) => c[2] <= d[2]
    /\ mapped' = mapped \cup {c[1]}
    /\ \/ regions' = regions \cup {c[1]}
       \/ "insert" \in Faults /\ regions' = regions
    /\ chunk' = [chunk EXCEPT ![c] = Used(p)]
    /\ unused' = [unused EXCEPT ![c[1]] = ChunksPerRegion - 2]

CreateReturns(p, c) ==
    /\ Readable(p) /\ Bounded(p) /\ p.kind = "plain"
    /\ CreateInListed(p, c) \/ CreateInNew(p, c)
    /\ is_initialized' = TRUE
    /\ live' = live \cup {c}
    /\ UNCHANGED fault

(* The relocation failed: a chunk of a listed region stays marked as used, *)
(* a new region is freed again.                                            *)
ChunkInitFails(p) ==
    /\ p.kind = "unrelocatable"
    /\ \/ \E c \in Chunks :
            /\ FindsChunk(p, c)
            /\ chunk' = [chunk EXCEPT ![c].is_used = TRUE]
            /\ UNCHANGED mapped
       \/ /\ FindsNothing(p)
          /\ \E c \in Chunks : Allocates(p, c[1]) /\ FitsNew(p, c[1], c)
          /\ UNCHANGED <<chunk, mapped>>
       \/ /\ "free" \in Faults /\ FindsNothing(p)
          /\ \E c \in Chunks :
                Allocates(p, c[1]) /\ FitsNew(p, c[1], c) /\ mapped' = mapped \cup {c[1]}
          /\ UNCHANGED chunk

(* Create returns an error. *)
CreateFails(p) ==
    /\ UNCHANGED <<regions, unused, live, fault>>
    /\ \/ /\ ~Readable(p) \/ ("init" \in Faults /\ ~is_initialized)
          /\ UNCHANGED <<is_initialized, mapped, chunk>>
       \/ /\ Readable(p)
          /\ \/ ~Bounded(p)
             \/ "unprotect" \in Faults /\ ~FindsNothing(p)
             \/ "query" \in Faults /\ FindsNothing(p)
          /\ is_initialized' = TRUE
          /\ UNCHANGED <<mapped, chunk>>
       \/ /\ Readable(p) /\ Bounded(p)
          /\ ChunkInitFails(p)
          /\ is_initialized' = TRUE

(* Create does not return: there is no memory to allocate and the search   *)
(* goes on forever, or no chunk of the region it found is in reach and the *)
(* assertion of Trampoline.c:836 fails.                                    *)
CreateFaults(p) ==
    /\ Readable(p) /\ Bounded(p) /\ FindsNothing(p)
    /\ \/ Bases = mapped /\ fault' = "endless_search"
       \/ /\ \E b \in Bases : Allocates(p, b) /\ \A c \in Chunks : ~FitsNew(p, b, c)
          /\ fault' = "no_chunk_in_new_region"
    /\ is_initialized' = TRUE
    /\ UNCHANGED <<regions, mapped, unused, chunk, live>>

-----------------------------------------------------------------------------
(* ZyrexTrampolineFree *)

(* One subtraction too many, and one too few. *)
LastChunkEarly(c) == unused[c[1]] = ChunksPerRegion - 3

LastChunkLate(c) == unused[c[1]] = ChunksPerRegion - 1

LastChunk(c) == unused[c[1]] = ChunksPerRegion - 2

(* The region is given back but stays in the vector. *)
FreeRegionListed(c) ==
    /\ mapped' = mapped \ {c[1]}
    /\ UNCHANGED <<is_initialized, regions, unused, chunk>>

(* The region of the chunk goes back to the system, the last one with the  *)
(* vector of regions.                                                      *)
FreeRegion(c) ==
    /\ regions' = regions \ {c[1]}
    /\ mapped' = mapped \ {c[1]}
    /\ chunk' = [d \in Chunks |-> IF d[1] = c[1] THEN Zeroed ELSE chunk[d]]
    /\ is_initialized' = (regions' # {})
    /\ UNCHANGED unused

(* The chunk is marked as unused but not counted. *)
FreeChunkUncounted(c) ==
    /\ chunk' = [chunk EXCEPT ![c].is_used = FALSE]
    /\ UNCHANGED <<is_initialized, regions, mapped, unused>>

(* The chunk goes back to its region. *)
FreeChunk(c) ==
    /\ unused' = [unused EXCEPT ![c[1]] = @ + 1]
    /\ chunk' = [chunk EXCEPT ![c].is_used = FALSE]
    /\ UNCHANGED <<is_initialized, regions, mapped>>

(* The region is no longer listed, but could not be given back. *)
LoseRegion(c) ==
    /\ regions' = regions \ {c[1]}
    /\ UNCHANGED <<is_initialized, mapped, chunk, unused>>

FreeReturns(c) ==
    /\ is_initialized /\ c[1] \in regions
    /\ IF LastChunk(c) THEN FreeRegion(c) ELSE FreeChunk(c)
    /\ live' = live \ {c}
    /\ UNCHANGED fault

(* Free returns an error, before or after it took the chunk. *)
FreeFails(c) ==
    /\ \/ /\ \/ ~is_initialized
             \/ c[1] \notin regions
             \/ "remove" \in Faults /\ LastChunk(c)
             \/ "unprotect" \in Faults /\ ~LastChunk(c)
          /\ UNCHANGED <<is_initialized, regions, mapped, unused, chunk, live>>
       \/ /\ is_initialized /\ c[1] \in regions
          /\ \/ "protect" \in Faults /\ ~LastChunk(c) /\ FreeChunk(c)
             \/ {"remove", "free"} \cap Faults # {} /\ LastChunk(c) /\ LoseRegion(c)
          /\ live' = live \ {c}
    /\ UNCHANGED fault

(* ZyrexTrampolineFind, called with the address of the code buffer of c:   *)
(* it returns TRUE if it finds the chunk, FALSE if not, or an error.       *)
Find(c) ==
    IF ~is_initialized THEN "error"
    ELSE IF c[1] \in regions /\ chunk[c].is_used THEN "true" ELSE "false"

-----------------------------------------------------------------------------
Create(p) == CreateFails(p) \/ CreateFaults(p) \/ \E c \in Chunks : CreateReturns(p, c)

Free(c) == FreeReturns(c) \/ FreeFails(c)

TrampolineNext ==
    /\ fault = "none"
    /\ \/ \E p \in Prologues : Create(p)
       \/ \E c \in live : Free(c)

TrampolineSpec == TrampolineInit /\ [][TrampolineNext]_tvars

-----------------------------------------------------------------------------
(* Is an instruction that ends at the address `next' able to refer to the  *)
(* address `to' with a signed relative offset?                             *)
Encodable(next, to) ==
    -RangeofRelativeJump - 1 <= to - next /\ to - next <= RangeofRelativeJump

(* The function's hook jump reaches the callback jump of the chunk, and an *)
(* instruction that ends anywhere in the chunk reaches every address that  *)
(* the instructions at the function referred to.                           *)
Reaches(c, p) ==
    /\ Encodable(p.address + SizeofRelativeJump, Address(c) + CallbackJumpOffset)
    /\ \A n \in 1 .. SizeofChunk, a \in p.lo .. p.hi : Encodable(Address(c) + n, a)

LiveIn(r) == {c \in live : c[1] = r}

(* A chunk that has an owner lies in allocated memory, is marked as used,  *)
(* and was made from a prologue (Trampoline.c:897-908: a region goes back  *)
(* to the system on a count alone).                                        *)
LiveChunksIntact ==
    \A c \in live : c[1] \in mapped /\ chunk[c].is_used /\ chunk[c].source \in Prologue

(* The count that decides when a region is freed (Trampoline.c:897) and    *)
(* whether it is searched (Trampoline.c:323) is the number of chunks of    *)
(* the region without an owner, through failing relocations, failing       *)
(* memory protection and the reuse of chunks.                              *)
UnusedCountsLive ==
    \A r \in regions : unused[r] + Cardinality(LiveIn(r)) = ChunksPerRegion - 1

(* Create never returns a chunk that still has an owner. *)
NoDoubleHandOut ==
    [][\A p \in Prologues, c \in live : ~CreateReturns(p, c)]_tvars

(* No jump is truncated: every chunk with an owner is in reach of its      *)
(* function and of all that the function's instructions refer to           *)
(* (Utils.h:97-98: nothing checks the range when a jump is written).       *)
LiveChunksReach == \A c \in live : Reaches(c, chunk[c].source)

(* The allocator keeps no region without a chunk in use: each listed       *)
(* region has a chunk with an owner, and the list is empty only between    *)
(* the initialization and the first region, unless a deletion failed.      *)
RegionsInUse ==
    /\ \A r \in regions : LiveIn(r) # {}
    /\ regions # {} => is_initialized

(* The allocator implements the pool of chunks: one owner at a time, in    *)
(* reach, content untouched until the release.                             *)
Owned == [c \in live |-> chunk[c].source]

Pool == INSTANCE ChunkPool WITH owned <- Owned

ImplementsChunkPool == Pool!PoolSpec

(* The assertion of Trampoline.c:836: a new region has a chunk in reach. *)
NewRegionHasChunk == fault # "no_chunk_in_new_region"
=============================================================================
