# A TLA+ model of the Zyrex hook engine

Zyrex (`src/`) hooks functions of the running process: it overwrites the first
bytes of a function with a jump to a *trampoline chunk*, which jumps on to the
user's callback and keeps the overwritten instructions, moved, so that the
original function can still be called. This directory holds a TLA+ model of the
engine, TLC configurations that check it on small instances, and proofs that
TLAPS checks for every value of the constants. Paths are relative to the root of
the repository; the model follows the Windows build unless it says otherwise.

## The system

| part | source | state | operations |
|---|---|---|---|
| hook barrier | `src/src/Barrier.c` | a TLS slot per thread with a sorted vector of (handle, recursion depth) | TryEnter(Ex), Leave, GetRecursionDepth, SystemInitialize, SystemShutdown, cleanup at thread exit |
| trampoline allocator | `src/src/Trampoline.c` | the sorted vector of regions; in every region a count of unused chunks and the chunks | Create, Free, Find |
| transactions | `src/src/Transaction.c` | owner thread, vector of pending operations, vector of thread handles | Begin, UpdateThread, UpdateAllThreads, Install, Remove, CommitEx, Abort |
| thread migration | `src/src/InlineHook.c` | the instruction pointer of a suspended thread | MigrateThread |
| code relocation | `src/src/Relocation.c` | the code buffer and the translation map of a chunk | RelocateCode |
| helpers | `src/include/Zyrex/Internal/Utils.h`, `src/src/Utils.c` | none | jumps, address arithmetic |
| library | `src/src/Zyrex.c` | none | Initialize (version tests), Shutdown |

*Interaction.* Install calls Create, which reads and relocates the function's
first instructions; Remove calls Find; a commit writes the jump to a chunk or
restores the bytes the chunk saved and then calls Free; Abort calls Free for all
pending operations. The three vectors are shared by all threads without a lock:
the transaction owner is the only protection. A callback runs on whatever thread
called the hooked function and talks to the barrier alone, with the address of
its trampoline as the handle.

*What is hard about it.* The allocator decides on a count and on flags, kept
apart, whether a chunk is in use and whether a region goes back to the system,
while functions jump into those chunks. Almost every step calls a system or
library function that can fail, half way through the bookkeeping. The effects of
a transaction happen at commit, on what was true at Install. Threads race for the
transaction, and suspend one another. What makes each part correct:

- barrier: the depth of a hook is the number of its callbacks in progress on the
  thread; the verdict on an entry depends on nothing else; who entered can leave;
- allocator: a chunk has one owner, stays mapped and untouched as long as it has
  one, and is in jump distance; regions are freed when and only when they are idle;
- relocation: the copy of the instructions does what the instructions did, fits
  the buffer, and is where the translation map says;
- migration: a thread is moved from an instruction to its copy or back, and is left
  nowhere where there is no instruction;
- the whole: no thread runs in a chunk that was freed, calling the original never
  calls the hook, and the barrier refuses recursion and nothing else;
- transactions: one owner at a time; no function, trampoline or client is left
  with a pointer to a chunk that was freed; threads are resumed as often as they
  were suspended; commit and abort end.

`PROJECT.json` lists the hazards of the code, each at its line, with the
properties that would catch it.

## The modules

- **`HookBarrier`** is the abstract barrier: per thread, the stack of callbacks in
  progress, and a verdict that is a function of that stack.
- **`Barrier`** is `Barrier.c`. `tls[t]` is the vector in the slot of a thread, or a
  null pointer. `TryEnterEx`, `Leave` and `GetRecursionDepth` are operators that
  give the outcomes (status and vector left behind) of one call, failing
  allocations, insertions and deletions among them. A call touches only the
  calling thread's data, so that it is one step. The callers behave like the
  callback of `src/examples/Barrier.c`: TryEnter on entry, Leave before the return
  if it passed. Beyond the example they may call Leave when no callback of the
  hook is open, threads end anywhere, and the system is shut down at any time.
- **`ChunkPool`** is the abstract allocator: a function from owned chunks to the
  prologue they were made from, with Acquire and Release.
- **`Trampoline`** is `Trampoline.c`. A region is its base address, a chunk is a pair
  of base and index. Every outcome of Create and Free is an operator
  (`CreateReturns`, `CreateFails`, `CreateFaults`, `FreeReturns`, `FreeFails`): the
  module `Transaction` calls these, and `TrampolineSpec` is the allocator alone,
  under a caller that frees only what it got. `live` is a history variable: the
  chunks handed out and not taken back. What Create is called for is a
  *prologue*: the function's address, the interval of addresses its first
  instructions refer to, and how far Create gets with them. The searches keep the
  order of the code (`VisitTime` for the walk through the vector from the middle,
  `AllocTime` for the outward search for free memory). `fault` records where the
  program does not return.
- **`Transaction`** is `Transaction.c`; it extends `Trampoline`. `code[a]` is what
  the first bytes of a function are: as compiled, or the jump to a chunk.
  `original[k]` is the pointer of a client. `suspend` counts the suspensions of a
  thread; `stranded` is a history variable with those whose handle is gone.
  Begin is split at the first look at the owner, the claim and the creation of
  the vectors; commit and abort are one step per operation and one for the end.
  Install and Remove are one step each, because nobody else may touch their data.
- **`Relocation`** is `Relocation.c` with ChunkInit of `Trampoline.c` around it, for
  one chunk that is used for one function after the other. An instruction is a
  form (plain, call, memory operand, and five kinds of branches), a length and a
  target; addresses are relative to the function. The actions follow the code:
  `Decode` is an iteration of the first pass of ZyrexAnalyzeCode, `Relocate` one of
  the loop of ZyrexRelocateCode, with a disjunct per way to relocate an
  instruction; `RelocationEnds` corrects the internal branches and writes the
  backjump. `buffer` is the sequence of the writes, so that a later write over an
  earlier one is visible; `map` is the translation map up to its count; `image` is
  a history variable, where each instruction really went. `Equivalent` compares
  the copy of an instruction with the instruction: where execution goes on, where
  a branch goes, what an operand refers to.
- **`Migration`** is `InlineHook.c`, and extends `Relocation`: the thread with the
  instruction pointer `ip` runs through the function, the callback and the
  trampoline, or is found anywhere in the function when it is suspended, and is
  migrated by the commits that attach and remove the hook. `lost` is the
  ZYAN_UNREACHABLE at the end of ZyrexMigrateThread.
- **`HookEngine`** composes the engine. It extends `Transaction` (and with it the
  allocator) and instantiates `Barrier`, whose vectors are `tls` and whose callbacks
  are read off `stack`, the calls each thread is in. A call of a hooked function
  goes to the stub of the chunk, the callback, which tries the barrier, and
  through the client's pointer to the trampoline and the body; bodies and
  callbacks call functions. The threads in `Installers` use the transactional
  interface, also from within callbacks.
- **`BarrierProofs`**, **`TrampolineProofs`**, **`TransactionProofs`**,
  **`PointerProofs`**, **`RelocationProofs`**, **`MigrationProofs`** and
  **`HookEngineProofs`** hold the theorems. `PointerProofs` extends the two before it,
  `MigrationProofs` extends `RelocationProofs` (which has lemmas only), and
  `HookEngineProofs` extends `PointerProofs` and instantiates `BarrierProofs` as the
  engine instantiates the barrier.
- **`MCBarrier`**, **`MCTrampoline`**, **`MCTransaction`**, **`MCMigration`**,
  **`MCHookEngine`** give the constants values.

In a module, a definition that comes just before another one of nearly the same
name (`LastChunkEarly` before `LastChunk`) is a deliberate defect, to show that the
properties notice it; the specifications do not use it.

### What clients are assumed to do

The interface documents few rules, and the code checks fewer. `Contract` names the
ones the model's clients keep: they remove through a pointer that Install
delivered (`valid_pointer`), forget the pointers of an aborted transaction
(`discard`), do not install on a function with an operation pending (`settled`),
remove hooks on one function in reverse order (`newest_first`), and do not abort a
transaction with a removal (`commit_removals`). Each rule is needed: `settled` and
`commit_removals` are what the run `abort` and the disagreement about replaced hooks
(below) leave out, and in the
instance of `hooks` TLC finds `MemorySafe` violated without `valid_pointer`,
`ClientPointersUsable` without `discard`, and `NoDanglingTrampoline` without
`newest_first`, although the documentation asks for none of them.

`HookEngine` needs more: `Care` names what a process is careful about around its
transactions. An operation is requested when no thread is in the stub or the
trampoline of the function (`drained`); until the transaction ends nobody calls the
function, enters its callback or calls the original (`quiet`); and no hook is
installed while a callback of a hook that was removed is still running (`returned`).
The code does nothing to bring any of this about. In the instance of `engine`, TLC
finds `ExecutesLiveChunks` violated without `drained`; `PointerReachesOriginal` without
`quiet`, because Remove sets the client's pointer to the function
(`Transaction.c:606`) while the function still starts with the jump, although
`Transaction.h:219-220` has the pointer change "after removing the hook"; and
`RefusesRecursionOnly` without `returned`, because the chunk of the removed hook, and
with it the barrier handle, goes to another function. What holds without further
care is that a callback may outlive its hook: it can leave the barrier
(`CallbacksLeaveNothing`) and call the original.

`HookEngine` also assumes that a slot that nobody has set is told apart from every
vector (`SlotAssumption`), and that no two clients hook one function.

`Relocation` assumes of functions that none of their first instructions refers to
the middle of another one, and of the constants what the code's own constants have:
an operand comes after an opcode, and a LOOP is short enough to become no longer than
the longest instruction (`LengthsAssumption`); the buffer has the size that
`Trampoline.h:51-59` computes, or more, up to the 125 bytes at which two offsets could no
longer be told apart by their low byte (`CodeSizeAssumption`); and the buffer is memory
of its own, where neither the function is nor a target (`BufferAssumption`). TLC
evaluates all of them in the run `relocation`. `Migration` assumes that the context of a suspended
thread can be read and set (`ContextFails = FALSE`): the status of the migration is
ignored (`Transaction.c:412, 436`), and otherwise TLC finds `NextInstructionExists`
violated, with a thread left in a chunk that is freed.

## The runs

| run | instance | what it shows |
|---|---|---|
| `barrier` | 2 threads, 2 hooks, limits 0 and 1, 4 callbacks open at once | see "barrier" above, with every library call failing; refinement of `HookBarrier` |
| `trampoline` | 3 bases, 2 chunks per region, 6 prologues, all 8 library calls failing | counts, ownership, reach; refinement of `ChunkPool` |
| `hooks` | 1 thread, 3 clients on 2 functions, 2 regions, 2 operations per transaction, failing writes, vectors and page protection | no dangling pointer of any kind |
| `threads` | 3 threads, 1 client, each thread suspended at most once, failing vectors, suspensions and writes | exclusion, accounting of suspensions, termination |
| `relocation` | 29 instructions, every sequence of them; the sizes of the code; one thread in any place | equivalence of the copy, room in the buffer and in the translation map, what the map says, and where migrations and execution take the thread |
| `engine` | 2 threads, one of which installs; 2 functions and clients, one region of 2 chunks, 2 operations per transaction, stacks of 3 calls, failing vectors and allocations | threads, hooks and barrier together |
| `trampoline_far`, `resume`, `abort`, `relocation_reuse`, `relocation_loop`, `migration_lost` | as small as shows it | the disagreements below |

*Bounds, and why they are enough.* Two hooks put a context before and behind
another; limit 1 and four callbacks reach a refused entry below and above open
ones; the depth counter of four values is never near its end, as 2^32 nested
callbacks are not. Two chunks per region is the least with a region that is
partly used, and three bases give the vector of regions a middle and two sides,
with regions of which no, one and all chunks are in reach. Hooks on hooks need two
clients on one function; the third, on another function, makes regions fill up and
the chunks be reused by someone else. Two operations per transaction are the
least with something before or after the one that fails. Three threads are an
owner, a rival in Begin and a bystander; a thread suspended once takes no step,
so a second suspension would come from the same owner.
A prologue of five bytes has at most five instructions, and all sequences are
tried; the targets are the starts of relocated instructions and code on either
side that a short branch reaches from the function but never from a chunk, which
is how the chunk is laid out (the callback jump and the saved code lie between).
`relocation` uses the chunk once: what a second use does is the run
`relocation_reuse`, and then `BranchesEquivalent` fails too, because a stale item of
the map makes the correction of an internal branch hit other bytes. Two functions
and a stack of three calls have one callback inside another, recursion through
both, and a refused one; two chunks and two clients make a removed hook's chunk,
and its barrier handle, go to the other client.
`MapSuffices` is stated until a branch has become three instructions, because
`Relocation.c:563` takes three items of the map for it: one such branch fits, and three
of them in a row would need nine items of the seven.
In `engine` only those calls fail that leave everything as it was; the others are
below, under "Engine".
`MaxNesting`, `MaxOperations`, `MaxSuspend`, `MaxUses` and `MaxStack` are the only bounds
on behaviour.

`CHECK_DEADLOCK FALSE` is given where the system may stop: all threads suspended by
one that has gone (`resume` shows why), the transaction claimed for ever after a
failing Begin, or a halt recorded in `fault`, a failed relocation, or a thread that is lost.

*Fairness.* `Spec` of `Transaction` assumes only that a thread that is inside
CommitEx or Abort is scheduled until it returns (weak fairness of its steps). The
loops have a bound and wait for no other part of the engine, and the owner cannot be
suspended through the interface; but they call the allocator of the process, whose
lock a suspended thread may hold. `TransactionEnds` is therefore a result about
transactions that suspend no thread inside the heap: if one is, the fairness
assumption is false and commit may wait for ever (the hazard at `Transaction.c:290`,
which is not modelled). Nothing obliges a client to end a transaction. `Barrier` and
`Trampoline`, `Migration` and `HookEngine` have safety properties only.

### Disagreements between code and text

| run | the code | the text |
|---|---|---|
| `trampoline_far` | `Trampoline.c:286-297`: the range test does not depend on the region | `Trampoline.c:836`: the new region has a chunk |
| `resume` | `Transaction.c:480-487` closes the handles only | `Transaction.h:126-127`: resumed after the transaction |
| `abort` | `Transaction.c:507-511` frees the trampolines of removals | `Transaction.h:165`: cancels the transaction |
| `relocation_reuse` | `Trampoline.c:693-744` does not reset the count of the translation map | `Relocation.c:454-455`: the map has room |
| `relocation_loop` | `Relocation.c:571` counts five bytes as two: the next write hits the jump | `Relocation.c:538-551`: the rewritten code |
| `migration_lost` | `InlineHook.c:85`: the offset is negated, so that a thread at a relocated instruction is not found | `InlineHook.c:133`: "This should never happen" |

`migration_lost` is stated so that only line 85 makes it fail: the property is about a thread
that is at a relocated instruction, for whose offset the map has an item, and TLC finds
no violation with the difference the other way round.

Seven more were found in the same way and are not kept as runs.

- `Barrier.c:249` leaves the out parameter alone where `Barrier.h:182-183` says that it
  receives 0.
- A failed relocation keeps its chunk marked as used (`Trampoline.c:701, 847-857`), so that
  the count of `Trampoline.c:70` is not the number of unused chunks; `UnusedCountsLive`
  states what the count is.
- A hook that is replaced in one transaction gets its trampoline made from bytes that the
  commit will change (`Transaction.c:563`, the TODO of line 421), so that it leads to a freed
  chunk: the rule `settled` excludes it.
- `InlineHook.c:80` lets the address behind the source pass, so that a thread at the
  instruction behind the relocated ones, which should be left alone, is looked up, has no
  item, and comes to the ZYAN_UNREACHABLE of line 134 too. TLC finds such a trace of one
  instruction of fifteen bytes, and none with `<` in place of the second comparison. It
  cannot simply be made strict, though: on removal the address it then leaves out is that
  of the backjump, and `NextInstructionExists` fails.
- `Transaction.c:437` looks for threads in the code buffer of a chunk, not at its callback
  jump, where a thread of the update list stays when the chunk is freed, although the
  commit "updates all threads in the thread-update list" (`Transaction.h:148-149`).
- `Transaction.c:296, 350` suspend a thread before its handle is stored. If the vector cannot
  grow the thread is not resumed when the transaction is canceled either, although
  `Transaction.h:126-127` says so.
- `Transaction.c:606` sets the client's pointer when the removal is requested, although
  `Transaction.h:219-220` has it change "after removing the hook": a callback that calls the
  original before the commit gets to the hook again. The rule `quiet` excludes it.

## What is proved

**The barrier** (`BarrierProofs`), for any sets of threads, handles, limits and failing
calls, any nesting and any width of the depth, under `BarrierAssumption` (the limits
leave out the largest value of the type, with which the depth would wrap instead of
exceeding the limit): all four invariants of the run `barrier`, and that `Spec`
implements `HookBarrier`. The inductive invariant `BarrierInv` says that every slot
holds a sorted vector or none, and that until the shutdown the depth kept for a
hook, zero if it has no context, is the number of its open callbacks that passed.
The parts need each other: the position that the binary search returns is that of
the handle only because the vector is sorted (`FoundIndexSplits`), so only then does
an entry or a leave change the depth of its own hook and no other
(`TryEnterEffect`, `LeaveEffect`); and a stray Leave does nothing only because the
depth is the number of callbacks. It is stronger than `DepthCountsOpenCallbacks`, which
says nothing about the depth where the out parameter keeps its value.

**The allocator** (`TrampolineProofs`), for all sets of base addresses, region and
chunk sizes, jump ranges, prologues and sets of failing calls, under
`TrampolineAssumption` (a region holds at least the header and a chunk, the callback
jump lies in its chunk, prologues contain their address): type correctness, the
five safety properties of the run `trampoline`, and that `TrampolineSpec` implements
the pool. The inductive invariant `TrampolineInv` is the conjunction of the
invariants and the finiteness of `live`. None of them is inductive alone: a region
is unmapped when its count says that one chunk is in use, so that the chunks with
an owner stay mapped (`LiveChunksIntact`) only because the count is that of the
owners (`UnusedCountsLive`), and the count of a new region is right only because
nobody owns a chunk of unmapped memory. `CreateEffect`, `CreateFailEffect` and
`FreeEffect` say what a call does to chunks with an owner; the preservation of the
invariant and the refinement both rest on them. `InReachReaches` is the arithmetic of
the distance test: it uses that `RegionInRange`, which does not look at where the
region is, still implies that a chunk is smaller than the jump range.

**Transactions** (`TransactionProofs`): `Exclusive` and `SuspensionsAccounted` for any
number of threads, operations and suspensions, any failures and any contract,
under the assumption `AtomicClaim`, which is the compare-and-swap of the Windows
build (elsewhere a plain store, `Transaction.c:240-242`, and `Exclusive` fails).
The invariant adds that the vector of threads is empty unless some thread is
between Begin and the end.

**Pointers** (`PointerProofs`): the type invariant and the five safety properties of the
run `hooks`, for any number of threads, clients, functions and operations, any
layout and any failures, under `Careful`: `AtomicClaim`, and clients that keep all rules of
`Contract` (that each is needed is shown by TLC, see above). `MemorySafe` also needs
that no insertion into the vector of regions fails, since a region that is not listed
makes Find miss a chunk. The invariant `PointersInv` adds to those of the allocator
and of the ownership what a transaction owes its operations (`Sound`): the chunk of
an operation the loops have not come to belongs to the function, no chunk was made
from the jump to it, no function jumps to it if it is to be attached, and no client
has a pointer to it if it is to be removed; and two operations with one chunk are its
attachment and, after it, its removal (`InOrder`). This is what lets CommitEx free the
chunk of a removal and Abort that of an attachment. The lemmas `CreateKeeps` and
`FreeKeeps` carry the chains of chunks through the allocator, with the effects
proved in `TrampolineProofs`; then there is one lemma per action.

**Relocation** (`RelocationProofs`, with the theorems in `MigrationProofs`), for every
function (any sequence of any instructions with any targets), every distance of the
buffer, every number of overwritten bytes and every size of the map, under the
assumptions above. The buffer is large enough in every use of the chunk
(`BufferIsLargeEnough`). With two items more than bytes are overwritten, as
`Trampoline.h:71-79` has them, the map is large enough (`MapIsLargeEnough`). In the first
use of a chunk, `uses <= 1`, the map says where the copies are (`MapLocatesCopies`), and
until a branch has become three instructions the copy does what the function did
(`TrampolineIsEquivalent`). That the first use is special is the code's doing: a chunk
that is used again keeps the map of the function before (`relocation_reuse`), and TLC
refutes `MapIsImage` and `BranchesEquivalent` then.
The invariant `RelocationInv` has the instructions one behind the other
(`InstructionsInv`), how far the loop is (`ProgressInv`: the copies are at most three
times as long as the instructions, but for the last one), the order of the copies
(`ImageInv`), the map in any use and in the first (`MapInv`, `FirstMapInv`), and the pieces
of the buffer (`PiecesInv`, `CopiesInv`). The part one would not guess is that the first
item for an offset is at most three times that offset, in *every* use of a chunk: with it
the correction of an internal branch changes a short operand by a small amount,
whatever a stale item says. `CopiesInv` says of the piece of each instruction what the
correction of internal branches may still change and what not; it is
needed because the corrections are done by address, and hit the right piece only as
long as the pieces are where the map says. `RoomInv`, for the room in the map, counts an
item per relocated instruction, each of which begins at least a byte behind the last.

**Migration** (`MigrationProofs`), for the same, any number of migrations, and any
behaviour of the thread: type correctness; that a thread that is migrated goes from an
instruction to its copy or back, in every use of the chunk (`MigrationIsFaithful`); and
that the next instruction of the thread always exists (`ThreadsStayInCode`), in the first
use of the chunk and if the contexts of threads can be read and set (`~ContextFails`;
TLC refutes it without either). The arithmetic behind the first is that the
code looks for the low byte of `source - ip`: for an offset d from 1 to 125 that byte is
256 - d, beyond every offset in the map, so that on attaching only a thread at the very
start of the function is ever found. For `NextInstructionExists` the invariant `InCode` says
where a thread can be while the hook is attached or not.

**Engine** (`HookEngineProofs`), for any number of threads, installers, clients,
functions, regions and operations, any layout, stacks of any depth and any
interleaving. There is an inductive invariant per degree of care, each of
them an extension of the one before and of `PointersInv`:

| theorem | property | assumed | invariant |
|---|---|---|---|
| `EngineTypeCorrect` | `EngineTypeOK` | `Careful` | `CallsInv` |
| `CallbacksLeave` | `CallbacksLeaveNothing` | `Careful` | `CallsInv` |
| `NoCallInFreedChunk` | `ExecutesLiveChunks` | and `Cautious`: `drained`, `quiet` | `LiveInv` |
| `OriginalIsNeverTheHook` | `PointerReachesOriginal` | and `Reliable` | `OriginInv` |
| `BarrierRefusesRecursion` | `RefusesRecursionOnly` | and `returned` (`AllCare`) | `RecursionInv` |

- `CallsInv`: on every thread the handles of the callbacks that passed are distinct, and
  the depth the barrier keeps for a handle is one inside of such a callback and zero
  elsewhere. It needs no care at all, because it speaks of handles, not of hooks. The
  effects of TryEnter and Leave are those proved in `BarrierProofs`.
- `LiveInv`: the chunk a thread is in has an owner, belongs to the function, and no
  operation on the function is pending; a client's pointer is a chunk of its function.
- `OriginInv`: a chunk of a function is the one in the client's pointer unless its
  removal is pending (`ChunksOwned`), pending removals are of clients whose pointer is
  gone, and of two operations on a function the first attaches and the second removes.
  So, where nothing is pending, a function that jumps has a client with a
  pointer to the trampoline.
- `RecursionInv`: the handle of a callback is the address of a chunk of its function, or
  of none any more and then the function has no other chunk. With that, and because
  two chunks have different addresses (`AddressInjective`), the callbacks with the
  handle in the client's pointer are those of the client's hook.

`Reliable` says that no write to code, no insertion into a vector and no change of page
protection or release fails. It is needed: a commit that stops half way leaves
a client whose pointer is the function and a function that still jumps to the stub. TLC
finds `PointerReachesOriginal` violated in the instance of `engine` with `Fails = {"write"}`,
with `Fails = {"push"}` and with `Faults = {"protect"}`, and `RefusesRecursionOnly` with
`Fails = {"write"}`. The other theorems hold whatever fails.

**Only model-checked**: the liveness property `TransactionEnds` (the prover handles
neither liveness under fairness nor `ENABLED`), and the disagreements above, which are
counterexamples.

## What is not modelled

- In relocation: operands of 16 bits, XBEGIN, and memory operands that refer to
  instructions that were rewritten (the TODO of `Relocation.c:819-822`). 32-bit
  operands are always in reach (`Truncate`, `OutOfReach`; the code tests them too,
  `Relocation.c:393-402`): what justifies it is the range test of Create, which sees the
  targets of all instructions, and `LiveChunksReach`, so that it does not hold of the
  regions that `trampoline_far` is about. The limits
  of decoding are those of Create (`Trampoline`). The vector of instructions is
  never destroyed (`Relocation.c:893`), which nothing observes.
- In migration: failing suspensions of a thread that is already suspended, and
  the handles closed then (`InlineHook.c:59`), which the transaction closes again. A
  thread at the stub of the chunk is not looked at by the code; `Migration` lets it go on to the callback, and `HookEngine` has the
  rule `drained`. `CommitAttach` and `CommitRemove` leave out a jump that cannot be written and
  instructions that cannot be restored (`Transaction.c:422, 445`), after which a commit
  stops with the thread already moved; what that does to hooks and chunks is in
  `Transaction`.
- Page protection, instruction caches, and the bytes of instructions.
- The clamps of the outward search at the ends of the address space: the model
  only says that it does not end when there is no free memory.
- Single bytes of the jump while they are written, threads created during a
  transaction, and the locks that a suspended thread may hold.
- In `HookEngine`: hooks on hooks (they are in `Transaction`), failing calls of the
  barrier (they are in `Barrier`), and migration (a thread is where its call is, not at an
  instruction of it).
- Calls by threads that do not own the transaction: they return an error and
  change nothing.
- Failing insertion of a region in the transaction's run (`insert` is in `Faults` of
  `trampoline` only): ZyrexRemoveInlineHook then goes on with an uninitialized
  pointer (`Transaction.c:590-594`), and nothing can be said of what follows.
- `Zyrex.c`, examples, build files.

## Plan

Done: barrier, allocator, transactions, relocation, migration and the engine as a
whole, with their runs, and the proofs of all their safety properties. Left, in the
order of importance:

1. Proofs that weaken what is assumed: `MapIsImage` and `MigrationFaithful` for a chunk
   that is used again, as far as they hold; `CallbacksLeaveNothing` without `Careful`.
2. `HookEngine` with hooks on hooks.
3. `RegionSearch`: the outward search for free memory with its clamps.
