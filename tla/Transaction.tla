---------------------------- MODULE Transaction ----------------------------
(***************************************************************************)
(* src/src/Transaction.c: the transactional interface, on top of the       *)
(* trampoline allocator.  Threads begin, fill, commit or abort one global  *)
(* transaction; clients are the owners of the hooks, each with the pointer *)
(* that Install and Remove write (`original').  Begin, commit and abort    *)
(* are split where another thread, or an error in the middle, can show;    *)
(* calls by a thread that does not own the transaction change nothing and  *)
(* are not modelled.                                                       *)
(***************************************************************************)
EXTENDS Trampoline, Sequences

CONSTANTS
    Threads,        \* the threads of the process
    NoThread,       \* the transaction_thread_id of no transaction (0)
    Clients,        \* owners of one hook each
    Target,         \* Target[k]: the function client k hooks, as compiled
    AtomicClaim,    \* TRUE: compare-and-swap in Begin (Windows), FALSE: a plain store
    Fails,          \* which calls of the transaction may fail, see FailKinds
    Contract,       \* what the clients are careful about, see ContractRules
    MaxOperations,  \* bound: operations in one transaction
    MaxSuspend      \* bound: how often a thread is suspended

FailKinds == {"vectors", "push", "suspend", "write"}

(* The rules of the clients:                                               *)
(*   valid_pointer    remove through a pointer that Install delivered;     *)
(*   discard          forget the pointers of a transaction that was        *)
(*                    aborted;                                             *)
(*   settled          do not install on a function that has an operation   *)
(*                    pending;                                             *)
(*   newest_first     remove the hooks of a function in reverse order;     *)
(*   commit_removals  do not abort a transaction with a removal.           *)
ContractRules == {"valid_pointer", "discard", "settled", "newest_first", "commit_removals"}

Functions == {p.address : p \in Prologues}

ASSUME TransactionAssumption ==
    /\ NoThread \notin Threads
    /\ Target \in [Clients -> Prologues]
    /\ AtomicClaim \in BOOLEAN
    /\ Fails \subseteq FailKinds
    /\ Contract \subseteq ContractRules
    /\ MaxOperations \in Nat
    /\ MaxSuspend \in Nat
    /\ \A p \in Prologues : p.code = NoChunk

VARIABLES
    transaction_thread_id,  \* the thread that owns the transaction, or NoThread
    pending_operations,     \* the vector of operations
    threads_to_update,      \* how many handles of each thread the vector holds
    pc,                     \* where each thread is in the interface
    cursor,                 \* the index of the loop a committing or aborting thread is in
    suspend,                \* the suspend count of each thread
    stranded,               \* how many suspensions of each thread nobody will undo
    code,                   \* the chunk the first bytes of a function jump to, or NoChunk
    original                \* the pointer of each client: a trampoline, or NoChunk

claim_vars == <<transaction_thread_id, pc, cursor>>
thread_vars == <<threads_to_update, suspend, stranded>>
hook_vars == <<pending_operations, code, original>>

vars == <<tvars, claim_vars, thread_vars, hook_vars>>

(* Where a thread can be: outside; in Begin, after the first look at the   *)
(* owner, or after the claim; between Begin and the end; in the loop of    *)
(* CommitEx; in the loop of Abort.                                         *)
Places == {"idle", "checked", "claimed", "open", "commit", "abort"}

Operation == [action : {"attach", "remove"}, address : Functions, trampoline : Chunks]

TypeOK ==
    /\ TrampolineTypeOK
    /\ transaction_thread_id \in Threads \cup {NoThread}
    /\ pending_operations \in Seq(Operation)
    /\ threads_to_update \in [Threads -> Nat]
    /\ pc \in [Threads -> Places]
    /\ cursor \in [Threads -> Nat]
    /\ suspend \in [Threads -> Nat]
    /\ stranded \in [Threads -> Nat]
    /\ code \in [Functions -> Chunks \cup {NoChunk}]
    /\ original \in [Clients -> Chunks \cup {NoChunk}]

Init ==
    /\ TrampolineInit
    /\ transaction_thread_id = NoThread
    /\ pending_operations = <<>>
    /\ threads_to_update = [t \in Threads |-> 0]
    /\ pc = [t \in Threads |-> "idle"]
    /\ cursor = [t \in Threads |-> 0]
    /\ suspend = [t \in Threads |-> 0]
    /\ stranded = [t \in Threads |-> 0]
    /\ code = [a \in Functions |-> NoChunk]
    /\ original = [k \in Clients |-> NoChunk]

-----------------------------------------------------------------------------
(* A suspended thread takes no step, and nothing moves after a fault. *)
Runs(t) == fault = "none" /\ suspend[t] = 0

Goes(t, from, to) ==
    /\ Runs(t)
    /\ pc[t] = from
    /\ pc' = [pc EXCEPT ![t] = to]

(* The functions of the interface return INVALID_OPERATION to a thread     *)
(* that is not the owner.                                                  *)
InTransaction(t) == Runs(t) /\ pc[t] = "open" /\ transaction_thread_id = t

(* What Install finds at the function of the prologue p: the instructions  *)
(* as compiled, or the jump to the chunk that hooks it.                    *)
Current(p) ==
    IF code[p.address] = NoChunk THEN p
    ELSE LET target == Address(code[p.address]) + CallbackJumpOffset
         IN  [kind |-> "plain",
              address |-> p.address,
              lo |-> IF target < p.address THEN target ELSE p.address,
              hi |-> IF target < p.address THEN p.address ELSE target,
              code |-> code[p.address]]

-----------------------------------------------------------------------------
(* ZyrexTransactionBegin: the first look at the owner ... *)
BeginChecks(t) ==
    /\ Goes(t, "idle", "checked")
    /\ transaction_thread_id = NoThread
    /\ UNCHANGED <<tvars, transaction_thread_id, cursor, thread_vars, hook_vars>>

(* ... then the claim, which fails if another thread was faster (the first *)
(* of the two definitions does not look) ...                               *)
BeginClaimsBlindly(t) ==
    /\ Goes(t, "checked", "claimed")
    /\ transaction_thread_id' = t
    /\ UNCHANGED <<tvars, cursor, thread_vars, hook_vars>>

BeginClaims(t) ==
    /\ AtomicClaim => transaction_thread_id = NoThread
    /\ Goes(t, "checked", "claimed")
    /\ transaction_thread_id' = t
    /\ UNCHANGED <<tvars, cursor, thread_vars, hook_vars>>

BeginIsLate(t) ==
    /\ AtomicClaim /\ transaction_thread_id # NoThread
    /\ Goes(t, "checked", "idle")
    /\ UNCHANGED <<tvars, transaction_thread_id, cursor, thread_vars, hook_vars>>

(* ... and the two vectors. *)
BeginReturns(t) ==
    /\ Goes(t, "claimed", "open")
    /\ pending_operations' = <<>>
    /\ threads_to_update' = [u \in Threads |-> 0]
    /\ UNCHANGED <<tvars, transaction_thread_id, cursor, suspend, stranded, code, original>>

(* A vector cannot be initialized: Begin fails, and the claim stays. *)
BeginFails(t) ==
    /\ "vectors" \in Fails
    /\ Goes(t, "claimed", "idle")
    /\ UNCHANGED <<tvars, transaction_thread_id, cursor, thread_vars, hook_vars>>

-----------------------------------------------------------------------------
(* SuspendThread on the threads of the set, of which those in `listed'     *)
(* make it into the vector.                                                *)
Suspends(suspended, listed) ==
    /\ \A u \in suspended : suspend[u] < MaxSuspend
    /\ listed \subseteq suspended
    /\ suspend' = [u \in Threads |-> IF u \in suspended THEN suspend[u] + 1 ELSE suspend[u]]
    /\ threads_to_update' =
        [u \in Threads |-> IF u \in listed THEN threads_to_update[u] + 1 ELSE threads_to_update[u]]
    /\ stranded' =
        [u \in Threads |-> IF u \in suspended \ listed THEN stranded[u] + 1 ELSE stranded[u]]

(* ZyrexUpdateThread; without room in the vector the thread stays          *)
(* suspended.  A thread that cannot be opened or suspended changes nothing. *)
UpdateThread(t, u) ==
    /\ InTransaction(t) /\ u # t
    /\ \/ Suspends({u}, {u})
       \/ "push" \in Fails /\ Suspends({u}, {})
    /\ UNCHANGED <<tvars, claim_vars, hook_vars>>

(* ZyrexUpdateAllThreads; it skips the threads it cannot open or suspend,  *)
(* and does not look at the status of the vector.                          *)
UpdateAllThreads(t) ==
    /\ InTransaction(t)
    /\ LET others == Threads \ {t}
       IN  \E suspended \in IF "suspend" \in Fails THEN SUBSET others ELSE {others} :
           \E listed \in IF "push" \in Fails THEN SUBSET suspended ELSE {suspended} :
               Suspends(suspended, listed)
    /\ UNCHANGED <<tvars, claim_vars, hook_vars>>

-----------------------------------------------------------------------------
Pushes(action, address, c) ==
    pending_operations' =
        Append(pending_operations, [action |-> action, address |-> address, trampoline |-> c])

HasPending(address) ==
    \E i \in DOMAIN pending_operations : pending_operations[i].address = address

(* The client's pointer is left alone. *)
DeliversNothing(k, c) == UNCHANGED original

(* The client's pointer receives the address of the trampoline. *)
Delivers(k, c) == original' = [original EXCEPT ![k] = c]

(* ZyrexInstallInlineHook.  The client's pointer is set as soon as there   *)
(* is a trampoline; if the vector cannot grow, the trampoline has no       *)
(* operation that would attach or free it.                                 *)
Install(t, k) ==
    /\ InTransaction(t)
    /\ original[k] = NoChunk
    /\ Len(pending_operations) < MaxOperations
    /\ "settled" \in Contract => ~HasPending(Target[k].address)
    /\ LET p == Current(Target[k])
       IN  \/ \E c \in Chunks :
                /\ CreateReturns(p, c)
                /\ Delivers(k, c)
                /\ \/ Pushes("attach", p.address, c)
                   \/ "push" \in Fails /\ UNCHANGED pending_operations
           \/ (CreateFails(p) \/ CreateFaults(p)) /\ UNCHANGED <<pending_operations, original>>
    /\ UNCHANGED <<claim_vars, thread_vars, code>>

(* Nothing was made from the jump to the chunk c. *)
IsNewest(c) == c \in Chunks => \A d \in live : chunk[d].source.code # c

(* The client's pointer is left alone. *)
KeepsPointer(k) == UNCHANGED original

(* The client's pointer receives the address of the function. *)
ReceivesTarget(k) == original' = [original EXCEPT ![k] = NoChunk]

(* ZyrexRemoveInlineHook.  ZYAN_CHECK lets the FALSE of a failing search   *)
(* pass, and the chunk that is used then is an uninitialized pointer.      *)
Remove(t, k) ==
    /\ InTransaction(t)
    /\ Len(pending_operations) < MaxOperations
    /\ "valid_pointer" \in Contract => original[k] \in live
    /\ "newest_first" \in Contract => IsNewest(original[k])
    /\ LET c == original[k]
           found == IF c \in Chunks THEN Find(c)
                    ELSE IF is_initialized THEN "false" ELSE "error"
       IN  \/ /\ found = "true"
              /\ ReceivesTarget(k)
              /\ \/ Pushes("remove", chunk[c].source.address, c)
                 \/ "push" \in Fails /\ UNCHANGED pending_operations
              /\ UNCHANGED fault
           \/ /\ found = "false"
              /\ fault' = "uninitialized_pointer"
              /\ UNCHANGED <<pending_operations, original>>
    /\ UNCHANGED <<is_initialized, regions, mapped, unused, chunk, live>>
    /\ UNCHANGED <<claim_vars, thread_vars, code>>

-----------------------------------------------------------------------------
(* ZyrexTransactionCommitEx is called. *)
CommitStarts(t) ==
    /\ transaction_thread_id = t
    /\ Goes(t, "open", "commit")
    /\ cursor' = [cursor EXCEPT ![t] = 1]
    /\ UNCHANGED <<tvars, transaction_thread_id, thread_vars, hook_vars>>

InLoop(t, place) ==
    /\ Runs(t) /\ pc[t] = place
    /\ cursor[t] \in DOMAIN pending_operations

AtEnd(t, place) ==
    /\ Goes(t, place, "idle")
    /\ cursor[t] \notin DOMAIN pending_operations

(* The index is not advanced. *)
ContinuesNot(t) == UNCHANGED cursor

Continues(t) == cursor' = [cursor EXCEPT ![t] = @ + 1]

(* The loop of CommitEx ends at an operation that failed. *)
Stops(t) == cursor' = [cursor EXCEPT ![t] = Len(pending_operations) + 1]

(* WriteHookJump and RestoreInstructions: the bytes are written, unless    *)
(* the page cannot be made writable; a failure after that is an error too. *)
WritesCode(address, bytes) == code' = [code EXCEPT ![address] = bytes]

WriteFails(address, bytes) ==
    "write" \in Fails /\ (WritesCode(address, bytes) \/ UNCHANGED code)

ReadsFreedMemory(c) == c[1] \notin mapped

AccessViolation ==
    /\ fault' = "access_violation"
    /\ UNCHANGED <<is_initialized, regions, mapped, unused, chunk, live, code, cursor>>

(* ZyrexMigrateThread reads the chunk for every thread of the vector. *)
MigratesThreads == \E u \in Threads : threads_to_update[u] > 0

CommitAttach(t, op) ==
    /\ op.action = "attach"
    /\ IF MigratesThreads /\ ReadsFreedMemory(op.trampoline)
       THEN AccessViolation
       ELSE /\ \/ WritesCode(op.address, op.trampoline) /\ Continues(t)
               \/ WriteFails(op.address, op.trampoline) /\ Stops(t)
            /\ UNCHANGED tvars

(* The trampoline is freed whether or not the instructions were restored. *)
CommitRemoveUnchecked(t, op) ==
    /\ op.action = "remove"
    /\ IF ReadsFreedMemory(op.trampoline)
       THEN AccessViolation
       ELSE LET bytes == chunk[op.trampoline].source.code
            IN  /\ WritesCode(op.address, bytes) \/ WriteFails(op.address, bytes)
                /\ \/ FreeReturns(op.trampoline) /\ Continues(t)
                   \/ FreeFails(op.trampoline) /\ Stops(t)

CommitRemove(t, op) ==
    /\ op.action = "remove"
    /\ IF ReadsFreedMemory(op.trampoline)
       THEN AccessViolation
       ELSE LET bytes == chunk[op.trampoline].source.code
            IN  \/ WritesCode(op.address, bytes) /\ FreeReturns(op.trampoline) /\ Continues(t)
                \/ WritesCode(op.address, bytes) /\ FreeFails(op.trampoline) /\ Stops(t)
                \/ WriteFails(op.address, bytes) /\ Stops(t) /\ UNCHANGED tvars

CommitStep(t) ==
    /\ InLoop(t, "commit")
    /\ LET op == pending_operations[cursor[t]]
       IN  CommitAttach(t, op) \/ CommitRemove(t, op)
    /\ UNCHANGED <<transaction_thread_id, pc, thread_vars, pending_operations, original>>

(* The end of CommitEx closes the handles of the threads; it does not      *)
(* resume them.                                                            *)
CommitEnd(t) ==
    /\ AtEnd(t, "commit")
    /\ stranded' = [u \in Threads |-> stranded[u] + threads_to_update[u]]
    /\ threads_to_update' = [u \in Threads |-> 0]
    /\ pending_operations' = <<>>
    /\ transaction_thread_id' = NoThread
    /\ UNCHANGED <<tvars, cursor, suspend, code, original>>

-----------------------------------------------------------------------------
(* ZyrexTransactionAbort is called. *)
AbortStarts(t) ==
    /\ transaction_thread_id = t
    /\ "commit_removals" \in Contract =>
        \A i \in DOMAIN pending_operations : pending_operations[i].action = "attach"
    /\ Goes(t, "open", "abort")
    /\ cursor' = [cursor EXCEPT ![t] = 1]
    /\ UNCHANGED <<tvars, transaction_thread_id, thread_vars, hook_vars>>

(* One round of the loop that frees the trampolines. *)
AbortStep(t) ==
    /\ InLoop(t, "abort")
    /\ Free(pending_operations[cursor[t]].trampoline)
    /\ Continues(t)
    /\ UNCHANGED <<transaction_thread_id, pc, thread_vars, hook_vars>>

(* Every thread is resumed once too often, and not at all. *)
ResumesTwice ==
    suspend' = [u \in Threads |-> suspend[u] - 2 * threads_to_update[u]]

ResumesNone == UNCHANGED suspend

Resumes == suspend' = [u \in Threads |-> suspend[u] - threads_to_update[u]]

(* The end of Abort resumes the threads.  A careful client forgets the     *)
(* trampolines it got in the transaction.                                  *)
AbortEnd(t) ==
    /\ AtEnd(t, "abort")
    /\ Resumes
    /\ threads_to_update' = [u \in Threads |-> 0]
    /\ pending_operations' = <<>>
    /\ transaction_thread_id' = NoThread
    /\ original' = [k \in Clients |-> IF "discard" \in Contract /\ original[k] \notin live
                                      THEN NoChunk ELSE original[k]]
    /\ UNCHANGED <<tvars, cursor, stranded, code>>

-----------------------------------------------------------------------------
Begin(t) ==
    \/ BeginChecks(t) \/ BeginClaims(t) \/ BeginIsLate(t) \/ BeginReturns(t) \/ BeginFails(t)

(* The steps of a thread that is in CommitEx or in Abort. *)
Ends(t) == CommitStep(t) \/ CommitEnd(t) \/ AbortStep(t) \/ AbortEnd(t)

Next ==
    \E t \in Threads :
        \/ Begin(t)
        \/ \E u \in Threads : UpdateThread(t, u)
        \/ UpdateAllThreads(t)
        \/ \E k \in Clients : Install(t, k)
        \/ \E k \in Clients : Remove(t, k)
        \/ CommitStarts(t)
        \/ AbortStarts(t)
        \/ Ends(t)

(* A thread that has called CommitEx or Abort is scheduled until it returns. *)
Fairness == \A t \in Threads : WF_vars(Ends(t))

Spec == Init /\ [][Next]_vars /\ Fairness

-----------------------------------------------------------------------------
(* Only one transaction is open at a time (Trampoline.c:91-92), from the   *)
(* claim in Begin to the last step of CommitEx or Abort: whoever is in it  *)
(* is its owner, whatever the other threads do in Begin meanwhile.         *)
Exclusive ==
    \A t \in Threads :
        pc[t] \in {"claimed", "open", "commit", "abort"} => transaction_thread_id = t

(* The chunk has an owner, in memory, and is not up for reuse. *)
Usable(c) == c \in live /\ c[1] \in mapped /\ chunk[c].is_used

(* A hooked function jumps to a chunk that exists and was made for it: the *)
(* jump never outlives the chunk, whichever write or release failed.       *)
NoDanglingJump ==
    \A a \in Functions :
        code[a] # NoChunk => Usable(code[a]) /\ chunk[code[a]].source.address = a

(* A trampoline that was made from the jump of an earlier hook contains a  *)
(* jump to the chunk of that hook, which therefore has to exist.           *)
NoDanglingTrampoline ==
    \A c \in live : chunk[c].source.code # NoChunk => Usable(chunk[c].source.code)

(* The operations that CommitEx or Abort has not come to refer to chunks   *)
(* that were not freed, by this transaction or an earlier one.             *)
PendingTrampolinesLive ==
    \A i \in DOMAIN pending_operations :
        (\A t \in Threads : pc[t] \in {"commit", "abort"} => cursor[t] <= i)
            => Usable(pending_operations[i].trampoline)

(* The pointer a client calls the original function through is, from the   *)
(* moment Install sets it, a trampoline that exists and that no other      *)
(* client has, except while Abort is running.                              *)
ClientPointersUsable ==
    (\A t \in Threads : pc[t] # "abort") =>
        \A k \in Clients : original[k] # NoChunk =>
            /\ Usable(original[k])
            /\ \A j \in Clients \ {k} : original[j] # original[k]

(* The suspensions of a thread are those the transaction will undo if it   *)
(* is aborted, and those nobody will undo: Abort resumes every thread as   *)
(* often as the transaction suspended it, and no other.                    *)
SuspensionsAccounted ==
    \A u \in Threads : suspend[u] = stranded[u] + threads_to_update[u]

(* No step reads a chunk of a region that was given back, and Remove never *)
(* uses the pointer that a failing search leaves uninitialized.            *)
MemorySafe == fault \notin {"access_violation", "uninitialized_pointer"}

(* CommitEx and Abort come to their end, whatever fails in their loops. *)
TransactionEnds ==
    \A t \in Threads :
        pc[t] \in {"commit", "abort"} ~> (pc[t] = "idle" \/ fault # "none")

(* Transaction.h:126-127: a suspended thread is resumed after the          *)
(* transaction was either committed or canceled.                           *)
ResumedAfterTransaction ==
    transaction_thread_id = NoThread => \A u \in Threads : suspend[u] = 0

(* Transaction.h:165: Abort cancels the transaction, so that the hooks     *)
(* that were to be removed are still in working order afterwards.          *)
CancelLeavesHooks == transaction_thread_id = NoThread => NoDanglingJump
=============================================================================
