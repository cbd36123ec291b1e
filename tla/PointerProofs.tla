--------------------------- MODULE PointerProofs ---------------------------
(***************************************************************************)
(* Proofs that no pointer dangles: neither the jump of a hooked function,  *)
(* nor a trampoline that was made from such a jump, nor an operation of    *)
(* the open transaction, nor the pointer of a client, for any number of    *)
(* threads, clients, functions and operations, any memory layout and any   *)
(* failures, where the clients keep all rules of the contract and Begin    *)
(* claims the transaction with a compare-and-swap.                         *)
(***************************************************************************)
EXTENDS TransactionProofs, TrampolineProofs, SequenceTheorems

Careful == AtomicClaim /\ Contract = ContractRules

(* The operations that CommitEx or Abort has not come to. *)
ToDo ==
    {i \in DOMAIN pending_operations :
        \A t \in Threads : pc[t] \in {"commit", "abort"} => cursor[t] <= i}

HooksTyped ==
    /\ pending_operations \in Seq(Operation)
    /\ cursor \in [Threads -> Nat]
    /\ code \in [Functions -> Chunks \cup {NoChunk}]
    /\ original \in [Clients -> Chunks \cup {NoChunk}]

(* The chunks of a function that were made from one another. *)
Chained ==
    \A c \in live :
        /\ chunk[c].source.address \in Functions
        /\ chunk[c].source.code # NoChunk =>
            /\ chunk[c].source.code \in live \ {c}
            /\ chunk[chunk[c].source.code].source.address = chunk[c].source.address

Jumps ==
    \A a \in Functions :
        code[a] # NoChunk => code[a] \in live /\ chunk[code[a]].source.address = a

Unattached(c) == \A a \in Functions : code[a] # c

Unreferenced(c) == \A k \in Clients : original[k] # c

(* An operation the loops have not come to. *)
Sound(op) ==
    /\ op.trampoline \in live
    /\ chunk[op.trampoline].source.address = op.address
    /\ IsNewest(op.trampoline)
    /\ op.action = "attach" => Unattached(op.trampoline)
    /\ op.action = "remove" => Unreferenced(op.trampoline)

(* The only two operations with one trampoline are its attachment and,     *)
(* after that, its removal.                                                *)
InOrder(op, later) ==
    op.trampoline = later.trampoline => op.action = "attach" /\ later.action = "remove"

Operations ==
    /\ \A i \in ToDo : Sound(pending_operations[i])
    /\ \A i, j \in ToDo : i < j => InOrder(pending_operations[i], pending_operations[j])
    /\ (\E t \in Threads : pc[t] = "abort") =>
        \A i \in ToDo : pending_operations[i].action = "attach"
    /\ (\A t \in Threads : pc[t] \notin Owning) => pending_operations = <<>>

Pointers ==
    /\ \A j, k \in Clients : original[j] = original[k] /\ original[k] # NoChunk => j = k
    /\ (\A t \in Threads : pc[t] # "abort") =>
        \A k \in Clients : original[k] # NoChunk => original[k] \in live

(* If no insertion into the vector of regions fails, Find finds every      *)
(* chunk that has an owner.                                                *)
Findable ==
    /\ fault # "access_violation"
    /\ "insert" \notin Faults =>
        fault # "uninitialized_pointer" /\ \A c \in live : c[1] \in regions

(* The inductive invariant.  What makes it inductive is the part about the *)
(* operations: a removal may free its chunk because no chunk was made from *)
(* the jump to it (IsNewest) and no client has a pointer to it any more,   *)
(* and an abort may, because no function jumps to the chunk yet.           *)
PointersInv ==
    /\ TrampolineInv
    /\ ThreadsInv
    /\ HooksTyped
    /\ Chained
    /\ Jumps
    /\ Operations
    /\ Pointers
    /\ Findable

-----------------------------------------------------------------------------
(* Install is called for the instructions that are at the function now. *)
LEMMA CurrentWellFormed ==
    ASSUME NEW p \in Prologues, code \in [Functions -> Chunks \cup {NoChunk}]
    PROVE  /\ WellFormed(Current(p))
           /\ p.address \in Functions
           /\ Current(p).address = p.address
           /\ Current(p).code = code[p.address]
<1>1. p \in Prologue /\ p.lo <= p.address /\ p.address <= p.hi /\ p.code = NoChunk
  BY TrampolineAssumption, TransactionAssumption
<1>2. p.address \in Functions /\ p.address \in Nat
  BY <1>1 DEF Functions, Prologue
<1>3. CASE code[p.address] = NoChunk
  BY <1>1, <1>2, <1>3 DEF Current, WellFormed
<1>4. CASE code[p.address] # NoChunk
  <2> DEFINE c == code[p.address]
             target == Address(c) + CallbackJumpOffset
             lo == IF target < p.address THEN target ELSE p.address
             hi == IF target < p.address THEN p.address ELSE target
             q == [kind |-> "plain", address |-> p.address, lo |-> lo, hi |-> hi, code |-> c]
  <2>1. c \in Chunks
    BY <1>2, <1>4
  <2>2. target \in Nat
    BY <2>1, AddressType, TrampolineAssumption
  <2> HIDE DEF target
  <2>3. lo \in Nat /\ hi \in Nat /\ lo <= p.address /\ p.address <= hi
    BY <1>2, <2>2
  <2>4. Current(p) = q
    BY <1>4 DEF Current, target
  <2> HIDE DEF lo, hi, c
  <2>5. q \in Prologue
    BY <1>2, <2>1, <2>3 DEF Prologue, Kinds
  <2>6. q.address = p.address /\ q.code = c /\ q.lo = lo /\ q.hi = hi
    OBVIOUS
  <2> HIDE DEF q
  <2> QED
    BY <1>2, <2>3, <2>4, <2>5, <2>6 DEF WellFormed, c
<1> QED
  BY <1>3, <1>4

(* The state of the allocator is not touched, but for the fault. *)
LEMMA AllocatorKept ==
    ASSUME TrampolineInv,
           UNCHANGED <<is_initialized, regions, mapped, unused, chunk, live>>
    PROVE  TrampolineInv'
<1>1. \A r : LiveIn(r)' = LiveIn(r)
  BY DEF LiveIn
<1> QED
  BY <1>1 DEF TrampolineInv, TrampolineTypeOK, LiveChunksIntact, UnusedCountsLive,
              LiveChunksReach, RegionsInUse

(* While one thread is between its claim and the end, no other is. *)
LEMMA OwnerAlone ==
    ASSUME ThreadsInv, NEW t \in Threads, pc[t] \in Owning
    PROVE  \A u \in Threads \ {t} : pc[u] \notin Owning
BY DEF ThreadsInv, Exclusive, Owning

(* The chunk of a client can be found. *)
LEMMA FindFinds ==
    ASSUME TrampolineInv, Findable, "insert" \notin Faults, NEW c \in live
    PROVE  Find(c) = "true"
<1>1. c[1] \in regions /\ chunk[c].is_used
  BY DEF Findable, TrampolineInv, LiveChunksIntact
<1>2. is_initialized
  BY <1>1 DEF TrampolineInv, RegionsInUse
<1> QED
  BY <1>1, <1>2 DEF Find

(* A chunk is made. *)
LEMMA CreateKeeps ==
    ASSUME TrampolineInv, Chained, Jumps, Findable,
           NEW p, WellFormed(p), p.address \in Functions, p.code = code[p.address],
           NEW c \in Chunks, CreateReturns(p, c)
    PROVE  /\ TrampolineInv' /\ Chained' /\ Findable'
           /\ c \notin live /\ live' = live \cup {c}
           /\ chunk'[c].source = p
           /\ \A d \in live : chunk'[d] = chunk[d]
           /\ \A d \in Chunks : d \in live /\ code[p.address] # d /\ IsNewest(d) => IsNewest(d)'
           /\ IsNewest(c)'
<1>1. TrampolineInv'
  BY CreateInv DEF Create
<1>2. /\ c \notin live /\ live' = live \cup {c}
      /\ chunk' = [chunk EXCEPT ![c] = Used(p)]
  BY CreateEffect
<1>3. live \subseteq Chunks /\ chunk \in [Chunks -> Content]
  BY DEF TrampolineInv, TrampolineTypeOK
<1>4. chunk'[c].source = p /\ \A d \in live : chunk'[d] = chunk[d]
  BY <1>2, <1>3 DEF Used
<1>5. p.code # NoChunk => p.code \in live /\ chunk[p.code].source.address = p.address
  BY DEF Jumps
<1>6. Chained'
  <2>1. ASSUME NEW d \in live'
        PROVE  /\ chunk'[d].source.address \in Functions
               /\ chunk'[d].source.code # NoChunk =>
                    /\ chunk'[d].source.code \in live' \ {d}
                    /\ chunk'[chunk'[d].source.code].source.address = chunk'[d].source.address
    <3>1. CASE d = c
      BY <1>2, <1>4, <1>5, <3>1
    <3>2. CASE d \in live
      <4>1. chunk'[d].source = chunk[d].source
        BY <1>4, <3>2
      <4>2. chunk[d].source.code # NoChunk =>
              /\ chunk[d].source.code \in live \ {d}
              /\ chunk[chunk[d].source.code].source.address = chunk[d].source.address
        BY <3>2 DEF Chained
      <4>3. chunk[d].source.address \in Functions
        BY <3>2 DEF Chained
      <4> QED
        BY <1>2, <1>4, <4>1, <4>2, <4>3
    <3> QED
      BY <1>2, <2>1, <3>1, <3>2
  <2> QED
    BY <2>1 DEF Chained
<1>7. Findable'
  <2>1. fault' = fault
    BY DEF CreateReturns
  <2>2. "insert" \notin Faults => c[1] \in regions' /\ regions \subseteq regions'
    BY DEF CreateReturns, CreateInListed, CreateInNew, FindsChunk
  <2> QED
    BY <1>2, <2>1, <2>2 DEF Findable
<1>8. ASSUME NEW d \in Chunks, d \in live, code[p.address] # d, IsNewest(d)
      PROVE  IsNewest(d)'
  BY <1>2, <1>4, <1>8 DEF IsNewest
<1>9. IsNewest(c)'
  <2>1. \A d \in live : chunk[d].source.code # c
    BY <1>2, TrampolineAssumption DEF Chained
  <2>2. p.code # c
    BY <1>2, <1>5, TrampolineAssumption
  <2> QED
    BY <1>2, <1>4, <2>1, <2>2 DEF IsNewest
<1> QED
  BY <1>1, <1>2, <1>4, <1>6, <1>7, <1>8, <1>9

(* Create returns no chunk. *)
LEMMA CreateFailsKeeps ==
    ASSUME TrampolineInv, Chained, Findable,
           NEW p, WellFormed(p), CreateFails(p) \/ CreateFaults(p)
    PROVE  /\ TrampolineInv' /\ Chained' /\ Findable'
           /\ live' = live
           /\ \A d \in live : chunk'[d] = chunk[d]
<1>1. TrampolineInv'
  BY CreateInv DEF Create
<1>2. live' = live /\ regions' = regions /\ \A d \in live : chunk'[d] = chunk[d]
  BY CreateFailEffect
<1>3. Chained'
  BY <1>2 DEF Chained
<1>4. fault' \in {fault, "endless_search", "no_chunk_in_new_region"}
  BY DEF CreateFails, CreateFaults
<1>5. Findable'
  BY <1>2, <1>4 DEF Findable
<1> QED
  BY <1>1, <1>2, <1>3, <1>5

(* A chunk that no other was made from is freed, or is not. *)
LEMMA FreeKeeps ==
    ASSUME TrampolineInv, Chained, Findable, NEW c \in live, IsNewest(c), Free(c)
    PROVE  /\ TrampolineInv' /\ Chained' /\ Findable'
           /\ live' \subseteq live /\ live \ {c} \subseteq live'
           /\ \A d \in live' : chunk'[d] = chunk[d]
<1>1. TrampolineInv'
  BY FreeInv
<1>2. fault' = fault
  BY DEF Free, FreeReturns, FreeFails
<1>3. CASE UNCHANGED <<is_initialized, regions, mapped, unused, chunk, live>>
  BY <1>1, <1>2, <1>3 DEF Chained, Findable
<1>4. CASE /\ live' = live \ {c}
           /\ \A d \in live' : chunk'[d] = chunk[d]
           /\ \A d \in live' : d[1] \in regions => d[1] \in regions'
  <2>1. c \in Chunks
    BY DEF TrampolineInv, TrampolineTypeOK
  <2>2. \A d \in live' : chunk[d].source.code # c
    BY <1>4, <2>1 DEF IsNewest
  <2>3. Chained'
    <3> SUFFICES ASSUME NEW d \in live'
                 PROVE  /\ chunk'[d].source.address \in Functions
                        /\ chunk'[d].source.code # NoChunk =>
                             /\ chunk'[d].source.code \in live' \ {d}
                             /\ chunk'[chunk'[d].source.code].source.address
                                    = chunk'[d].source.address
      BY DEF Chained
    <3>1. d \in live /\ chunk'[d] = chunk[d] /\ chunk[d].source.code # c
      BY <1>4, <2>2
    <3>2. /\ chunk[d].source.address \in Functions
          /\ chunk[d].source.code # NoChunk =>
              /\ chunk[d].source.code \in live \ {d}
              /\ chunk[chunk[d].source.code].source.address = chunk[d].source.address
      BY <3>1 DEF Chained
    <3> QED
      BY <1>4, <3>1, <3>2
  <2>4. Findable'
    BY <1>2, <1>4 DEF Findable
  <2> QED
    BY <1>1, <1>4, <2>3, <2>4
<1> QED
  BY <1>3, <1>4, FreeEffect

-----------------------------------------------------------------------------
(* Nothing but the progress of threads through the interface changes. *)
LEMMA HooksKept ==
    ASSUME PointersInv, UNCHANGED <<tvars, code, original>>,
           ThreadsInv', HooksTyped', Operations', Pointers'
    PROVE  PointersInv'
<1>1. TrampolineInv'
  BY AllocatorKept DEF PointersInv, tvars
<1>2. Chained' /\ Jumps' /\ Findable'
  BY DEF PointersInv, tvars, Chained, Jumps, Findable
<1> QED
  BY <1>1, <1>2 DEF PointersInv

LEMMA SoundKept ==
    ASSUME UNCHANGED <<tvars, code, original>>
    PROVE  \A op : Sound(op) => Sound(op)'
BY DEF Sound, IsNewest, Unattached, Unreferenced, tvars

(* While a transaction is open, all of its operations are to be done. *)
LEMMA OpenToDo ==
    ASSUME ThreadsInv, NEW t \in Threads, pc[t] = "open"
    PROVE  /\ ToDo = DOMAIN pending_operations
           /\ \A u \in Threads : pc[u] \notin {"commit", "abort"}
<1>1. \A u \in Threads \ {t} : pc[u] \notin Owning
  BY OwnerAlone DEF Owning
<1>2. \A u \in Threads : pc[u] \notin {"commit", "abort"}
  BY <1>1 DEF Owning
<1> QED
  BY <1>2 DEF ToDo

(* The loops of CommitEx and Abort come to the next operation, or stop. *)
LEMMA LoopAdvances ==
    ASSUME ThreadsInv, HooksTyped, NEW t \in Threads, NEW place \in {"commit", "abort"},
           InLoop(t, place), UNCHANGED <<pc, pending_operations>>,
           Continues(t) \/ Stops(t)
    PROVE  /\ cursor[t] \in ToDo
           /\ ToDo' \subseteq {j \in ToDo : cursor[t] < j}
           /\ cursor' \in [Threads -> Nat]
<1>1. pc[t] = place /\ cursor[t] \in DOMAIN pending_operations
  BY DEF InLoop
<1>2. \A u \in Threads \ {t} : pc[u] \notin {"commit", "abort"}
  BY <1>1, OwnerAlone DEF Owning
<1>3. /\ Len(pending_operations) \in Nat
      /\ DOMAIN pending_operations = 1 .. Len(pending_operations)
      /\ cursor \in [Threads -> Nat]
  BY LenProperties DEF HooksTyped
<1>4. /\ cursor' \in [Threads -> Nat]
      /\ cursor'[t] \in {cursor[t] + 1, Len(pending_operations) + 1}
  BY <1>3 DEF Continues, Stops
<1>5. cursor[t] \in ToDo
  BY <1>1, <1>2, <1>3 DEF ToDo
<1>6. ASSUME NEW j \in ToDo' PROVE j \in ToDo /\ cursor[t] < j
  <2>1. j \in DOMAIN pending_operations /\ cursor'[t] <= j
    BY <1>1, <1>6 DEF ToDo
  <2>2. cursor[t] < j
    BY <1>1, <1>3, <1>4, <2>1
  <2>3. \A u \in Threads : pc[u] \in {"commit", "abort"} => u = t
    BY <1>2
  <2> QED
    BY <1>3, <2>1, <2>2, <2>3 DEF ToDo
<1> QED
  BY <1>4, <1>5, <1>6

(* The loops leave the operations alone. *)
LEMMA OperationsLeft ==
    ASSUME Operations, ToDo' \subseteq ToDo, UNCHANGED <<pc, pending_operations>>,
           NEW t \in Threads, pc[t] \in Owning,
           (\A i \in ToDo : Sound(pending_operations[i]))'
    PROVE  Operations'
<1>1. \A i, j \in ToDo' : i < j => InOrder(pending_operations[i], pending_operations[j])
  BY DEF Operations
<1>2. (\E u \in Threads : pc[u] = "abort") =>
        \A i \in ToDo' : pending_operations[i].action = "attach"
  BY DEF Operations
<1> QED
  BY <1>1, <1>2 DEF Operations, InOrder

-----------------------------------------------------------------------------
LEMMA InstallKeeps ==
    ASSUME PointersInv, ThreadsInv', Careful,
           NEW t \in Threads, NEW k \in Clients, Install(t, k)
    PROVE  PointersInv'
<1> DEFINE p == Current(Target[k])
           a == Target[k].address
           ops == pending_operations
<1>1. /\ pc[t] = "open" /\ pc' = pc /\ cursor' = cursor /\ code' = code
      /\ original[k] = NoChunk /\ ~HasPending(a)
  BY DEF Install, InTransaction, claim_vars, Careful, ContractRules
<1>2. /\ TrampolineInv /\ ThreadsInv /\ HooksTyped /\ Chained /\ Jumps /\ Operations
      /\ Pointers /\ Findable
  BY DEF PointersInv
<1>3. /\ ToDo = DOMAIN ops
      /\ \A u \in Threads : pc[u] \notin {"commit", "abort"}
  BY <1>1, <1>2, OpenToDo
<1>4. ToDo' = DOMAIN ops'
  BY <1>1, <1>3 DEF ToDo
<1>5. Target[k] \in Prologues
  BY TransactionAssumption
<1>6. WellFormed(p) /\ a \in Functions /\ p.address = a /\ p.code = code[a]
  BY <1>2, <1>5, CurrentWellFormed DEF HooksTyped
<1> HIDE DEF p
<1>7. /\ ops \in Seq(Operation) /\ Len(ops) \in Nat /\ DOMAIN ops = 1 .. Len(ops)
      /\ \A i \in DOMAIN ops : ops[i] \in Operation
  BY <1>2, LenProperties DEF HooksTyped
<1>8. \A j \in Clients : original[j] # NoChunk => original[j] \in live
  BY <1>2, <1>3 DEF Pointers
<1>9. CASE /\ CreateFails(p) \/ CreateFaults(p)
           /\ UNCHANGED <<pending_operations, original>>
  <2>1. /\ TrampolineInv' /\ Chained' /\ Findable'
        /\ live' = live
        /\ \A d \in live : chunk'[d] = chunk[d]
    BY <1>2, <1>6, <1>9, CreateFailsKeeps
  <2>2. Jumps' /\ Pointers' /\ HooksTyped'
    BY <1>1, <1>2, <1>9, <2>1 DEF Jumps, Pointers, HooksTyped
  <2>3. \A op \in Operation : Sound(op) => Sound(op)'
    BY <1>1, <1>9, <2>1 DEF Sound, IsNewest, Unattached, Unreferenced
  <2>4. Operations'
    <3>1. (\A i \in ToDo : Sound(pending_operations[i]))'
      BY <1>2, <1>3, <1>4, <1>7, <1>9, <2>3 DEF Operations
    <3>2. ToDo' \subseteq ToDo
      BY <1>3, <1>4, <1>9
    <3> QED
      BY <1>1, <1>2, <1>9, <3>1, <3>2, OperationsLeft DEF Owning
  <2> QED
    BY <2>1, <2>2, <2>4 DEF PointersInv
<1>10. ASSUME NEW c \in Chunks, CreateReturns(p, c), Delivers(k, c),
              Pushes("attach", p.address, c) \/ UNCHANGED pending_operations
       PROVE  PointersInv'
  <2>1. /\ TrampolineInv' /\ Chained' /\ Findable'
        /\ c \notin live /\ live' = live \cup {c}
        /\ chunk'[c].source = p
        /\ \A d \in live : chunk'[d] = chunk[d]
        /\ \A d \in Chunks : d \in live /\ code[p.address] # d /\ IsNewest(d) => IsNewest(d)'
        /\ IsNewest(c)'
    BY <1>2, <1>6, <1>10, CreateKeeps
  <2>2. original' = [original EXCEPT ![k] = c]
    BY <1>10 DEF Delivers
  <2>3. Jumps'
    BY <1>1, <1>2, <2>1 DEF Jumps
  <2>4. Pointers'
    <3>1. /\ original'[k] = c
          /\ \A j \in Clients \ {k} : original'[j] = original[j]
      BY <1>2, <2>2 DEF HooksTyped
    <3>2. \A j \in Clients \ {k} : original[j] # c
      BY <1>8, <2>1, TrampolineAssumption
    <3>3. \A i, j \in Clients : original'[i] = original'[j] /\ original'[j] # NoChunk => i = j
      BY <1>2, <3>1, <3>2 DEF Pointers
    <3>4. \A j \in Clients : original'[j] # NoChunk => original'[j] \in live'
      BY <1>8, <2>1, <3>1
    <3> QED
      BY <3>3, <3>4 DEF Pointers
  <2>5. ASSUME NEW op \in Operation, Sound(op), op.address # a
        PROVE  Sound(op)' /\ op.trampoline # c
    <3>1. op.trampoline \in live /\ op.trampoline \in Chunks /\ op.trampoline # c
      BY <2>1, <2>5 DEF Sound, Operation
    <3>2. chunk'[op.trampoline].source.address = op.address
      BY <2>1, <2>5 DEF Sound
    <3>3. code[a] # op.trampoline
      BY <1>2, <1>6, <2>5, <3>1, TrampolineAssumption DEF Jumps, Sound
    <3>4. IsNewest(op.trampoline)'
      BY <1>6, <2>1, <2>5, <3>1, <3>3 DEF Sound
    <3>5. op.action = "attach" => Unattached(op.trampoline)'
      BY <1>1, <2>5 DEF Sound, Unattached
    <3>6. op.action = "remove" => Unreferenced(op.trampoline)'
      BY <1>2, <2>2, <2>5, <3>1 DEF Sound, Unreferenced, HooksTyped
    <3> QED
      BY <2>1, <3>1, <3>2, <3>4, <3>5, <3>6 DEF Sound
  <2>6. \A i \in DOMAIN ops : /\ ops[i] \in Operation /\ Sound(ops[i]) /\ ops[i].address # a
    BY <1>1, <1>2, <1>3, <1>7 DEF Operations, HasPending
  <2>7. CASE UNCHANGED pending_operations
    <3>1. Operations'
      <4>1. (\A i \in ToDo : Sound(pending_operations[i]))'
        BY <1>4, <2>5, <2>6, <2>7
      <4>2. ToDo' \subseteq ToDo
        BY <1>3, <1>4, <2>7
      <4> QED
        BY <1>1, <1>2, <2>7, <4>1, <4>2, OperationsLeft DEF Owning
    <3>2. HooksTyped'
      BY <1>1, <1>2, <2>2, <2>7 DEF HooksTyped
    <3> QED
      BY <2>1, <2>3, <2>4, <3>1, <3>2 DEF PointersInv
  <2>8. CASE Pushes("attach", p.address, c)
    <3> DEFINE new == [action |-> "attach", address |-> a, trampoline |-> c]
               n == Len(ops) + 1
    <3>1. ops' = Append(ops, new)
      BY <1>6, <2>8 DEF Pushes
    <3>2. new \in Operation /\ new.action = "attach" /\ new.address = a /\ new.trampoline = c
      BY <1>6 DEF Operation
    <3> HIDE DEF new
    <3>3. /\ ops' \in Seq(Operation) /\ DOMAIN ops' = 1 .. n
          /\ \A i \in DOMAIN ops : ops'[i] = ops[i]
          /\ ops'[n] = new
      BY <1>7, <3>1, <3>2, AppendProperties, LenProperties
    <3>4. Unattached(c)'
      BY <1>1, <1>2, <2>1, TrampolineAssumption DEF Unattached, Jumps
    <3>5. Sound(new)'
      BY <1>6, <2>1, <3>2, <3>4 DEF Sound
    <3>6. \A i \in ToDo' : i \in DOMAIN ops \/ i = n
      BY <1>4, <1>7, <3>3
    <3>7. (\A i \in ToDo : Sound(pending_operations[i]))'
      BY <2>5, <2>6, <3>3, <3>5, <3>6
    <3>8. ASSUME NEW i \in ToDo', NEW j \in ToDo', i < j
          PROVE  InOrder(ops'[i], ops'[j])
      <4>1. i \in DOMAIN ops
        BY <1>4, <1>7, <3>3, <3>8
      <4>2. CASE j \in DOMAIN ops
        BY <1>2, <1>3, <3>3, <3>8, <4>1, <4>2 DEF Operations
      <4>3. CASE j = n
        BY <2>5, <2>6, <3>2, <3>3, <4>1, <4>3 DEF InOrder
      <4> QED
        BY <3>6, <4>2, <4>3
    <3>9. Operations'
      BY <1>1, <1>3, <3>7, <3>8 DEF Operations, Owning, InOrder
    <3>10. HooksTyped'
      BY <1>1, <1>2, <2>2, <3>3 DEF HooksTyped
    <3> QED
      BY <2>1, <2>3, <2>4, <3>9, <3>10 DEF PointersInv
  <2> QED
    BY <1>10, <2>7, <2>8
<1> QED
  BY <1>9, <1>10 DEF Install, p

LEMMA RemoveKeeps ==
    ASSUME PointersInv, ThreadsInv', Careful,
           NEW t \in Threads, NEW k \in Clients, Remove(t, k)
    PROVE  PointersInv'
<1> DEFINE c == original[k]
           ops == pending_operations
<1>1. /\ pc[t] = "open" /\ UNCHANGED <<pc, cursor, code>>
      /\ c \in live /\ IsNewest(c)
      /\ UNCHANGED <<is_initialized, regions, mapped, unused, chunk, live>>
  BY DEF Remove, InTransaction, claim_vars, Careful, ContractRules
<1>2. /\ TrampolineInv /\ ThreadsInv /\ HooksTyped /\ Chained /\ Jumps /\ Operations
      /\ Pointers /\ Findable
  BY DEF PointersInv
<1>3. /\ ToDo = DOMAIN ops
      /\ \A u \in Threads : pc[u] \notin {"commit", "abort"}
  BY <1>1, <1>2, OpenToDo
<1>4. ToDo' = DOMAIN ops'
  BY <1>1, <1>3 DEF ToDo
<1>5. c \in Chunks /\ c # NoChunk
  BY <1>1, <1>2, TrampolineAssumption DEF TrampolineInv, TrampolineTypeOK
<1>6. /\ ops \in Seq(Operation) /\ Len(ops) \in Nat /\ DOMAIN ops = 1 .. Len(ops)
      /\ \A i \in DOMAIN ops : ops[i] \in Operation
  BY <1>2, LenProperties DEF HooksTyped
<1>7. TrampolineInv' /\ Chained' /\ Jumps'
  BY <1>1, <1>2, AllocatorKept DEF Chained, Jumps
<1>8. \/ /\ ReceivesTarget(k)
         /\ \/ Pushes("remove", chunk[c].source.address, c)
            \/ UNCHANGED pending_operations
         /\ UNCHANGED fault
      \/ /\ Find(c) = "false"
         /\ fault' = "uninitialized_pointer"
         /\ UNCHANGED <<pending_operations, original>>
  BY <1>5 DEF Remove
<1>9. CASE /\ Find(c) = "false"
           /\ fault' = "uninitialized_pointer"
           /\ UNCHANGED <<pending_operations, original>>
  <2>1. Findable'
    BY <1>1, <1>2, <1>9, FindFinds DEF Findable
  <2>2. HooksTyped' /\ Pointers'
    BY <1>1, <1>2, <1>9 DEF HooksTyped, Pointers
  <2>3. \A op : Sound(op) => Sound(op)'
    BY <1>1, <1>9 DEF Sound, IsNewest, Unattached, Unreferenced
  <2>4. (\A i \in ToDo : Sound(pending_operations[i]))' /\ ToDo' \subseteq ToDo
    BY <1>2, <1>3, <1>4, <1>9, <2>3 DEF Operations
  <2>5. Operations'
    BY <1>1, <1>2, <1>9, <2>4, OperationsLeft DEF Owning
  <2> QED
    BY <1>7, <2>1, <2>2, <2>5 DEF PointersInv
<1>10. CASE /\ ReceivesTarget(k)
            /\ \/ Pushes("remove", chunk[c].source.address, c)
               \/ UNCHANGED pending_operations
            /\ UNCHANGED fault
  <2>1. Findable'
    BY <1>1, <1>2, <1>10 DEF Findable
  <2>2. /\ original'[k] = NoChunk /\ \A j \in Clients \ {k} : original'[j] = original[j]
        /\ original' \in [Clients -> Chunks \cup {NoChunk}]
    BY <1>2, <1>10 DEF ReceivesTarget, HooksTyped
  <2>3. Pointers'
    BY <1>1, <1>2, <1>3, <2>2 DEF Pointers
  <2>4. \A op \in Operation : Sound(op) => Sound(op)'
    <3> SUFFICES ASSUME NEW op \in Operation, Sound(op) PROVE Sound(op)'
      OBVIOUS
    <3>1. op.trampoline # NoChunk
      BY TrampolineAssumption DEF Operation
    <3>2. op.action = "remove" => Unreferenced(op.trampoline)'
      BY <2>2, <3>1 DEF Sound, Unreferenced
    <3>3. IsNewest(op.trampoline)' /\ (op.action = "attach" => Unattached(op.trampoline)')
      BY <1>1 DEF Sound, IsNewest, Unattached
    <3> QED
      BY <1>1, <3>2, <3>3 DEF Sound
  <2>5. \A i \in DOMAIN ops : ops[i] \in Operation /\ Sound(ops[i])
    BY <1>2, <1>3, <1>6 DEF Operations
  <2>6. CASE UNCHANGED pending_operations
    <3>1. (\A i \in ToDo : Sound(pending_operations[i]))' /\ ToDo' \subseteq ToDo
      BY <1>3, <1>4, <2>4, <2>5, <2>6
    <3>2. Operations'
      BY <1>1, <1>2, <2>6, <3>1, OperationsLeft DEF Owning
    <3>3. HooksTyped'
      BY <1>1, <1>2, <2>2, <2>6 DEF HooksTyped
    <3> QED
      BY <1>7, <2>1, <2>3, <3>2, <3>3 DEF PointersInv
  <2>7. CASE Pushes("remove", chunk[c].source.address, c)
    <3>1. PICK new : /\ new = [action |-> "remove", address |-> chunk[c].source.address,
                               trampoline |-> c]
                     /\ ops' = Append(ops, new)
      BY <2>7 DEF Pushes
    <3>2. /\ new \in Operation /\ new.action = "remove" /\ new.trampoline = c
          /\ new.address = chunk[c].source.address
      BY <1>1, <1>2, <1>5, <3>1 DEF Operation, Chained
    <3> DEFINE n == Len(ops) + 1
    <3>3. /\ ops' \in Seq(Operation) /\ DOMAIN ops' = 1 .. n
          /\ \A i \in DOMAIN ops : ops'[i] = ops[i]
          /\ ops'[n] = new
      BY <1>6, <3>1, <3>2, AppendProperties, LenProperties
    <3>4. \A j \in Clients : original'[j] # c
      BY <1>2, <1>5, <2>2 DEF Pointers
    <3>5. Sound(new)'
      BY <1>1, <3>2, <3>4 DEF Sound, IsNewest, Unreferenced
    <3>6. \A i \in ToDo' : i \in DOMAIN ops \/ i = n
      BY <1>4, <1>6, <3>3
    <3>7. (\A i \in ToDo : Sound(pending_operations[i]))'
      BY <2>4, <2>5, <3>3, <3>5, <3>6
    <3>8. ASSUME NEW i \in ToDo', NEW j \in ToDo', i < j
          PROVE  InOrder(ops'[i], ops'[j])
      <4>1. i \in DOMAIN ops
        BY <1>4, <1>6, <3>3, <3>8
      <4>2. CASE j \in DOMAIN ops
        BY <1>2, <1>3, <3>3, <3>8, <4>1, <4>2 DEF Operations
      <4>3. CASE j = n
        <5>1. ops'[i] = ops[i] /\ ops'[j] = new
          BY <3>3, <4>1, <4>3
        <5>2. ops[i].trampoline = c => ops[i].action # "remove"
          BY <2>5, <4>1 DEF Sound, Unreferenced
        <5>3. ops[i].action \in {"attach", "remove"}
          BY <2>5, <4>1 DEF Operation
        <5> QED
          BY <3>2, <5>1, <5>2, <5>3 DEF InOrder
      <4> QED
        BY <3>6, <4>2, <4>3
    <3>9. Operations'
      BY <1>1, <1>3, <3>7, <3>8 DEF Operations, Owning, InOrder
    <3>10. HooksTyped'
      BY <1>1, <1>2, <2>2, <3>3 DEF HooksTyped
    <3> QED
      BY <1>7, <2>1, <2>3, <3>9, <3>10 DEF PointersInv
  <2> QED
    BY <1>10, <2>6, <2>7
<1> QED
  BY <1>8, <1>9, <1>10

(* One round of the loop of CommitEx. *)
LEMMA CommitStepKeeps ==
    ASSUME PointersInv, ThreadsInv', NEW t \in Threads, CommitStep(t)
    PROVE  PointersInv'
<1> DEFINE i == cursor[t]
           ops == pending_operations
<1>1. PICK op : /\ op = ops[i]
                /\ CommitAttach(t, op) \/ CommitRemove(t, op)
  BY DEF CommitStep
<1>2. /\ InLoop(t, "commit") /\ UNCHANGED <<pc, pending_operations, original>>
  BY DEF CommitStep
<1>3. /\ TrampolineInv /\ ThreadsInv /\ HooksTyped /\ Chained /\ Jumps /\ Operations
      /\ Pointers /\ Findable
  BY DEF PointersInv
<1>4. pc[t] = "commit" /\ i \in DOMAIN ops /\ pc[t] \in Owning
  BY <1>2 DEF InLoop, Owning
<1>5. i \in ToDo
  <2>1. \A u \in Threads \ {t} : pc[u] \notin Owning
    BY <1>3, <1>4, OwnerAlone
  <2>2. i \in Nat
    BY <1>3 DEF HooksTyped
  <2>3. \A u \in Threads : pc[u] \in {"commit", "abort"} => cursor[u] <= i
    BY <2>1, <2>2 DEF Owning
  <2> QED
    BY <1>4, <2>3 DEF ToDo
<1>6. Sound(op) /\ op \in Operation
  <2>1. \A j \in DOMAIN ops : ops[j] \in Operation
    BY <1>3, LenProperties DEF HooksTyped
  <2> QED
    BY <1>1, <1>3, <1>4, <1>5, <2>1 DEF Operations
<1>7. /\ op.trampoline \in live /\ op.trampoline \in Chunks
      /\ op.address \in Functions
      /\ chunk[op.trampoline].source.address = op.address
  BY <1>6 DEF Sound, Operation
<1>8. ~ReadsFreedMemory(op.trampoline)
  BY <1>3, <1>7 DEF ReadsFreedMemory, TrampolineInv, LiveChunksIntact
<1>9. Continues(t) \/ Stops(t)
  BY <1>1, <1>8 DEF CommitAttach, CommitRemove
<1>10. /\ ToDo' \subseteq {j \in ToDo : i < j}
       /\ cursor' \in [Threads -> Nat]
  BY <1>2, <1>3, <1>9, LoopAdvances
<1>11. /\ ToDo' \subseteq ToDo
       /\ \A j \in ToDo' : /\ ops[j] \in Operation /\ Sound(ops[j])
                           /\ InOrder(op, ops[j])
  <2>1. \A j \in DOMAIN ops : ops[j] \in Operation
    BY <1>3, LenProperties DEF HooksTyped
  <2>2. \A j \in ToDo : j \in DOMAIN ops
    BY DEF ToDo
  <2> QED
    BY <1>1, <1>3, <1>5, <1>10, <2>1, <2>2 DEF Operations
<1>12. CASE CommitAttach(t, op)
  <2>1. UNCHANGED tvars /\ op.action = "attach"
    BY <1>8, <1>12 DEF CommitAttach
  <2>2. code' = code \/ code' = [code EXCEPT ![op.address] = op.trampoline]
    BY <1>8, <1>12 DEF CommitAttach, WritesCode, WriteFails
  <2>3. HooksTyped'
    BY <1>2, <1>3, <1>7, <1>10, <2>2 DEF HooksTyped
  <2>4. TrampolineInv' /\ Chained' /\ Findable' /\ Pointers'
    BY <1>2, <1>3, <2>1, AllocatorKept DEF tvars, Chained, Findable, Pointers
  <2>5. \A a \in Functions : code'[a] = code[a] \/ (a = op.address /\ code'[a] = op.trampoline)
    BY <1>3, <2>2 DEF HooksTyped
  <2>6. Jumps'
    BY <1>3, <1>7, <2>1, <2>5 DEF Jumps, tvars
  <2>7. \A next \in Operation : Sound(next) /\ InOrder(op, next) => Sound(next)'
    <3> SUFFICES ASSUME NEW next \in Operation, Sound(next), InOrder(op, next)
                 PROVE  Sound(next)'
      OBVIOUS
    <3>1. next.action = "attach" => Unattached(next.trampoline)'
      BY <2>5 DEF Sound, InOrder, Unattached
    <3>2. IsNewest(next.trampoline)' /\ (next.action = "remove" => Unreferenced(next.trampoline)')
      BY <1>2, <2>1 DEF Sound, IsNewest, Unreferenced, tvars
    <3> QED
      BY <2>1, <3>1, <3>2 DEF Sound, tvars
  <2>8. (\A j \in ToDo : Sound(pending_operations[j]))'
    BY <1>2, <1>11, <2>7
  <2>9. Operations'
    BY <1>2, <1>3, <1>4, <1>11, <2>8, OperationsLeft
  <2> QED
    BY <2>3, <2>4, <2>6, <2>9 DEF PointersInv
<1>13. CASE CommitRemove(t, op)
  <2> DEFINE c == op.trampoline
             s == chunk[c].source.code
  <2>1. op.action = "remove" /\ IsNewest(c) /\ Unreferenced(c)
    BY <1>6, <1>13 DEF CommitRemove, Sound
  <2>2. /\ s # NoChunk => s \in live /\ s # c /\ chunk[s].source.address = op.address
        /\ s \in Chunks \cup {NoChunk}
    <3>1. live \subseteq Chunks
      BY <1>3 DEF TrampolineInv, TrampolineTypeOK
    <3> QED
      BY <1>3, <1>7, <3>1 DEF Chained
  <2>3. code' = code \/ code' = [code EXCEPT ![op.address] = s]
    BY <1>8, <1>13 DEF CommitRemove, WritesCode, WriteFails
  <2>4. UNCHANGED tvars \/ (code' = [code EXCEPT ![op.address] = s] /\ Free(c))
    BY <1>8, <1>13 DEF CommitRemove, WritesCode, Free
  <2>5. /\ TrampolineInv' /\ Chained' /\ Findable'
        /\ live' \subseteq live /\ live \ {c} \subseteq live'
        /\ \A d \in live' : chunk'[d] = chunk[d]
    <3>1. CASE UNCHANGED tvars
      BY <1>3, <3>1, AllocatorKept DEF tvars, Chained, Findable
    <3>2. CASE Free(c)
      BY <1>3, <1>7, <2>1, <3>2, FreeKeeps
    <3> QED
      BY <2>4, <3>1, <3>2
  <2>6. \A a \in Functions : /\ code'[a] = code[a] \/ (a = op.address /\ code'[a] = s)
                             /\ a = op.address /\ ~UNCHANGED tvars => code'[a] = s
    BY <1>3, <2>3, <2>4 DEF HooksTyped
  <2>7. c # NoChunk
    BY <1>7, TrampolineAssumption
  <2> HIDE DEF s
  <2>8. HooksTyped'
    BY <1>2, <1>3, <1>7, <1>10, <2>2, <2>3 DEF HooksTyped
  <2>9. Jumps'
    <3> SUFFICES ASSUME NEW a \in Functions, code'[a] # NoChunk
                 PROVE  code'[a] \in live' /\ chunk'[code'[a]].source.address = a
      BY DEF Jumps
    <3>1. code'[a] \in live /\ chunk[code'[a]].source.address = a
      BY <1>3, <2>2, <2>6 DEF Jumps
    <3>2. CASE UNCHANGED tvars
      BY <3>1, <3>2 DEF tvars
    <3>3. CASE ~UNCHANGED tvars
      <4>1. code'[a] # c
        BY <1>7, <2>2, <2>6, <3>1, <3>3
      <4> QED
        BY <2>5, <3>1, <4>1
    <3> QED
      BY <3>2, <3>3
  <2>10. Pointers'
    BY <1>2, <1>3, <2>1, <2>5 DEF Pointers, Unreferenced
  <2>11. \A next \in Operation : Sound(next) /\ InOrder(op, next) => Sound(next)'
    <3> SUFFICES ASSUME NEW next \in Operation, Sound(next), InOrder(op, next)
                 PROVE  Sound(next)'
      OBVIOUS
    <3>1. next.trampoline # c /\ next.trampoline \in live /\ next.trampoline \in Chunks
      BY <2>1 DEF Sound, InOrder, Operation
    <3>2. next.trampoline \in live'
      BY <2>5, <3>1
    <3>3. s # next.trampoline
      BY <1>7, <3>1 DEF Sound, IsNewest, s
    <3>4. next.action = "attach" => Unattached(next.trampoline)'
      BY <2>6, <3>3 DEF Sound, Unattached
    <3>5. IsNewest(next.trampoline)' /\ (next.action = "remove" => Unreferenced(next.trampoline)')
      BY <1>2, <2>5 DEF Sound, IsNewest, Unreferenced
    <3> QED
      BY <2>5, <3>2, <3>4, <3>5 DEF Sound
  <2>12. (\A j \in ToDo : Sound(pending_operations[j]))'
    BY <1>2, <1>11, <2>11
  <2>13. Operations'
    BY <1>2, <1>3, <1>4, <1>11, <2>12, OperationsLeft
  <2> QED
    BY <2>5, <2>8, <2>9, <2>10, <2>13 DEF PointersInv
<1> QED
  BY <1>1, <1>12, <1>13

(* One round of the loop of Abort. *)
LEMMA AbortStepKeeps ==
    ASSUME PointersInv, ThreadsInv', NEW t \in Threads, AbortStep(t)
    PROVE  PointersInv'
<1> DEFINE i == cursor[t]
           ops == pending_operations
           op == ops[i]
<1>1. PICK c : c = op.trampoline /\ Free(c)
  BY DEF AbortStep
<1>2. /\ InLoop(t, "abort") /\ Continues(t)
      /\ UNCHANGED <<pc, pending_operations, original, code>>
  BY DEF AbortStep, hook_vars
<1>3. /\ TrampolineInv /\ ThreadsInv /\ HooksTyped /\ Chained /\ Jumps /\ Operations
      /\ Pointers /\ Findable
  BY DEF PointersInv
<1>4. pc[t] = "abort" /\ pc[t] \in Owning
  BY <1>2 DEF InLoop, Owning
<1>5. /\ i \in ToDo
      /\ ToDo' \subseteq {j \in ToDo : i < j}
      /\ cursor' \in [Threads -> Nat]
  BY <1>2, <1>3, LoopAdvances
<1>6. \A j \in DOMAIN ops : ops[j] \in Operation
  BY <1>3, LenProperties DEF HooksTyped
<1>7. \A j \in ToDo : j \in DOMAIN ops
  BY DEF ToDo
<1>8. Sound(op) /\ op \in Operation /\ op.action = "attach"
  BY <1>3, <1>4, <1>5, <1>6, <1>7 DEF Operations
<1>9. c \in live /\ c \in Chunks /\ IsNewest(c) /\ Unattached(c)
  BY <1>1, <1>8 DEF Sound, Operation
<1>10. /\ TrampolineInv' /\ Chained' /\ Findable'
       /\ live' \subseteq live /\ live \ {c} \subseteq live'
       /\ \A d \in live' : chunk'[d] = chunk[d]
  BY <1>1, <1>3, <1>9, FreeKeeps
<1>11. HooksTyped' /\ Pointers'
  BY <1>2, <1>3, <1>4, <1>5 DEF HooksTyped, Pointers
<1>12. Jumps'
  BY <1>2, <1>3, <1>9, <1>10 DEF Jumps, Unattached
<1>13. \A next \in Operation : Sound(next) /\ next.trampoline # c => Sound(next)'
  BY <1>2, <1>10 DEF Sound, IsNewest, Unattached, Unreferenced
<1>14. \A j \in ToDo' : /\ j \in ToDo /\ ops[j] \in Operation /\ Sound(ops[j])
                        /\ ops[j].trampoline # c
  <2> SUFFICES ASSUME NEW j \in ToDo'
               PROVE  /\ j \in ToDo /\ ops[j] \in Operation /\ Sound(ops[j])
                      /\ ops[j].trampoline # c
    OBVIOUS
  <2>1. j \in ToDo /\ i < j
    BY <1>5
  <2>2. Sound(ops[j]) /\ InOrder(op, ops[j]) /\ ops[j].action = "attach"
    BY <1>3, <1>4, <1>5, <2>1 DEF Operations
  <2> QED
    BY <1>1, <1>6, <1>7, <2>1, <2>2 DEF InOrder
<1>15. (\A j \in ToDo : Sound(pending_operations[j]))' /\ ToDo' \subseteq ToDo
  BY <1>2, <1>13, <1>14
<1>16. Operations'
  BY <1>2, <1>3, <1>4, <1>15, OperationsLeft
<1> QED
  BY <1>10, <1>11, <1>12, <1>16 DEF PointersInv

LEMMA StartKeeps ==
    ASSUME PointersInv, ThreadsInv', Careful, NEW t \in Threads, CommitStarts(t) \/ AbortStarts(t)
    PROVE  PointersInv'
<1>1. PICK place \in {"commit", "abort"} :
        /\ pc[t] = "open" /\ pc' = [pc EXCEPT ![t] = place]
        /\ place = "abort" => \A i \in DOMAIN pending_operations :
                                pending_operations[i].action = "attach"
  BY DEF CommitStarts, AbortStarts, Goes, Careful, ContractRules
<1>2. /\ cursor' = [cursor EXCEPT ![t] = 1]
      /\ UNCHANGED <<tvars, pending_operations, code, original>>
  BY DEF CommitStarts, AbortStarts, hook_vars
<1>3. ThreadsInv /\ HooksTyped /\ Operations /\ Pointers
  BY DEF PointersInv
<1>4. ToDo = DOMAIN pending_operations /\ ToDo' \subseteq ToDo
  <2>1. ToDo = DOMAIN pending_operations
    BY <1>1, <1>3, OpenToDo
  <2> QED
    BY <1>2, <2>1 DEF ToDo
<1>5. /\ pc'[t] = place
      /\ \A u \in Threads : pc[u] \notin {"commit", "abort"}
      /\ \A u \in Threads : pc'[u] = "abort" => u = t
  BY <1>1, <1>3, OpenToDo DEF ThreadsInv
<1>6. HooksTyped'
  BY <1>2, <1>3 DEF HooksTyped
<1>7. Pointers'
  BY <1>2, <1>3, <1>5 DEF Pointers, tvars
<1>8. (\A i \in ToDo : Sound(pending_operations[i]))'
  BY <1>2, <1>3, <1>4, SoundKept DEF Operations
<1>9. \A i, j \in ToDo' : i < j => InOrder(pending_operations[i], pending_operations[j])
  BY <1>3, <1>4 DEF Operations
<1>10. place = "abort" => \A i \in ToDo' : pending_operations[i].action = "attach"
  BY <1>1, <1>4
<1>11. Operations'
  BY <1>2, <1>5, <1>8, <1>9, <1>10 DEF Operations, Owning, InOrder
<1> QED
  BY <1>2, <1>6, <1>7, <1>11, HooksKept

(* The end of CommitEx or Abort: a client forgets what Abort freed. *)
LEMMA EndKeeps ==
    ASSUME PointersInv, ThreadsInv', Careful, NEW t \in Threads, CommitEnd(t) \/ AbortEnd(t)
    PROVE  PointersInv'
<1>1. /\ pending_operations' = <<>>
      /\ UNCHANGED <<tvars, cursor, code>>
  BY DEF CommitEnd, AbortEnd
<1>2. /\ TrampolineInv /\ ThreadsInv /\ HooksTyped /\ Chained /\ Jumps /\ Operations
      /\ Pointers /\ Findable
  BY DEF PointersInv
<1>3. TrampolineInv' /\ Chained' /\ Jumps' /\ Findable'
  BY <1>1, <1>2, AllocatorKept DEF Chained, Jumps, Findable, tvars
<1>4. ToDo' = {} /\ <<>> \in Seq(Operation)
  BY <1>1, EmptySeq DEF ToDo
<1>5. Operations'
  BY <1>1, <1>4 DEF Operations
<1>6. live' = live /\ live \subseteq Chunks
  BY <1>1, <1>2 DEF tvars, TrampolineInv, TrampolineTypeOK
<1>7. CASE CommitEnd(t)
  <2>1. pc[t] = "commit" /\ pc[t] \in Owning /\ UNCHANGED original
    BY <1>7 DEF CommitEnd, AtEnd, Goes, Owning
  <2>2. \A u \in Threads : pc[u] # "abort"
    BY <1>2, <2>1, OwnerAlone DEF Owning
  <2>3. Pointers' /\ HooksTyped'
    BY <1>1, <1>2, <1>4, <1>6, <2>1, <2>2 DEF Pointers, HooksTyped
  <2> QED
    BY <1>3, <1>5, <2>3 DEF PointersInv
<1>8. CASE AbortEnd(t)
  <2>1. original' = [k \in Clients |-> IF original[k] \notin live THEN NoChunk ELSE original[k]]
    BY <1>8 DEF AbortEnd, Careful, ContractRules
  <2>2. \A k \in Clients : original'[k] # NoChunk =>
            original'[k] \in live /\ original'[k] = original[k]
    BY <2>1
  <2>3. Pointers' /\ HooksTyped'
    BY <1>1, <1>2, <1>4, <1>6, <2>1, <2>2 DEF Pointers, HooksTyped
  <2> QED
    BY <1>3, <1>5, <2>3 DEF PointersInv
<1> QED
  BY <1>7, <1>8

LEMMA BeginKeeps ==
    ASSUME PointersInv, ThreadsInv', NEW t \in Threads, Begin(t)
    PROVE  PointersInv'
<1>1. /\ pc[t] \in {"idle", "checked", "claimed"}
      /\ \E to \in {"idle", "checked", "claimed", "open"} : pc' = [pc EXCEPT ![t] = to]
      /\ UNCHANGED <<tvars, cursor, code, original>>
  BY DEF Begin, BeginChecks, BeginClaims, BeginIsLate, BeginReturns, BeginFails, Goes, hook_vars
<1>2. ThreadsInv /\ HooksTyped /\ Operations /\ Pointers
  BY DEF PointersInv
<1>3. \A u \in Threads : \A place \in {"commit", "abort"} : pc'[u] = place <=> pc[u] = place
  BY <1>1, <1>2 DEF ThreadsInv
<1>4. Pointers'
  BY <1>1, <1>2, <1>3 DEF Pointers, tvars
<1>5. CASE BeginReturns(t)
  <2>1. pending_operations' = <<>> /\ ToDo' = {} /\ <<>> \in Seq(Operation)
    BY <1>5, EmptySeq DEF BeginReturns, ToDo
  <2>2. Operations' /\ HooksTyped'
    BY <1>1, <1>2, <2>1 DEF Operations, HooksTyped
  <2> QED
    BY <1>1, <1>4, <2>2, HooksKept
<1>6. CASE ~BeginReturns(t)
  <2>1. UNCHANGED pending_operations /\ pc'[t] # "open"
    BY <1>2, <1>6 DEF Begin, BeginChecks, BeginClaims, BeginIsLate, BeginReturns, BeginFails,
                      Goes, hook_vars, ThreadsInv
  <2>2. ToDo' = ToDo
    BY <1>1, <1>3, <2>1 DEF ToDo
  <2>3. (\A u \in Threads : pc'[u] \notin Owning) => \A u \in Threads : pc[u] \notin Owning
    BY <1>1, <1>2, <2>1 DEF ThreadsInv, Owning
  <2>4. (\A i \in ToDo : Sound(pending_operations[i]))'
    BY <1>1, <1>2, <2>1, <2>2, SoundKept DEF Operations
  <2>5. Operations'
    BY <1>2, <1>3, <2>1, <2>2, <2>3, <2>4 DEF Operations, InOrder
  <2>6. HooksTyped'
    BY <1>1, <1>2, <2>1 DEF HooksTyped
  <2> QED
    BY <1>1, <1>4, <2>5, <2>6, HooksKept
<1> QED
  BY <1>5, <1>6

LEMMA OtherKeeps ==
    ASSUME PointersInv, ThreadsInv', UNCHANGED <<tvars, claim_vars, hook_vars>>
    PROVE  PointersInv'
<1>1. UNCHANGED <<pc, cursor, pending_operations, code, original>> /\ UNCHANGED tvars
  BY DEF claim_vars, hook_vars
<1>2. HooksTyped /\ Operations /\ Pointers
  BY DEF PointersInv
<1>3. ToDo' = ToDo
  BY <1>1 DEF ToDo
<1>4. (\A i \in ToDo : Sound(pending_operations[i]))'
  BY <1>1, <1>2, <1>3, SoundKept DEF Operations
<1>5. Operations'
  BY <1>1, <1>2, <1>3, <1>4 DEF Operations, InOrder
<1>6. HooksTyped' /\ Pointers'
  BY <1>1, <1>2 DEF HooksTyped, Pointers, tvars
<1> QED
  BY <1>1, <1>5, <1>6, HooksKept

-----------------------------------------------------------------------------
LEMMA PointersInit == Init => PointersInv
<1> SUFFICES ASSUME Init PROVE PointersInv
  OBVIOUS
<1>1. TrampolineInit /\ live = {} /\ fault = "none"
  BY DEF Init, TrampolineInit
<1>2. TrampolineInv /\ ThreadsInv
  BY <1>1, InvInit, ThreadsInit
<1>3. /\ pending_operations = <<>>
      /\ cursor = [t \in Threads |-> 0]
      /\ code = [a \in Functions |-> NoChunk]
      /\ original = [k \in Clients |-> NoChunk]
      /\ pc = [t \in Threads |-> "idle"]
  BY DEF Init
<1>4. ToDo = {} /\ <<>> \in Seq(Operation)
  BY <1>3, EmptySeq DEF ToDo
<1>5. HooksTyped /\ Operations /\ Pointers
  BY <1>3, <1>4 DEF HooksTyped, Operations, Pointers
<1>6. Chained /\ Jumps /\ Findable
  BY <1>1, <1>3 DEF Chained, Jumps, Findable
<1> QED
  BY <1>2, <1>5, <1>6 DEF PointersInv

LEMMA PointersStep ==
    ASSUME Careful, PointersInv, [Next]_vars
    PROVE  PointersInv'
<1>1. ThreadsInv'
  BY ThreadsStep DEF PointersInv, Careful
<1>2. ASSUME NEW t \in Threads, Begin(t)
      PROVE  PointersInv'
  BY <1>1, <1>2, BeginKeeps
<1>3. ASSUME NEW t \in Threads, UpdateAllThreads(t) \/ \E u \in Threads : UpdateThread(t, u)
      PROVE  PointersInv'
  <2>1. UNCHANGED <<tvars, claim_vars, hook_vars>>
    BY <1>3 DEF UpdateAllThreads, UpdateThread
  <2> QED
    BY <1>1, <2>1, OtherKeeps
<1>4. ASSUME NEW t \in Threads, NEW k \in Clients, Install(t, k)
      PROVE  PointersInv'
  BY <1>1, <1>4, InstallKeeps
<1>5. ASSUME NEW t \in Threads, NEW k \in Clients, Remove(t, k)
      PROVE  PointersInv'
  BY <1>1, <1>5, RemoveKeeps
<1>6. ASSUME NEW t \in Threads, CommitStarts(t) \/ AbortStarts(t)
      PROVE  PointersInv'
  BY <1>1, <1>6, StartKeeps
<1>7. ASSUME NEW t \in Threads, Ends(t)
      PROVE  PointersInv'
  BY <1>1, <1>7, CommitStepKeeps, AbortStepKeeps, EndKeeps DEF Ends
<1>8. CASE UNCHANGED vars
  <2>1. UNCHANGED <<tvars, claim_vars, hook_vars>>
    BY <1>8 DEF vars
  <2> QED
    BY <1>1, <2>1, OtherKeeps
<1> QED
  BY <1>2, <1>3, <1>4, <1>5, <1>6, <1>7, <1>8 DEF Next

LEMMA PointersAlways ==
    ASSUME Careful
    PROVE  Spec => []PointersInv
<1>1. PointersInv /\ [Next]_vars => PointersInv'
  BY PointersStep
<1> QED
  BY <1>1, PointersInit, PTL DEF Spec

-----------------------------------------------------------------------------
(* The theorems *)

(* A chunk with an owner can be used. *)
LEMMA LiveUsable ==
    ASSUME TrampolineInv
    PROVE  \A c \in live : Usable(c)
BY DEF TrampolineInv, LiveChunksIntact, Usable

(* The transaction is type correct: every operation names a function and a *)
(* chunk, and no thread is resumed below a suspend count of zero.          *)
THEOREM TransactionTypeCorrect ==
    ASSUME Careful
    PROVE  Spec => []TypeOK
<1>1. PointersInv => TypeOK
  BY DEF PointersInv, TrampolineInv, ThreadsInv, HooksTyped, TypeOK
<1> QED
  BY <1>1, PointersAlways, PTL

(* The jump at the start of a function never outlives its chunk, whichever *)
(* write, vector or release fails.                                         *)
THEOREM JumpsLead ==
    ASSUME Careful
    PROVE  Spec => []NoDanglingJump
<1>1. PointersInv => NoDanglingJump
  BY LiveUsable DEF PointersInv, Jumps, NoDanglingJump
<1> QED
  BY <1>1, PointersAlways, PTL

(* A trampoline made from the jump of an earlier hook never outlives the   *)
(* chunk of that hook.                                                     *)
THEOREM TrampolinesLead ==
    ASSUME Careful
    PROVE  Spec => []NoDanglingTrampoline
<1>1. PointersInv => NoDanglingTrampoline
  BY LiveUsable DEF PointersInv, Chained, NoDanglingTrampoline
<1> QED
  BY <1>1, PointersAlways, PTL

(* CommitEx and Abort never come to an operation whose chunk was freed.    *)
THEOREM OperationsLive ==
    ASSUME Careful
    PROVE  Spec => []PendingTrampolinesLive
<1>1. PointersInv => PendingTrampolinesLive
  BY LiveUsable DEF PointersInv, Operations, ToDo, Sound, PendingTrampolinesLive
<1> QED
  BY <1>1, PointersAlways, PTL

(* Outside of Abort, the pointer of a client is a trampoline that exists,  *)
(* and no other client has it.                                             *)
THEOREM ClientsReachOriginals ==
    ASSUME Careful
    PROVE  Spec => []ClientPointersUsable
<1>1. PointersInv => ClientPointersUsable
  BY LiveUsable DEF PointersInv, Pointers, ClientPointersUsable
<1> QED
  BY <1>1, PointersAlways, PTL

(* If no insertion into the vector of regions fails, no step reads memory  *)
(* of a region that was given back, and none uses the pointer that a       *)
(* search leaves uninitialized.                                            *)
THEOREM NoMemoryFault ==
    ASSUME Careful, "insert" \notin Faults
    PROVE  Spec => []MemorySafe
<1>1. PointersInv => MemorySafe
  BY DEF PointersInv, Findable, MemorySafe
<1> QED
  BY <1>1, PointersAlways, PTL
=============================================================================
