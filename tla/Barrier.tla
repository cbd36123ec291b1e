------------------------------ MODULE Barrier ------------------------------
(***************************************************************************)
(* src/src/Barrier.c: the hook barrier.  Each thread keeps, in a slot of   *)
(* thread-local storage, a vector of barrier contexts sorted by handle;    *)
(* TryEnter, Leave and GetRecursionDepth work on the vector of the calling *)
(* thread.  The callers are hook callbacks that follow the example of the  *)
(* library (src/examples/Barrier.c): TryEnter on entry, and, if it passed, *)
(* Leave before the return.                                                *)
(***************************************************************************)
EXTENDS HookBarrier, Integers, SequencesExt

CONSTANTS
    U32Size,        \* number of values of the unsigned type of recursion_depth (2^32)
    NoVector,       \* content of a TLS slot nobody has set: a null pointer
    Faults          \* which library calls may fail, see FaultKinds

FaultKinds == {"alloc", "insert", "delete"}

(* A depth limit of the largest value of the type is excluded: the counter *)
(* would wrap to zero instead of exceeding the limit.                      *)
ASSUME BarrierAssumption ==
    /\ Handles \subseteq Nat
    /\ U32Size \in Nat \ {0}
    /\ MaxDepths \subseteq 0 .. U32Size - 2
    /\ MaxNesting \in Nat
    /\ Faults \subseteq FaultKinds
    /\ NoVector \notin Seq([id : Handles, recursion_depth : 0 .. U32Size - 1])

VARIABLES
    tls_index,      \* state of the TLS index: "unset", "allocated" or "freed"
    tls             \* tls[t]: the vector in the slot of thread t, or NoVector

vars == <<frames, tls_index, tls>>

Depths == 0 .. U32Size - 1

Context == [id : Handles, recursion_depth : Depths]

TypeOK ==
    /\ frames \in [Threads -> Seq(Frame)]
    /\ tls_index \in {"unset", "allocated", "freed"}
    /\ tls \in [Threads -> Seq(Context) \cup {NoVector}]

Init ==
    /\ HBInit
    /\ tls_index = "unset"
    /\ tls = [t \in Threads |-> NoVector]

-----------------------------------------------------------------------------
(* ZyanVectorBinarySearch over the ids: the context of a handle, or where  *)
(* it has to be inserted.                                                  *)
Has(vector, h) == \E i \in DOMAIN vector : vector[i].id = h

(* A search that stops at the first context. *)
FoundIndexFirst(vector, h) == 1

FoundIndex(vector, h) == 1 + Cardinality({i \in DOMAIN vector : vector[i].id < h})

(* No call comes before the initialization (Barrier.h:102).  After the     *)
(* shutdown ZyanThreadTlsGetValue is called with a freed index and fails.  *)
Initialized == tls_index # "unset"

GetValueFails == tls_index = "freed"

(* The vector TryEnterEx works on: a thread without one gets an empty one. *)
OwnVector(t) == IF tls[t] = NoVector THEN <<>> ELSE tls[t]

(* The limit is reached: one entry too early. *)
ExceedsAtLimit(context, max) == context.recursion_depth >= max

Exceeds(context, max) == context.recursion_depth > max

(* The depth of a context that is entered again is not counted. *)
EnteredOnce(context) == context

EnteredAgain(context) == [context EXCEPT !.recursion_depth = (@ + 1) % U32Size]

(* The outcomes of ZyrexBarrierTryEnterEx: the status it returns and the   *)
(* vector it leaves in the slot.                                           *)
TryEnterEx(t, h, max) ==
    LET v == OwnVector(t)
        i == FoundIndex(v, h)
    IN  IF GetValueFails THEN {[status |-> "error", vector |-> tls[t]]}
        ELSE (IF tls[t] = NoVector /\ "alloc" \in Faults
              THEN {[status |-> "error", vector |-> NoVector]} ELSE {})
             \cup
             (IF Has(v, h)
              THEN IF Exceeds(v[i], max)
                   THEN {[status |-> "false", vector |-> v]}
                   ELSE {[status |-> "true", vector |-> [v EXCEPT ![i] = EnteredAgain(@)]]}
              ELSE {[status |-> "true",
                     vector |-> InsertAt(v, i, [id |-> h, recursion_depth |-> 1])]}
                   \cup
                   (IF "insert" \in Faults THEN {[status |-> "error", vector |-> v]} ELSE {}))

(* The check for a depth of zero is missing. *)
NothingToLeaveUnchecked(v, h) == v = NoVector \/ ~Has(v, h)

NothingToLeave(v, h) == v = NoVector \/ ~Has(v, h) \/ v[FoundIndex(v, h)].recursion_depth = 0

(* Every Leave deletes the context. *)
LeftForGoodAlways(context) == TRUE

LeftForGood(context) == context.recursion_depth = 0

(* The outcomes of ZyrexBarrierLeave.  A failing ZyanVectorDelete may have *)
(* deleted the context or have left it, with a depth of zero.              *)
Leave(t, h) ==
    LET v == tls[t]
        i == FoundIndex(v, h)
        lowered == [v EXCEPT ![i].recursion_depth = @ - 1]
    IN  IF GetValueFails THEN {[status |-> "error", vector |-> v]}
        ELSE IF NothingToLeave(v, h) THEN {[status |-> "invalid_operation", vector |-> v]}
        ELSE IF ~LeftForGood(lowered[i]) THEN {[status |-> "true", vector |-> lowered]}
        ELSE {[status |-> "true", vector |-> RemoveAt(lowered, i)]}
             \cup
             (IF "delete" \in Faults
              THEN {[status |-> "error", vector |-> RemoveAt(lowered, i)],
                    [status |-> "error", vector |-> lowered]}
              ELSE {})

(* What ZyrexBarrierGetRecursionDepth returns and leaves in *current_depth, *)
(* a variable of the caller that held the value before.                    *)
GetRecursionDepth(t, h, before) ==
    LET v == tls[t]
    IN  IF GetValueFails THEN [status |-> "error", depth |-> before]
        ELSE IF v = NoVector THEN [status |-> "false", depth |-> 0]
        ELSE IF Has(v, h)
        THEN [status |-> "true", depth |-> v[FoundIndex(v, h)].recursion_depth]
        ELSE [status |-> "false", depth |-> before]

-----------------------------------------------------------------------------
(* ZyrexBarrierSystemInitialize, called once, before anything else. *)
SystemInitialize ==
    /\ tls_index = "unset"
    /\ tls_index' = "allocated"
    /\ UNCHANGED <<frames, tls>>

(* ZyrexBarrierSystemShutdown, possibly while callbacks are running.  What *)
(* becomes of the vectors is up to the platform, nobody reaches them again. *)
SystemShutdown ==
    /\ tls_index = "allocated"
    /\ tls_index' = "freed"
    /\ UNCHANGED <<frames, tls>>

(* A hooked function is called: the callback starts with TryEnterEx. *)
EnterCallback(t, h, max) ==
    /\ Initialized
    /\ \E r \in TryEnterEx(t, h, max) :
        /\ Open(t, h, r.status)
        /\ tls' = [tls EXCEPT ![t] = r.vector]
    /\ UNCHANGED tls_index

(* A callback that passed the barrier leaves it and returns. *)
ReturnPassed(t) ==
    /\ frames[t] # <<>> /\ Last(frames[t]).verdict = "true"
    /\ \E r \in Leave(t, Last(frames[t]).handle) : tls' = [tls EXCEPT ![t] = r.vector]
    /\ frames' = [frames EXCEPT ![t] = Front(@)]
    /\ UNCHANGED tls_index

(* A callback that was refused returns without leaving. *)
ReturnRefused(t) ==
    /\ frames[t] # <<>> /\ Last(frames[t]).verdict # "true"
    /\ frames' = [frames EXCEPT ![t] = Front(@)]
    /\ UNCHANGED <<tls_index, tls>>

(* A call of Leave outside of any callback that passed. *)
StrayLeave(t, h) ==
    /\ Initialized /\ Passed(t, h) = 0
    /\ \E r \in Leave(t, h) : tls' = [tls EXCEPT ![t] = r.vector]
    /\ UNCHANGED <<frames, tls_index>>

(* A thread ends: TlsCleanup destroys its vector.  A new thread may get    *)
(* the same id.                                                            *)
ThreadExit(t) ==
    /\ tls' = [tls EXCEPT ![t] = NoVector]
    /\ frames' = [frames EXCEPT ![t] = <<>>]
    /\ UNCHANGED tls_index

Next ==
    \/ SystemInitialize
    \/ SystemShutdown
    \/ \E t \in Threads :
        \/ \E h \in Handles, max \in MaxDepths : EnterCallback(t, h, max)
        \/ ReturnPassed(t)
        \/ ReturnRefused(t)
        \/ \E h \in Handles : StrayLeave(t, h)
        \/ ThreadExit(t)

Spec == Init /\ [][Next]_vars

-----------------------------------------------------------------------------
(* The vector of a thread is strictly sorted by handle, as the binary      *)
(* search of Barrier.c:154 needs it: a duplicate or a misplaced context    *)
(* would give one hook two counters.                                       *)
VectorSorted ==
    \A t \in Threads : tls[t] # NoVector =>
        \A i, j \in DOMAIN tls[t] : i < j => tls[t][i].id < tls[t][j].id

(* The recursion depth kept for a hook is the number of callbacks of the   *)
(* hook that are in progress on the thread and passed, whatever failed in  *)
(* between (an insertion, a deletion that left a context of depth zero);   *)
(* a hook without a context has none.                                      *)
DepthCountsOpenCallbacks ==
    \A t \in Threads, h \in Handles, before \in Depths :
        LET r == GetRecursionDepth(t, h, before)
        IN  /\ r.status = "true" => r.depth = Passed(t, h)
            /\ r.status = "false" => Passed(t, h) = 0

(* A callback that passed can always leave: Leave never tells it that      *)
(* there is nothing to leave (Barrier.c:182-206), even where its context   *)
(* was shared with a refused or a failed entry.                            *)
PassedCanLeave ==
    \A t \in Threads : \A i \in DOMAIN frames[t] :
        frames[t][i].verdict = "true" =>
            \A r \in Leave(t, frames[t][i].handle) : r.status # "invalid_operation"

(* The barrier implements the abstract one: the verdict on a callback is   *)
(* decided by the callbacks of the same hook on the same thread alone.     *)
BarrierImplementsHookBarrier == HBSpec
=============================================================================
