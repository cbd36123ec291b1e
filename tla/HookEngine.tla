----------------------------- MODULE HookEngine -----------------------------
(***************************************************************************)
(* The engine as a whole: threads call functions, hooked or not, and run   *)
(* their callbacks, while transactions install and remove the hooks.  The  *)
(* transactions and the chunks are those of the module Transaction, the    *)
(* barrier that of Barrier.  The callbacks are written like that of        *)
(* src/examples/Barrier.c.                                                 *)
(*                                                                         *)
(* The calls a thread is in form a stack.  A function that is hooked is    *)
(* left by the jump to the stub in the chunk (callback_jump), the stub by  *)
(* the jump to the callback, a trampoline by the jump to the body of the   *)
(* function.                                                               *)
(***************************************************************************)
EXTENDS Transaction

CONSTANTS
    Installers,     \* the threads that use the transactional interface
    Care,           \* what the process is careful about, see CareRules
    MaxStack        \* bound: length of the stack of a thread

(* The process can take care of:                                           *)
(*   drained   an operation on a hook is requested when no thread is in    *)
(*             the stub or the trampoline of the function;                 *)
(*   quiet     from then to the end of the transaction no thread calls the *)
(*             function, enters its callback, or calls the original;       *)
(*   returned  no hook is installed while a callback of a hook that was    *)
(*             removed is still running.                                   *)
CareRules == {"drained", "quiet", "returned"}

ASSUME EngineAssumption ==
    /\ Installers \subseteq Threads
    /\ Care \subseteq CareRules
    /\ MaxStack \in Nat
    /\ \A j, k \in Clients : j # k => Target[j].address # Target[k].address

VARIABLES
    stack,          \* the calls each thread is in, outermost first
    tls             \* the barrier contexts of each thread

engine_vars == <<vars, stack, tls>>

Addresses == Functions \cup {Address(c) : c \in Chunks}

(* A call: where in it the thread is, the client whose function was        *)
(* called, how (by its name or through the client's pointer), and the      *)
(* chunk of a stub or trampoline; of a callback, the barrier handle and    *)
(* what the barrier said.                                                  *)
Call ==
    [at : {"stub", "callback", "trampoline", "body"},
     client : Clients,
     through : {"name", "pointer"},
     chunk : Chunks \cup {NoChunk},
     handle : Addresses \cup {0},
     verdict : {"none", "true", "false"}]

NewCall(at, k, through, c) ==
    [at |-> at, client |-> k, through |-> through, chunk |-> c, handle |-> 0, verdict |-> "none"]

(* The callbacks among the calls, as the barrier sees them. *)
CallbackFrames ==
    [t \in Threads |->
        LET callbacks == SelectSeq(stack[t], LAMBDA call : call.at = "callback")
        IN  [i \in DOMAIN callbacks |->
                [handle |-> callbacks[i].handle, verdict |-> callbacks[i].verdict]]]

B == INSTANCE Barrier WITH
        Handles <- Addresses, MaxDepths <- {0}, MaxNesting <- MaxStack, U32Size <- 16,
        NoVector <- NoChunk, Faults <- {}, tls_index <- "allocated", frames <- CallbackFrames

(* The pointer in a slot that nobody has set is not that of a vector. *)
ASSUME SlotAssumption == NoChunk \notin Seq(B!Context)

EngineInit ==
    /\ Init
    /\ stack = [t \in Threads |-> <<>>]
    /\ tls = [t \in Threads |-> NoChunk]

EngineTypeOK ==
    /\ TypeOK
    /\ stack \in [Threads -> Seq(Call)]
    /\ \A t \in Threads : tls[t] = NoChunk \/ tls[t] \in Seq(B!Context)

-----------------------------------------------------------------------------
(* Calls *)

(* The thread is in none of the functions of the interface. *)
Executes(t) == Runs(t) /\ pc[t] \in {"idle", "open"}

Top(t) == stack[t][Len(stack[t])]

IsAt(t, at) == Executes(t) /\ stack[t] # <<>> /\ Top(t).at = at

(* The thread is in code of the client's own: outside of all calls, or in  *)
(* a callback that passed the barrier.                                     *)
InClientCode(t) ==
    /\ Executes(t)
    /\ stack[t] # <<>> => Top(t).at = "callback" /\ Top(t).verdict = "true"

(* Callbacks, and the bodies of functions, call functions. *)
MayCall(t) == InClientCode(t) \/ IsAt(t, "body")

Calls(t, call) ==
    /\ Len(stack[t]) < MaxStack
    /\ stack' = [stack EXCEPT ![t] = Append(@, call)]

(* The innermost call becomes another one, or returns. *)
Becomes(t, call) == stack' = [stack EXCEPT ![t][Len(stack[t])] = call]

Pops(t) == stack' = [stack EXCEPT ![t] = SubSeq(@, 1, Len(@) - 1)]

Quiet(k) == "quiet" \in Care => ~HasPending(Target[k].address)

(* The call of the function of the client: its body, or the stub of the    *)
(* chunk that it jumps to.                                                 *)
FunctionCalled(k, through) ==
    LET c == code[Target[k].address]
    IN  NewCall(IF c = NoChunk THEN "body" ELSE "stub", k, through, c)

(* The call through the pointer of the client, as it is now. *)
OriginalCalled(k) ==
    IF original[k] = NoChunk
    THEN FunctionCalled(k, "pointer")
    ELSE NewCall("trampoline", k, "pointer", original[k])

(* A thread calls the function by its name. *)
CallFunction(t, k) ==
    /\ MayCall(t) /\ Quiet(k)
    /\ Calls(t, FunctionCalled(k, "name"))
    /\ UNCHANGED <<vars, tls>>

(* The handle of the barrier is the address in the client's pointer. *)
GetHandle(k) ==
    IF original[k] = NoChunk THEN Target[k].address ELSE Address(original[k])

(* The stub jumps to the callback, which tries to enter the barrier.  The  *)
(* callback is that of the client the chunk was made for.                  *)
EnterCallback(t) ==
    /\ IsAt(t, "stub")
    /\ \E k \in Clients :
        /\ Target[k].address = chunk[Top(t).chunk].source.address
        /\ Quiet(k)
        /\ \E r \in B!TryEnterEx(t, GetHandle(k), 0) :
            /\ Becomes(t, [NewCall("callback", k, Top(t).through, NoChunk) EXCEPT
                            !.handle = GetHandle(k), !.verdict = r.status])
            /\ tls' = [tls EXCEPT ![t] = r.vector]
    /\ UNCHANGED vars

(* A callback that passed calls the original function. *)
CallOriginal(t) ==
    /\ IsAt(t, "callback") /\ Top(t).verdict = "true"
    /\ Quiet(Top(t).client)
    /\ Calls(t, OriginalCalled(Top(t).client))
    /\ UNCHANGED <<vars, tls>>

(* A callback that was refused returns what the original function returns. *)
RefusedCallsOriginal(t) ==
    /\ IsAt(t, "callback") /\ Top(t).verdict # "true"
    /\ Quiet(Top(t).client)
    /\ Becomes(t, OriginalCalled(Top(t).client))
    /\ UNCHANGED <<vars, tls>>

(* The trampoline jumps to the body of the function. *)
RunTrampoline(t) ==
    /\ IsAt(t, "trampoline")
    /\ \E k \in Clients :
        /\ Target[k].address = chunk[Top(t).chunk].source.address
        /\ Becomes(t, NewCall("body", k, Top(t).through, NoChunk))
    /\ UNCHANGED <<vars, tls>>

ReturnFromBody(t) ==
    /\ IsAt(t, "body")
    /\ Pops(t)
    /\ UNCHANGED <<vars, tls>>

(* The callback asks for the handle again. *)
HandleToLeaveAnew(call) == GetHandle(call.client)

(* The callback leaves with the handle it entered with. *)
HandleToLeave(call) == call.handle

(* A callback that passed leaves the barrier and returns. *)
ReturnFromCallback(t) ==
    /\ IsAt(t, "callback") /\ Top(t).verdict = "true"
    /\ \E r \in B!Leave(t, HandleToLeave(Top(t))) : tls' = [tls EXCEPT ![t] = r.vector]
    /\ Pops(t)
    /\ UNCHANGED vars

-----------------------------------------------------------------------------
(* Transactions *)

(* No thread is in the stub or the trampoline of the client's function. *)
Drained(k) ==
    \A t \in Threads : \A i \in DOMAIN stack[t] :
        stack[t][i].at \in {"stub", "trampoline"} => stack[t][i].client # k

(* The callbacks that are running belong to hooks that were not removed. *)
Returned ==
    \A t \in Threads : \A i \in DOMAIN stack[t] :
        stack[t][i].at = "callback" => \E c \in live : stack[t][i].handle = Address(c)

MayInstall(k) ==
    /\ "drained" \in Care => Drained(k)
    /\ "returned" \in Care => Returned

MayRemove(k) == "drained" \in Care => Drained(k)

(* Threads use the interface outside of all calls and in callbacks. *)
UseInterface(t) ==
    /\ t \in Installers
    /\ pc[t] \in {"idle", "open"} => InClientCode(t)
    /\ \/ Begin(t)
       \/ \E k \in Clients : Install(t, k) /\ MayInstall(k)
       \/ \E k \in Clients : Remove(t, k) /\ MayRemove(k)
       \/ CommitStarts(t)
       \/ AbortStarts(t)
       \/ Ends(t)
    /\ UNCHANGED <<stack, tls>>

EngineNext ==
    \E t \in Threads :
        \/ \E k \in Clients : CallFunction(t, k)
        \/ EnterCallback(t)
        \/ CallOriginal(t)
        \/ RefusedCallsOriginal(t)
        \/ RunTrampoline(t)
        \/ ReturnFromBody(t)
        \/ ReturnFromCallback(t)
        \/ UseInterface(t)

EngineSpec == EngineInit /\ [][EngineNext]_engine_vars

-----------------------------------------------------------------------------
(* Every call that is in a chunk is in one that exists and still is that   *)
(* of the function that was called: removals and aborts free no chunk from *)
(* under a thread, and the pointers of clients lead into no chunk that was *)
(* freed or has become another hook's.                                     *)
ExecutesLiveChunks ==
    \A t \in Threads : \A i \in DOMAIN stack[t] :
        LET call == stack[t][i]
        IN  call.at \in {"stub", "trampoline"} =>
                /\ Usable(call.chunk)
                /\ chunk[call.chunk].source.address = Target[call.client].address

(* Transaction.h:180-181 and 219-220: what is called through the client's  *)
(* pointer is the original function, by its trampoline or, once the hook   *)
(* is removed, directly; it is never the hook again, also for a callback   *)
(* that was already running when the pointer changed.                      *)
PointerReachesOriginal ==
    \A t \in Threads : \A i \in DOMAIN stack[t] :
        stack[t][i].through = "pointer" => stack[t][i].at \in {"trampoline", "body"}

(* The barrier refuses a callback if and only if the thread is in another  *)
(* one of the same hook that passed: although it knows hooks by the        *)
(* address of a chunk only, which a later hook may get.                    *)
RefusesRecursionOnly ==
    \A t \in Threads : \A i \in DOMAIN stack[t] :
        LET call == stack[t][i]
            inside == \E j \in 1 .. i - 1 :
                        /\ stack[t][j].at = "callback" /\ stack[t][j].client = call.client
                        /\ stack[t][j].verdict = "true"
        IN  call.at = "callback" => (call.verdict = "false" <=> inside)

(* A callback that passed the barrier can leave it, although the hook may  *)
(* have been removed, and the pointer changed, while it was running        *)
(* (src/examples/Barrier.c:91-94): no barrier context stays behind in a    *)
(* thread that is in no callback.                                          *)
CallbacksLeaveNothing ==
    \A t \in Threads :
        stack[t] = <<>> => \A h \in Addresses :
            B!GetRecursionDepth(t, h, 0).depth = 0
=============================================================================
