-------------------------- MODULE HookEngineProofs --------------------------
(***************************************************************************)
(* Proofs about the engine as a whole, for any number of threads, clients, *)
(* functions and operations, any memory layout, and stacks of any depth:   *)
(* what the barrier keeps is what the stacks say, no thread is in a chunk  *)
(* that was freed, the original function is never the hook, and the        *)
(* barrier refuses recursion and nothing else.  What a process has to be   *)
(* careful about for each of them is an assumption of the theorem.         *)
(***************************************************************************)
EXTENDS HookEngine, PointerProofs

(* The barrier of the module HookEngine, with what is proved about it. *)
BP == INSTANCE BarrierProofs WITH
        Handles <- Addresses, MaxDepths <- {0}, MaxNesting <- MaxStack, U32Size <- 16,
        NoVector <- NoChunk, Faults <- {}, tls_index <- "allocated", frames <- CallbackFrames

Passed(call) == call.at = "callback" /\ call.verdict = "true"

(* The thread with the stack s is in a callback that entered with h. *)
Inside(s, h) == \E i \in DOMAIN s : Passed(s[i]) /\ s[i].handle = h

(* The handles of the callbacks that passed are distinct. *)
Distinct(s) ==
    \A i, j \in DOMAIN s :
        Passed(s[i]) /\ Passed(s[j]) /\ s[i].handle = s[j].handle => i = j

(* A call is where it can be, and of a thread that is in a chunk or in a   *)
(* callback it is known in which, and by which handle.                     *)
CallTyped(call) ==
    /\ call \in Call
    /\ call.at \in {"stub", "trampoline"} => call.chunk \in Chunks
    /\ call.at = "callback" => call.handle \in Addresses

StacksTyped ==
    /\ stack \in [Threads -> Seq(Call)]
    /\ \A t \in Threads : \A i \in DOMAIN stack[t] : CallTyped(stack[t][i])

(* What the barrier keeps of a thread is what its stack says: the depth of *)
(* a handle is one inside of a callback that entered with it, and else     *)
(* zero.  A second entry would make two calls with one handle.             *)
DepthsRight(s, v) ==
    /\ v \in BP!Vector \cup {NoChunk}
    /\ Distinct(s)
    /\ \A h \in Addresses : BP!DepthIs(v, h, IF Inside(s, h) THEN 1 ELSE 0)

BarrierRight ==
    /\ tls \in [Threads -> BP!Vector \cup {NoChunk}]
    /\ \A t \in Threads : DepthsRight(stack[t], tls[t])

(* The inductive invariant for what needs no care. *)
CallsInv == PointersInv /\ StacksTyped /\ BarrierRight

-----------------------------------------------------------------------------
(* The barrier *)

LEMMA AddressesTyped ==
    /\ Addresses \subseteq Nat
    /\ \A c \in Chunks : Address(c) \in Addresses
    /\ \A k \in Clients : Target[k].address \in Functions /\ Target[k].address \in Addresses
<1>1. \A p \in Prologues : p.address \in Functions /\ p.address \in Nat
  BY TrampolineAssumption DEF Functions, Prologue
<1>2. Functions \subseteq Nat
  BY <1>1 DEF Functions
<1>3. \A c \in Chunks : Address(c) \in Nat
  BY AddressType
<1>4. \A k \in Clients : Target[k] \in Prologues
  BY TransactionAssumption
<1> QED
  BY <1>1, <1>2, <1>3, <1>4 DEF Addresses

LEMMA SameBarrier ==
    ASSUME NEW t, NEW h
    PROVE  /\ B!TryEnterEx(t, h, 0) = BP!TryEnterEx(t, h, 0)
           /\ B!Leave(t, h) = BP!Leave(t, h)
           /\ B!GetRecursionDepth(t, h, 0) = BP!GetRecursionDepth(t, h, 0)
           /\ B!Context = BP!Context
<1> USE DEF B!OwnVector, BP!OwnVector, B!FoundIndex, BP!FoundIndex, B!GetValueFails,
            BP!GetValueFails, B!Has, BP!Has, B!Cardinality, BP!Cardinality
<1>1. B!TryEnterEx(t, h, 0) = BP!TryEnterEx(t, h, 0)
  BY DEF B!TryEnterEx, BP!TryEnterEx, B!Exceeds, BP!Exceeds, B!EnteredAgain, BP!EnteredAgain,
         B!InsertAt, BP!InsertAt
<1>2. B!Leave(t, h) = BP!Leave(t, h)
  BY DEF B!Leave, BP!Leave, B!NothingToLeave, BP!NothingToLeave, B!LeftForGood, BP!LeftForGood,
         B!RemoveAt, BP!RemoveAt
<1>3. B!GetRecursionDepth(t, h, 0) = BP!GetRecursionDepth(t, h, 0)
  BY DEF B!GetRecursionDepth, BP!GetRecursionDepth
<1>4. B!Context = BP!Context
  BY DEF B!Context, BP!Context, B!Depths, BP!Depths
<1> QED
  BY <1>1, <1>2, <1>3, <1>4

(* What is assumed of the barrier holds here. *)
LEMMA BarrierAssumed ==
    /\ BP!BarrierAssumption
    /\ NoChunk \notin Seq(BP!Context)
<1>1. Addresses \subseteq Nat
  BY AddressesTyped
<1>2. NoChunk \notin Seq([id : Addresses, recursion_depth : 0 .. 16 - 1])
  BY SlotAssumption DEF B!Context, B!Depths
<1>3. MaxStack \in Nat
  BY EngineAssumption
<1>4. {0} \subseteq 0 .. 16 - 2 /\ 16 \in Nat \ {0} /\ {} \subseteq BP!FaultKinds
  OBVIOUS
<1>5. BP!BarrierAssumption
  BY <1>1, <1>2, <1>3, <1>4 DEF BP!BarrierAssumption
<1>6. NoChunk \notin Seq(BP!Context)
  BY <1>2 DEF BP!Context, BP!Depths
<1> QED
  BY <1>5, <1>6

(* An entry passes if and only if no callback with the handle is open. *)
LEMMA EntryEffect ==
    ASSUME NEW t \in Threads, NEW h \in Addresses, tls[t] \in BP!Vector \cup {NoChunk},
           NEW r \in B!TryEnterEx(t, h, 0)
    PROVE  /\ r.status \in {"true", "false"}
           /\ r.vector \in BP!Vector \cup {NoChunk}
           /\ BP!DepthIs(tls[t], h, 0) => r.status = "true"
           /\ BP!DepthIs(tls[t], h, 1) => r.status = "false"
           /\ \A g \in Addresses, n \in Nat :
                BP!DepthIs(tls[t], g, n) =>
                    BP!DepthIs(r.vector, g, IF r.status = "true" /\ g = h THEN n + 1 ELSE n)
<1>1. r \in BP!TryEnterEx(t, h, 0)
  BY SameBarrier
<1>2. BP!BarrierAssumption /\ 0 \in {0}
  BY BarrierAssumed
<1>3. /\ r.status \in BP!Verdicts /\ r.vector \in BP!Vector \cup {NoChunk}
      /\ \A n \in Nat : BP!DepthIs(tls[t], h, n) /\ r.status # "error" => (r.status = "true" <=> n <= 0)
      /\ \A g \in Addresses, n \in Nat :
                BP!DepthIs(tls[t], g, n) =>
                    BP!DepthIs(r.vector, g, IF r.status = "true" /\ g = h THEN n + 1 ELSE n)
  BY <1>1, <1>2, BP!TryEnterEffect DEF BP!BarrierAssumption
<1>4. r.status \in {"true", "false"}
  BY <1>1 DEF BP!TryEnterEx, BP!GetValueFails
<1>5. BP!DepthIs(tls[t], h, 0) => r.status = "true"
  BY <1>3, <1>4
<1>6. BP!DepthIs(tls[t], h, 1) => r.status = "false"
  BY <1>3, <1>4
<1> QED
  BY <1>3, <1>4, <1>5, <1>6

(* A callback that is open leaves. *)
LEMMA ExitEffect ==
    ASSUME NEW t \in Threads, NEW h \in Addresses, tls[t] \in BP!Vector \cup {NoChunk},
           NEW r \in B!Leave(t, h)
    PROVE  /\ r.vector \in BP!Vector \cup {NoChunk}
           /\ BP!DepthIs(tls[t], h, 1) =>
                \A g \in Addresses, n \in Nat :
                    BP!DepthIs(tls[t], g, n) => BP!DepthIs(r.vector, g, IF g = h THEN n - 1 ELSE n)
<1>1. r \in BP!Leave(t, h)
  BY SameBarrier
<1>2. BP!BarrierAssumption
  BY BarrierAssumed
<1>3. /\ r.vector \in BP!Vector \cup {NoChunk}
      /\ ~BP!GetValueFails =>
            \A n \in Nat \ {0} : BP!DepthIs(tls[t], h, n) =>
                \A g \in Addresses, m \in Nat :
                    BP!DepthIs(tls[t], g, m) => BP!DepthIs(r.vector, g, IF g = h THEN m - 1 ELSE m)
  BY <1>1, <1>2, BP!LeaveEffect DEF BP!BarrierAssumption
<1>4. ~BP!GetValueFails /\ 1 \in Nat \ {0}
  BY DEF BP!GetValueFails
<1> QED
  BY <1>3, <1>4

(* Where no callback is open, every depth is zero. *)
LEMMA DepthRead ==
    ASSUME NEW t \in Threads, NEW h \in Addresses, tls[t] \in BP!Vector \cup {NoChunk},
           BP!DepthIs(tls[t], h, 0)
    PROVE  B!GetRecursionDepth(t, h, 0).depth = 0
<1>1. ~BP!GetValueFails
  BY DEF BP!GetValueFails
<1>2. CASE tls[t] = NoChunk \/ ~BP!Has(tls[t], h)
  BY <1>1, <1>2, SameBarrier DEF BP!GetRecursionDepth
<1>3. CASE tls[t] # NoChunk /\ BP!Has(tls[t], h)
  <2>1. tls[t] \in BP!Vector /\ 0 \in Nat
    BY <1>3
  <2>2. tls[t][BP!FoundIndex(tls[t], h)].recursion_depth = 0
    BY <1>3, <2>1, BarrierAssumed, BP!FoundDepth DEF BP!BarrierAssumption
  <2> QED
    BY <1>1, <1>3, <2>2, SameBarrier DEF BP!GetRecursionDepth
<1> QED
  BY <1>2, <1>3

-----------------------------------------------------------------------------
(* Stacks *)

LEMMA Pushed ==
    ASSUME NEW S, NEW s \in Seq(S), NEW e \in S, NEW w, w = Append(s, e)
    PROVE  /\ w \in Seq(S) /\ w # <<>>
           /\ Len(w) = Len(s) + 1 /\ Len(w) \notin DOMAIN s
           /\ DOMAIN w = DOMAIN s \cup {Len(w)}
           /\ w[Len(w)] = e
           /\ \A i \in DOMAIN s : w[i] = s[i]
<1>1. Len(s) \in Nat /\ DOMAIN s = 1 .. Len(s)
  OBVIOUS
<1>2. w \in Seq(S) /\ Len(w) = Len(s) + 1 /\ DOMAIN w = 1 .. Len(w)
  OBVIOUS
<1>3. w[Len(w)] = e /\ \A i \in DOMAIN s : w[i] = s[i]
  BY <1>1, <1>2
<1>4. DOMAIN w = DOMAIN s \cup {Len(w)} /\ Len(w) \notin DOMAIN s
  BY <1>1, <1>2
<1>5. w # <<>>
  BY <1>1, <1>2
<1> QED
  BY <1>2, <1>3, <1>4, <1>5

LEMMA Replaced ==
    ASSUME NEW S, NEW s \in Seq(S), s # <<>>, NEW e \in S, NEW w, w = [s EXCEPT ![Len(s)] = e]
    PROVE  /\ w \in Seq(S) /\ w # <<>>
           /\ Len(w) = Len(s) /\ Len(s) \in DOMAIN s
           /\ DOMAIN w = DOMAIN s
           /\ w[Len(s)] = e
           /\ \A i \in DOMAIN s \ {Len(s)} : w[i] = s[i]
<1>1. Len(s) \in Nat /\ DOMAIN s = 1 .. Len(s) /\ Len(s) # 0
  OBVIOUS
<1>2. Len(s) \in DOMAIN s
  BY <1>1
<1>3. w \in Seq(S) /\ Len(w) = Len(s)
  BY <1>1, <1>2, ExceptSeq
<1> QED
  BY <1>1, <1>2, <1>3

LEMMA Popped ==
    ASSUME NEW S, NEW s \in Seq(S), s # <<>>, NEW w, w = SubSeq(s, 1, Len(s) - 1)
    PROVE  /\ w \in Seq(S)
           /\ Len(s) \in DOMAIN s
           /\ DOMAIN w = DOMAIN s \ {Len(s)}
           /\ \A i \in DOMAIN w : w[i] = s[i]
<1>1. Len(s) \in Nat /\ DOMAIN s = 1 .. Len(s) /\ Len(s) # 0
  OBVIOUS
<1>2. /\ w \in Seq(S) /\ Len(w) = Len(s) - 1
      /\ \A i \in 1 .. Len(s) - 1 : w[i] = s[i]
  BY <1>1, SubSeqProperties
<1>3. DOMAIN w = 1 .. Len(s) - 1
  BY <1>2
<1> QED
  BY <1>1, <1>2, <1>3

(* The innermost call of a thread. *)
LEMMA TopIsLast ==
    ASSUME StacksTyped, NEW t \in Threads, stack[t] # <<>>
    PROVE  /\ stack[t] \in Seq(Call)
           /\ Len(stack[t]) \in DOMAIN stack[t]
           /\ Top(t) = stack[t][Len(stack[t])]
           /\ CallTyped(Top(t))
<1>1. stack[t] \in Seq(Call)
  BY DEF StacksTyped
<1>2. Len(stack[t]) \in DOMAIN stack[t]
  BY <1>1
<1> QED
  BY <1>1, <1>2 DEF StacksTyped, Top

(* Where the innermost call changes, the others do not. *)
LEMMA StackReplaced ==
    ASSUME StacksTyped, NEW t \in Threads, stack' = [stack EXCEPT ![t] = stack'[t]],
           stack'[t] \in Seq(Call),
           \A i \in DOMAIN stack'[t] : CallTyped(stack'[t][i])
    PROVE  StacksTyped'
<1>1. stack \in [Threads -> Seq(Call)]
  BY DEF StacksTyped
<1>2. stack' \in [Threads -> Seq(Call)] /\ \A u \in Threads \ {t} : stack'[u] = stack[u]
  BY <1>1
<1>3. \A u \in Threads : \A i \in DOMAIN stack'[u] : CallTyped(stack'[u][i])
  BY <1>2 DEF StacksTyped
<1> QED
  BY <1>2, <1>3 DEF StacksTyped

(* The three ways a stack changes. *)
LEMMA CallsStack ==
    ASSUME StacksTyped, NEW t \in Threads, NEW call, CallTyped(call), Calls(t, call)
    PROVE  /\ StacksTyped'
           /\ \A u \in Threads \ {t} : stack'[u] = stack[u]
           /\ stack'[t] = Append(stack[t], call)
<1>1. /\ stack \in [Threads -> Seq(Call)] /\ stack[t] \in Seq(Call)
      /\ \A i \in DOMAIN stack[t] : CallTyped(stack[t][i])
  BY DEF StacksTyped
<1>2. /\ stack'[t] = Append(stack[t], call)
      /\ stack' = [stack EXCEPT ![t] = stack'[t]]
      /\ \A u \in Threads \ {t} : stack'[u] = stack[u]
  BY <1>1 DEF Calls
<1>3. call \in Call
  BY DEF CallTyped
<1>4. stack'[t] \in Seq(Call) /\ \A i \in DOMAIN stack'[t] : CallTyped(stack'[t][i])
  BY <1>1, <1>2, <1>3, Pushed
<1> QED
  BY <1>2, <1>4, StackReplaced

LEMMA BecomesStack ==
    ASSUME StacksTyped, NEW t \in Threads, stack[t] # <<>>,
           NEW call, CallTyped(call), Becomes(t, call)
    PROVE  /\ StacksTyped'
           /\ \A u \in Threads \ {t} : stack'[u] = stack[u]
           /\ stack'[t] = [stack[t] EXCEPT ![Len(stack[t])] = call]
<1>1. /\ stack \in [Threads -> Seq(Call)] /\ stack[t] \in Seq(Call)
      /\ \A i \in DOMAIN stack[t] : CallTyped(stack[t][i])
  BY DEF StacksTyped
<1>2. /\ stack'[t] = [stack[t] EXCEPT ![Len(stack[t])] = call]
      /\ stack' = [stack EXCEPT ![t] = stack'[t]]
      /\ \A u \in Threads \ {t} : stack'[u] = stack[u]
  BY <1>1 DEF Becomes
<1>3. call \in Call
  BY DEF CallTyped
<1>4. stack'[t] \in Seq(Call) /\ \A i \in DOMAIN stack'[t] : CallTyped(stack'[t][i])
  BY <1>1, <1>2, <1>3, Replaced
<1> QED
  BY <1>2, <1>4, StackReplaced

LEMMA PopsStack ==
    ASSUME StacksTyped, NEW t \in Threads, stack[t] # <<>>, Pops(t)
    PROVE  /\ StacksTyped'
           /\ \A u \in Threads \ {t} : stack'[u] = stack[u]
           /\ stack'[t] = SubSeq(stack[t], 1, Len(stack[t]) - 1)
<1>1. /\ stack \in [Threads -> Seq(Call)] /\ stack[t] \in Seq(Call)
      /\ \A i \in DOMAIN stack[t] : CallTyped(stack[t][i])
  BY DEF StacksTyped
<1>2. /\ stack'[t] = SubSeq(stack[t], 1, Len(stack[t]) - 1)
      /\ stack' = [stack EXCEPT ![t] = stack'[t]]
      /\ \A u \in Threads \ {t} : stack'[u] = stack[u]
  BY <1>1 DEF Pops
<1>3. stack'[t] \in Seq(Call) /\ \A i \in DOMAIN stack'[t] : CallTyped(stack'[t][i])
  BY <1>1, <1>2, Popped
<1> QED
  BY <1>2, <1>3, StackReplaced

-----------------------------------------------------------------------------
(* What a call leads to *)

LEMMA HooksTypes ==
    ASSUME HooksTyped, NEW k \in Clients
    PROVE  /\ code[Target[k].address] \in Chunks \cup {NoChunk}
           /\ original[k] \in Chunks \cup {NoChunk}
           /\ GetHandle(k) \in Addresses
<1>1. Target[k].address \in Functions /\ Target[k].address \in Addresses
  BY AddressesTyped
<1>2. code[Target[k].address] \in Chunks \cup {NoChunk} /\ original[k] \in Chunks \cup {NoChunk}
  BY <1>1 DEF HooksTyped
<1>3. GetHandle(k) \in Addresses
  BY <1>1, <1>2, AddressesTyped DEF GetHandle
<1> QED
  BY <1>2, <1>3

LEMMA NewCallTyped ==
    ASSUME NEW at \in {"stub", "trampoline", "body"}, NEW k \in Clients,
           NEW through \in {"name", "pointer"}, NEW c \in Chunks \cup {NoChunk},
           at # "body" => c \in Chunks
    PROVE  /\ CallTyped(NewCall(at, k, through, c))
           /\ NewCall(at, k, through, c).at = at
           /\ NewCall(at, k, through, c).client = k
           /\ NewCall(at, k, through, c).through = through
           /\ NewCall(at, k, through, c).chunk = c
BY DEF CallTyped, NewCall, Call

LEMMA FunctionCalledTyped ==
    ASSUME HooksTyped, NEW k \in Clients, NEW through \in {"name", "pointer"}
    PROVE  /\ CallTyped(FunctionCalled(k, through))
           /\ FunctionCalled(k, through).at \in {"stub", "body"}
           /\ FunctionCalled(k, through).client = k
           /\ FunctionCalled(k, through).through = through
           /\ FunctionCalled(k, through).at = "stub" =>
                /\ code[Target[k].address] # NoChunk
                /\ FunctionCalled(k, through).chunk = code[Target[k].address]
<1> DEFINE c == code[Target[k].address]
           at == IF c = NoChunk THEN "body" ELSE "stub"
<1>1. c \in Chunks \cup {NoChunk} /\ (at # "body" => c \in Chunks /\ c # NoChunk)
  BY HooksTypes
<1>2. at \in {"stub", "trampoline", "body"} /\ at \in {"stub", "body"}
  OBVIOUS
<1>3. FunctionCalled(k, through) = NewCall(at, k, through, c)
  BY DEF FunctionCalled
<1> HIDE DEF at, c
<1>4. /\ CallTyped(NewCall(at, k, through, c))
      /\ NewCall(at, k, through, c).at = at
      /\ NewCall(at, k, through, c).client = k
      /\ NewCall(at, k, through, c).through = through
      /\ NewCall(at, k, through, c).chunk = c
  BY <1>1, <1>2, NewCallTyped
<1>5. c = code[Target[k].address]
  BY DEF c
<1> QED
  BY <1>1, <1>2, <1>3, <1>4, <1>5

LEMMA OriginalCalledTyped ==
    ASSUME HooksTyped, NEW k \in Clients
    PROVE  /\ CallTyped(OriginalCalled(k))
           /\ OriginalCalled(k).at \in {"stub", "trampoline", "body"}
           /\ OriginalCalled(k).client = k
           /\ OriginalCalled(k).at = "trampoline" =>
                original[k] # NoChunk /\ OriginalCalled(k).chunk = original[k]
           /\ OriginalCalled(k).at = "stub" =>
                /\ original[k] = NoChunk
                /\ code[Target[k].address] # NoChunk
                /\ OriginalCalled(k).chunk = code[Target[k].address]
<1>1. CASE original[k] = NoChunk
  <2>1. OriginalCalled(k) = FunctionCalled(k, "pointer")
    BY <1>1 DEF OriginalCalled
  <2> QED
    BY <1>1, <2>1, FunctionCalledTyped
<1>2. CASE original[k] # NoChunk
  <2>1. original[k] \in Chunks
    BY <1>2, HooksTypes
  <2>2. OriginalCalled(k) = NewCall("trampoline", k, "pointer", original[k])
    BY <1>2 DEF OriginalCalled
  <2> QED
    BY <1>2, <2>1, <2>2, NewCallTyped
<1> QED
  BY <1>1, <1>2

(* The function that a chunk was made for has one client. *)
LEMMA OneClient ==
    ASSUME NEW j \in Clients, NEW k \in Clients, Target[j].address = Target[k].address
    PROVE  j = k
BY EngineAssumption

-----------------------------------------------------------------------------
(* The depths and the stacks *)

LEMMA DepthsKept ==
    ASSUME NEW s, NEW w, NEW v, DepthsRight(s, v),
           \A i : i \in DOMAIN w /\ Passed(w[i]) <=> i \in DOMAIN s /\ Passed(s[i]),
           \A i \in DOMAIN w : Passed(w[i]) => w[i].handle = s[i].handle
    PROVE  DepthsRight(w, v)
<1>1. Distinct(w)
  BY DEF DepthsRight, Distinct
<1>2. \A h \in Addresses : Inside(w, h) <=> Inside(s, h)
  BY DEF Inside
<1>3. \A h \in Addresses : (IF Inside(w, h) THEN 1 ELSE 0) = (IF Inside(s, h) THEN 1 ELSE 0)
  BY <1>2
<1> QED
  BY <1>1, <1>3 DEF DepthsRight

(* A callback that passed is entered: none with its handle was open.       *)
LEMMA DepthsEntered ==
    ASSUME NEW t \in Threads, NEW s, DepthsRight(s, tls[t]), NEW h \in Addresses,
           NEW r \in B!TryEnterEx(t, h, 0),
           NEW w, NEW n \in DOMAIN s, DOMAIN w = DOMAIN s,
           \A i \in DOMAIN s \ {n} : w[i] = s[i],
           ~Passed(s[n]), w[n].at = "callback", w[n].handle = h, w[n].verdict = r.status
    PROVE  /\ DepthsRight(w, r.vector)
           /\ r.status \in {"true", "false"}
           /\ r.status = "true" <=> ~Inside(s, h)
<1>1. tls[t] \in BP!Vector \cup {NoChunk}
  BY DEF DepthsRight
<1>2. /\ r.status \in {"true", "false"}
      /\ r.vector \in BP!Vector \cup {NoChunk}
      /\ BP!DepthIs(tls[t], h, 0) => r.status = "true"
      /\ BP!DepthIs(tls[t], h, 1) => r.status = "false"
      /\ \A g \in Addresses, m \in Nat :
            BP!DepthIs(tls[t], g, m) =>
                BP!DepthIs(r.vector, g, IF r.status = "true" /\ g = h THEN m + 1 ELSE m)
  BY <1>1, EntryEffect
<1>3. BP!DepthIs(tls[t], h, IF Inside(s, h) THEN 1 ELSE 0)
  BY DEF DepthsRight
<1>4. (r.status = "true") <=> ~Inside(s, h)
  BY <1>2, <1>3
<1>5. Distinct(w)
  <2> SUFFICES ASSUME NEW i \in DOMAIN s, NEW j \in DOMAIN s, Passed(w[i]), Passed(w[j]),
                      w[i].handle = w[j].handle, i # j
               PROVE  FALSE
    BY DEF Distinct
  <2>1. CASE i # n /\ j # n
    BY <2>1 DEF DepthsRight, Distinct
  <2>2. CASE i = n \/ j = n
    <3>1. r.status = "true"
      BY <2>2 DEF Passed
    <3>2. PICK o \in DOMAIN s \ {n} : Passed(s[o]) /\ s[o].handle = h
      BY <2>2
    <3> QED
      BY <1>4, <3>1, <3>2 DEF Inside
  <2> QED
    BY <2>1, <2>2
<1>6. ASSUME NEW g \in Addresses
      PROVE  BP!DepthIs(r.vector, g, IF Inside(w, g) THEN 1 ELSE 0)
  <2>1. CASE r.status = "true" /\ g = h
    <3>1. ~Inside(s, h) /\ BP!DepthIs(tls[t], h, 0) /\ 0 \in Nat
      BY <1>3, <1>4, <2>1
    <3>2. BP!DepthIs(r.vector, g, 0 + 1)
      BY <1>2, <2>1, <3>1
    <3>3. Inside(w, g)
      BY <2>1 DEF Inside, Passed
    <3> QED
      BY <3>2, <3>3
  <2>2. CASE ~(r.status = "true" /\ g = h)
    <3>1. Inside(w, g) <=> Inside(s, g)
      BY <2>2 DEF Inside, Passed
    <3>2. PICK m \in Nat : m = IF Inside(s, g) THEN 1 ELSE 0
      OBVIOUS
    <3>3. BP!DepthIs(tls[t], g, m)
      BY <3>2 DEF DepthsRight
    <3>4. BP!DepthIs(r.vector, g, m)
      BY <1>2, <2>2, <3>3
    <3> QED
      BY <3>1, <3>2, <3>4
  <2> QED
    BY <2>1, <2>2
<1> QED
  BY <1>2, <1>4, <1>5, <1>6 DEF DepthsRight

(* A callback that passed is left: it was the only one with its handle. *)
LEMMA DepthsLeft ==
    ASSUME NEW t \in Threads, NEW s, DepthsRight(s, tls[t]), NEW h \in Addresses,
           NEW r \in B!Leave(t, h),
           NEW w, NEW n \in DOMAIN s, DOMAIN w = DOMAIN s \ {n},
           \A i \in DOMAIN w : w[i] = s[i],
           Passed(s[n]), s[n].handle = h
    PROVE  DepthsRight(w, r.vector)
<1>1. tls[t] \in BP!Vector \cup {NoChunk} /\ Distinct(s)
  BY DEF DepthsRight
<1>2. Inside(s, h)
  BY DEF Inside
<1>3. BP!DepthIs(tls[t], h, 1)
  BY <1>2 DEF DepthsRight
<1>4. /\ r.vector \in BP!Vector \cup {NoChunk}
      /\ \A g \in Addresses, m \in Nat :
            BP!DepthIs(tls[t], g, m) => BP!DepthIs(r.vector, g, IF g = h THEN m - 1 ELSE m)
  BY <1>1, <1>3, ExitEffect
<1>5. Distinct(w)
  BY <1>1 DEF Distinct
<1>6. ASSUME NEW g \in Addresses
      PROVE  BP!DepthIs(r.vector, g, IF Inside(w, g) THEN 1 ELSE 0)
  <2>1. CASE g = h
    <3>1. ~Inside(w, g)
      BY <1>1, <2>1 DEF Inside, Distinct
    <3>2. BP!DepthIs(r.vector, g, 1 - 1)
      BY <1>3, <1>4, <2>1
    <3> QED
      BY <3>1, <3>2
  <2>2. CASE g # h
    <3>1. Inside(w, g) <=> Inside(s, g)
      BY <2>2 DEF Inside
    <3>2. PICK m \in Nat : m = IF Inside(s, g) THEN 1 ELSE 0
      OBVIOUS
    <3>3. BP!DepthIs(tls[t], g, m)
      BY <3>2 DEF DepthsRight
    <3>4. BP!DepthIs(r.vector, g, m)
      BY <1>4, <2>2, <3>3
    <3> QED
      BY <3>1, <3>2, <3>4
  <2> QED
    BY <2>1, <2>2
<1> QED
  BY <1>4, <1>5, <1>6 DEF DepthsRight

(* The barrier and the stack of one thread change. *)
LEMMA BarrierKept ==
    ASSUME BarrierRight, NEW t \in Threads,
           tls' = [tls EXCEPT ![t] = tls'[t]],
           \A u \in Threads \ {t} : stack'[u] = stack[u],
           DepthsRight(stack'[t], tls'[t])
    PROVE  BarrierRight'
<1>1. /\ tls' \in [Threads -> BP!Vector \cup {NoChunk}]
      /\ \A u \in Threads \ {t} : tls'[u] = tls[u]
  BY DEF BarrierRight, DepthsRight
<1>2. \A u \in Threads : DepthsRight(stack'[u], tls'[u])
  BY <1>1 DEF BarrierRight
<1>3. BarrierRight' <=> (/\ tls' \in [Threads -> BP!Vector \cup {NoChunk}]
                         /\ \A u \in Threads : DepthsRight(stack[u], tls[u])')
  BY DEF BarrierRight
<1>4. \A u \in Threads : DepthsRight(stack[u], tls[u])' <=> DepthsRight(stack'[u], tls'[u])
  BY DEF DepthsRight, Distinct, Inside
<1> QED
  BY <1>1, <1>2, <1>3, <1>4

-----------------------------------------------------------------------------
(* Steps of the calls *)

(* The thread's innermost call is not a callback that passed, and neither  *)
(* is the one that takes its place or is added.                            *)
LEMMA DepthsThroughCall ==
    ASSUME StacksTyped, BarrierRight, NEW t \in Threads, NEW call, CallTyped(call),
           ~Passed(call), UNCHANGED tls,
           \/ Calls(t, call)
           \/ stack[t] # <<>> /\ ~Passed(Top(t)) /\ Becomes(t, call)
    PROVE  StacksTyped' /\ BarrierRight'
<1> DEFINE s == stack[t]
           w == stack'[t]
<1>1. s \in Seq(Call) /\ DepthsRight(s, tls[t]) /\ call \in Call
  BY DEF StacksTyped, BarrierRight, CallTyped
<1>2. tls' = [tls EXCEPT ![t] = tls'[t]] /\ tls'[t] = tls[t]
  BY DEF BarrierRight
<1>3. CASE Calls(t, call)
  <2>1. /\ StacksTyped'
        /\ \A u \in Threads \ {t} : stack'[u] = stack[u]
        /\ w = Append(s, call)
    BY <1>3, CallsStack
  <2>2. /\ DOMAIN w = DOMAIN s \cup {Len(w)} /\ Len(w) \notin DOMAIN s
        /\ w[Len(w)] = call /\ \A i \in DOMAIN s : w[i] = s[i]
    BY <1>1, <2>1, Pushed
  <2> HIDE DEF s, w
  <2>3. DepthsRight(w, tls[t])
    BY <1>1, <2>2, DepthsKept
  <2> QED
    BY <1>2, <2>1, <2>3, BarrierKept DEF w
<1>4. CASE stack[t] # <<>> /\ ~Passed(Top(t)) /\ Becomes(t, call)
  <2>1. /\ StacksTyped'
        /\ \A u \in Threads \ {t} : stack'[u] = stack[u]
        /\ w = [s EXCEPT ![Len(s)] = call]
    BY <1>4, BecomesStack
  <2>2. /\ DOMAIN w = DOMAIN s /\ Len(s) \in DOMAIN s
        /\ w[Len(s)] = call /\ \A i \in DOMAIN s \ {Len(s)} : w[i] = s[i]
    BY <1>1, <1>4, <2>1, Replaced
  <2>3. ~Passed(s[Len(s)])
    BY <1>4 DEF Top
  <2> HIDE DEF s, w
  <2>4. DepthsRight(w, tls[t])
    <3>1. \A i : i \in DOMAIN w /\ Passed(w[i]) <=> i \in DOMAIN s /\ Passed(s[i])
      BY <2>2, <2>3
    <3>2. \A i \in DOMAIN w : Passed(w[i]) => w[i].handle = s[i].handle
      BY <2>2
    <3> QED
      BY <1>1, <3>1, <3>2, DepthsKept
  <2> QED
    BY <1>2, <2>1, <2>4, BarrierKept DEF w
<1> QED
  BY <1>3, <1>4

LEMMA CallFunctionKeeps ==
    ASSUME CallsInv, NEW t \in Threads, NEW k \in Clients, CallFunction(t, k)
    PROVE  StacksTyped' /\ BarrierRight'
<1> DEFINE call == FunctionCalled(k, "name")
<1>1. StacksTyped /\ BarrierRight /\ HooksTyped
  BY DEF CallsInv, PointersInv
<1>2. Calls(t, call) /\ UNCHANGED tls
  BY DEF CallFunction
<1>3. CallTyped(call) /\ call.at \in {"stub", "body"}
  BY <1>1, FunctionCalledTyped
<1> HIDE DEF call
<1>4. ~Passed(call)
  BY <1>3 DEF Passed
<1> QED
  BY <1>1, <1>2, <1>3, <1>4, DepthsThroughCall

LEMMA OriginalKeeps ==
    ASSUME CallsInv, NEW t \in Threads, CallOriginal(t) \/ RefusedCallsOriginal(t)
    PROVE  /\ StacksTyped' /\ BarrierRight'
           /\ Top(t).client \in Clients
           /\ stack[t] # <<>>
<1> DEFINE call == OriginalCalled(Top(t).client)
<1>1. StacksTyped /\ BarrierRight /\ HooksTyped
  BY DEF CallsInv, PointersInv
<1>2. /\ stack[t] # <<>> /\ Top(t).at = "callback"
      /\ UNCHANGED tls
      /\ \/ Calls(t, call)
         \/ Top(t).verdict # "true" /\ Becomes(t, call)
  BY DEF CallOriginal, RefusedCallsOriginal, IsAt
<1>3. Top(t).client \in Clients
  BY <1>1, <1>2, TopIsLast DEF CallTyped, Call
<1>4. CallTyped(call) /\ call.at \in {"stub", "trampoline", "body"}
  BY <1>1, <1>3, OriginalCalledTyped
<1> HIDE DEF call
<1>5. ~Passed(call) /\ (Top(t).verdict # "true" => ~Passed(Top(t)))
  BY <1>4 DEF Passed
<1> QED
  BY <1>1, <1>2, <1>3, <1>4, <1>5, DepthsThroughCall

LEMMA RunTrampolineKeeps ==
    ASSUME CallsInv, NEW t \in Threads, RunTrampoline(t)
    PROVE  StacksTyped' /\ BarrierRight'
<1>1. StacksTyped /\ BarrierRight
  BY DEF CallsInv
<1>2. /\ stack[t] # <<>> /\ Top(t).at = "trampoline"
      /\ UNCHANGED tls
  BY DEF RunTrampoline, IsAt
<1>3. PICK k \in Clients : Becomes(t, NewCall("body", k, Top(t).through, NoChunk))
  BY DEF RunTrampoline
<1> DEFINE call == NewCall("body", k, Top(t).through, NoChunk)
<1>4. Top(t).through \in {"name", "pointer"}
  BY <1>1, <1>2, TopIsLast DEF CallTyped, Call
<1>5. CallTyped(call) /\ call.at = "body"
  BY <1>4, NewCallTyped
<1>6. Becomes(t, call)
  BY <1>3
<1> HIDE DEF call
<1>7. ~Passed(call) /\ ~Passed(Top(t))
  BY <1>2, <1>5 DEF Passed
<1> QED
  BY <1>1, <1>2, <1>5, <1>6, <1>7, DepthsThroughCall

(* The call of the callback that a stub becomes. *)
CallbackCall(k, through, status) ==
    [NewCall("callback", k, through, NoChunk) EXCEPT !.handle = GetHandle(k), !.verdict = status]

LEMMA CallbackCallTyped ==
    ASSUME HooksTyped, NEW k \in Clients, NEW through \in {"name", "pointer"},
           NEW status \in {"true", "false"}
    PROVE  /\ CallTyped(CallbackCall(k, through, status))
           /\ CallbackCall(k, through, status).at = "callback"
           /\ CallbackCall(k, through, status).client = k
           /\ CallbackCall(k, through, status).through = through
           /\ CallbackCall(k, through, status).handle = GetHandle(k)
           /\ CallbackCall(k, through, status).verdict = status
<1>1. GetHandle(k) \in Addresses
  BY HooksTypes
<1> QED
  BY <1>1 DEF CallbackCall, CallTyped, NewCall, Call

(* The entry of a callback, and what the barrier says to it. *)
LEMMA EnterCallbackKeeps ==
    ASSUME CallsInv, NEW t \in Threads, EnterCallback(t)
    PROVE  /\ StacksTyped' /\ BarrierRight'
           /\ stack[t] # <<>> /\ Top(t).at = "stub"
           /\ \E k \in Clients, status \in {"true", "false"} :
                /\ Target[k].address = chunk[Top(t).chunk].source.address
                /\ Quiet(k)
                /\ Becomes(t, CallbackCall(k, Top(t).through, status))
                /\ status = "true" <=> ~Inside(stack[t], GetHandle(k))
                /\ CallTyped(CallbackCall(k, Top(t).through, status))
<1> DEFINE s == stack[t]
           w == stack'[t]
<1>1. StacksTyped /\ BarrierRight /\ HooksTyped
  BY DEF CallsInv, PointersInv
<1>2. stack[t] # <<>> /\ Top(t).at = "stub"
  BY DEF EnterCallback, IsAt
<1>3. PICK k \in Clients :
        /\ Target[k].address = chunk[Top(t).chunk].source.address
        /\ Quiet(k)
        /\ \E r \in B!TryEnterEx(t, GetHandle(k), 0) :
            /\ Becomes(t, CallbackCall(k, Top(t).through, r.status))
            /\ tls' = [tls EXCEPT ![t] = r.vector]
  BY DEF EnterCallback, CallbackCall
<1>4. PICK r \in B!TryEnterEx(t, GetHandle(k), 0) :
            /\ Becomes(t, CallbackCall(k, Top(t).through, r.status))
            /\ tls' = [tls EXCEPT ![t] = r.vector]
  BY <1>3
<1> DEFINE call == CallbackCall(k, Top(t).through, r.status)
<1>5. s \in Seq(Call) /\ DepthsRight(s, tls[t]) /\ tls[t] \in BP!Vector \cup {NoChunk}
  BY <1>1 DEF StacksTyped, BarrierRight, DepthsRight
<1>6. GetHandle(k) \in Addresses
  BY <1>1, HooksTypes
<1>7. r.status \in {"true", "false"}
  BY <1>5, <1>6, EntryEffect
<1>8. Top(t).through \in {"name", "pointer"}
  BY <1>1, <1>2, TopIsLast DEF CallTyped, Call
<1>9. /\ CallTyped(call) /\ call \in Call
      /\ call.at = "callback" /\ call.handle = GetHandle(k) /\ call.verdict = r.status
  BY <1>1, <1>7, <1>8, CallbackCallTyped DEF CallTyped
<1>10. Becomes(t, call)
  BY <1>4
<1> HIDE DEF call
<1>11. /\ StacksTyped'
       /\ \A u \in Threads \ {t} : stack'[u] = stack[u]
       /\ w = [s EXCEPT ![Len(s)] = call]
  BY <1>1, <1>2, <1>9, <1>10, BecomesStack
<1>12. /\ DOMAIN w = DOMAIN s /\ Len(s) \in DOMAIN s
       /\ w[Len(s)] = call /\ \A i \in DOMAIN s \ {Len(s)} : w[i] = s[i]
  BY <1>2, <1>5, <1>9, <1>11, Replaced
<1>13. ~Passed(s[Len(s)])
  BY <1>2 DEF Top, Passed
<1>14. tls' = [tls EXCEPT ![t] = tls'[t]] /\ tls'[t] = r.vector
  BY <1>1, <1>4 DEF BarrierRight
<1>15. /\ DepthsRight(w, r.vector)
       /\ (r.status = "true") <=> ~Inside(s, GetHandle(k))
  <2> HIDE DEF s, w
  <2>1. PICK h \in Addresses : h = GetHandle(k)
    BY <1>6
  <2>2. r \in B!TryEnterEx(t, h, 0)
    BY <2>1
  <2>3. PICK n \in DOMAIN s : n = Len(s)
    BY <1>12
  <2>4. w[n].at = "callback" /\ w[n].handle = h /\ w[n].verdict = r.status
    BY <1>9, <1>12, <2>1, <2>3
  <2>5. DOMAIN w = DOMAIN s /\ ~Passed(s[n]) /\ \A i \in DOMAIN s \ {n} : w[i] = s[i]
    BY <1>12, <1>13, <2>3
  <2>6. /\ DepthsRight(w, r.vector)
        /\ (r.status = "true") <=> ~Inside(s, h)
    BY <1>5, <2>2, <2>4, <2>5, DepthsEntered
  <2> QED
    BY <2>1, <2>6
<1>16. BarrierRight'
  BY <1>1, <1>11, <1>14, <1>15, BarrierKept
<1> QED
  BY <1>2, <1>3, <1>4, <1>7, <1>9, <1>11, <1>15, <1>16 DEF call

LEMMA ReturnKeeps ==
    ASSUME CallsInv, NEW t \in Threads, ReturnFromBody(t) \/ ReturnFromCallback(t)
    PROVE  StacksTyped' /\ BarrierRight' /\ stack[t] # <<>>
<1> DEFINE s == stack[t]
           w == stack'[t]
<1>1. StacksTyped /\ BarrierRight
  BY DEF CallsInv
<1>2. stack[t] # <<>> /\ Pops(t)
  BY DEF ReturnFromBody, ReturnFromCallback, IsAt
<1>3. s \in Seq(Call) /\ DepthsRight(s, tls[t])
  BY <1>1 DEF StacksTyped, BarrierRight
<1>4. /\ StacksTyped'
      /\ \A u \in Threads \ {t} : stack'[u] = stack[u]
      /\ w = SubSeq(s, 1, Len(s) - 1)
  BY <1>1, <1>2, PopsStack
<1>5. /\ Len(s) \in DOMAIN s
      /\ DOMAIN w = DOMAIN s \ {Len(s)}
      /\ \A i \in DOMAIN w : w[i] = s[i]
  BY <1>2, <1>3, <1>4, Popped
<1>6. Top(t) = s[Len(s)] /\ CallTyped(Top(t))
  BY <1>1, <1>2, TopIsLast
<1>7. CASE ReturnFromBody(t)
  <2>1. tls' = [tls EXCEPT ![t] = tls'[t]] /\ tls'[t] = tls[t]
    BY <1>1, <1>7 DEF BarrierRight, ReturnFromBody
  <2>2. ~Passed(s[Len(s)])
    BY <1>6, <1>7 DEF ReturnFromBody, IsAt, Passed
  <2> HIDE DEF s, w
  <2>3. DepthsRight(w, tls[t])
    BY <1>3, <1>5, <2>2, DepthsKept
  <2> QED
    BY <1>1, <1>2, <1>4, <2>1, <2>3, BarrierKept DEF w
<1>8. CASE ReturnFromCallback(t)
  <2>1. Passed(Top(t)) /\ Top(t).handle \in Addresses
    BY <1>6, <1>8 DEF ReturnFromCallback, IsAt, Passed, CallTyped
  <2>2. PICK r \in B!Leave(t, Top(t).handle) : tls' = [tls EXCEPT ![t] = r.vector]
    BY <1>8 DEF ReturnFromCallback, HandleToLeave
  <2>3. tls' = [tls EXCEPT ![t] = tls'[t]] /\ tls'[t] = r.vector
    BY <1>1, <2>2 DEF BarrierRight
  <2>4. PICK h \in Addresses : h = Top(t).handle
    BY <2>1
  <2>5. PICK n \in DOMAIN s : n = Len(s)
    BY <1>5
  <2>6. Passed(s[n]) /\ s[n].handle = h /\ r \in B!Leave(t, h)
    BY <1>6, <2>1, <2>2, <2>4, <2>5
  <2>7. DOMAIN w = DOMAIN s \ {n} /\ \A i \in DOMAIN w : w[i] = s[i]
    BY <1>5, <2>5
  <2> HIDE DEF s, w
  <2>8. DepthsRight(w, r.vector)
    BY <1>3, <2>6, <2>7, DepthsLeft
  <2> QED
    BY <1>1, <1>2, <1>4, <2>3, <2>8, BarrierKept DEF w
<1> QED
  BY <1>2, <1>7, <1>8

(* Calls leave the transactions and the chunks alone, and the transactions *)
(* the calls.                                                              *)
ThreadStep(t) ==
    \/ \E k \in Clients : CallFunction(t, k)
    \/ EnterCallback(t)
    \/ CallOriginal(t)
    \/ RefusedCallsOriginal(t)
    \/ RunTrampoline(t)
    \/ ReturnFromBody(t)
    \/ ReturnFromCallback(t)

LEMMA StepKinds ==
    ASSUME NEW t \in Threads
    PROVE  /\ ThreadStep(t) => UNCHANGED vars
           /\ UseInterface(t) => [Next]_vars /\ UNCHANGED <<stack, tls>>
<1>1. ThreadStep(t) => UNCHANGED vars
  BY DEF ThreadStep, CallFunction, EnterCallback, CallOriginal, RefusedCallsOriginal,
         RunTrampoline, ReturnFromBody, ReturnFromCallback
<1>2. UseInterface(t) => Next /\ UNCHANGED <<stack, tls>>
  BY DEF UseInterface, Next
<1> QED
  BY <1>1, <1>2

LEMMA StacksUnchanged ==
    ASSUME StacksTyped, BarrierRight, UNCHANGED <<stack, tls>>
    PROVE  StacksTyped' /\ BarrierRight'
BY DEF StacksTyped, BarrierRight, CallTyped, DepthsRight, Distinct, Inside

LEMMA CallsStep ==
    ASSUME Careful, CallsInv, [EngineNext]_engine_vars
    PROVE  CallsInv'
<1>1. ASSUME NEW t \in Threads, ThreadStep(t)
      PROVE  CallsInv'
  <2>1. StacksTyped' /\ BarrierRight'
    BY <1>1, CallFunctionKeeps, EnterCallbackKeeps, OriginalKeeps, RunTrampolineKeeps, ReturnKeeps
       DEF ThreadStep
  <2>2. UNCHANGED vars
    BY <1>1, StepKinds
  <2>3. PointersInv'
    BY <2>2, PointersStep DEF CallsInv
  <2> QED
    BY <2>1, <2>3 DEF CallsInv
<1>2. ASSUME NEW t \in Threads, UseInterface(t)
      PROVE  CallsInv'
  <2>1. [Next]_vars /\ UNCHANGED <<stack, tls>>
    BY <1>2, StepKinds
  <2> QED
    BY <2>1, PointersStep, StacksUnchanged DEF CallsInv
<1>3. CASE UNCHANGED engine_vars
  <2>1. UNCHANGED vars /\ UNCHANGED <<stack, tls>>
    BY <1>3 DEF engine_vars
  <2> QED
    BY <2>1, PointersStep, StacksUnchanged DEF CallsInv
<1> QED
  BY <1>1, <1>2, <1>3 DEF EngineNext, ThreadStep

LEMMA CallsStart == EngineInit => CallsInv
<1> SUFFICES ASSUME EngineInit PROVE CallsInv
  OBVIOUS
<1>1. /\ Init
      /\ stack = [t \in Threads |-> <<>>]
      /\ tls = [t \in Threads |-> NoChunk]
  BY DEF EngineInit
<1>2. PointersInv
  BY <1>1, PointersInit
<1>3. <<>> \in Seq(Call) /\ DOMAIN <<>> = {}
  BY EmptySeq
<1>4. StacksTyped
  BY <1>1, <1>3 DEF StacksTyped
<1>5. \A h \in Addresses : BP!DepthIs(NoChunk, h, 0) /\ ~Inside(<<>>, h)
  BY <1>3 DEF BP!DepthIs, Inside
<1>6. DepthsRight(<<>>, NoChunk)
  BY <1>3, <1>5 DEF DepthsRight, Distinct
<1>7. BarrierRight
  BY <1>1, <1>6 DEF BarrierRight
<1> QED
  BY <1>2, <1>4, <1>7 DEF CallsInv

LEMMA CallsAlways ==
    ASSUME Careful
    PROVE  EngineSpec => []CallsInv
<1>1. CallsInv /\ [EngineNext]_engine_vars => CallsInv'
  BY CallsStep
<1> QED
  BY <1>1, CallsStart, PTL DEF EngineSpec

-----------------------------------------------------------------------------
(* Effects of the steps of a transaction *)

(* No call fails that would leave the code of a function, or a chunk, in   *)
(* another state than the pointer of the client.                           *)
Reliable ==
    /\ Fails \cap {"push", "write"} = {}
    /\ Faults \cap {"insert", "unprotect", "protect", "remove", "free"} = {}

Op(i) == pending_operations[i]

LEMMA OpsTyped ==
    ASSUME HooksTyped
    PROVE  /\ pending_operations \in Seq(Operation)
           /\ DOMAIN pending_operations = 1 .. Len(pending_operations)
           /\ Len(pending_operations) \in Nat
           /\ ToDo \subseteq DOMAIN pending_operations
           /\ \A i \in DOMAIN pending_operations :
                Op(i) \in Operation /\ Op(i).action \in {"attach", "remove"}
<1>1. pending_operations \in Seq(Operation)
  BY DEF HooksTyped
<1>2. \A i \in DOMAIN pending_operations : Op(i) \in Operation
  BY <1>1 DEF Op
<1>3. \A op \in Operation : op.action \in {"attach", "remove"}
  BY DEF Operation
<1> QED
  BY <1>1, <1>2, <1>3 DEF ToDo

LEMMA FreeSucceeds ==
    ASSUME Reliable, TrampolineInv, Findable, NEW c \in live, Free(c)
    PROVE  live' = live \ {c}
<1>1. c[1] \in regions
  BY DEF Reliable, Findable
<1>2. is_initialized
  BY <1>1 DEF TrampolineInv, RegionsInUse
<1>3. ~FreeFails(c)
  BY <1>1, <1>2 DEF FreeFails, Reliable
<1> QED
  BY <1>3 DEF Free, FreeReturns

(* Begin changes nothing that calls or pointers depend on: the vector of   *)
(* operations was empty before.                                            *)
LEMMA BeginEffect ==
    ASSUME PointersInv, NEW t \in Threads, Begin(t)
    PROVE  /\ UNCHANGED <<tvars, cursor, pending_operations, code, original>>
           /\ ToDo' = ToDo
           /\ \A u \in Threads : pc'[u] \in {"commit", "abort"} => pc[u] \in {"commit", "abort"}
<1>1. /\ pc[t] \in {"idle", "checked", "claimed"}
      /\ \E to \in {"idle", "checked", "claimed", "open"} : pc' = [pc EXCEPT ![t] = to]
      /\ UNCHANGED <<tvars, cursor, code, original>>
  BY DEF Begin, BeginChecks, BeginClaims, BeginIsLate, BeginReturns, BeginFails, Goes, hook_vars
<1>2. pc \in [Threads -> Places] /\ Operations
  BY DEF PointersInv, ThreadsInv
<1>3. pending_operations' = pending_operations
  <2>1. CASE BeginReturns(t)
    <3>1. pc[t] = "claimed"
      BY <2>1 DEF BeginReturns, Goes
    <3>2. \A u \in Threads : pc[u] \notin Owning
      BY <3>1, TransactionAssumption DEF PointersInv, ThreadsInv, Exclusive, Owning
    <3> QED
      BY <1>2, <2>1, <3>2 DEF Operations, BeginReturns
  <2>2. CASE ~BeginReturns(t)
    BY <2>2 DEF Begin, BeginChecks, BeginClaims, BeginIsLate, BeginFails, hook_vars
  <2> QED
    BY <2>1, <2>2
<1>4. \A u \in Threads : pc'[u] \in {"commit", "abort"} <=> pc[u] \in {"commit", "abort"}
  BY <1>1, <1>2
<1>5. ToDo' = ToDo
  BY <1>1, <1>3, <1>4 DEF ToDo
<1> QED
  BY <1>1, <1>3, <1>4, <1>5

LEMMA StartEffect ==
    ASSUME PointersInv, NEW t \in Threads, CommitStarts(t) \/ AbortStarts(t)
    PROVE  /\ UNCHANGED <<tvars, pending_operations, code, original>>
           /\ ToDo' = ToDo
           /\ \A u \in Threads : pc'[u] \in {"commit", "abort"} => u = t /\ cursor'[u] = 1
<1>1. /\ pc[t] = "open" /\ \E to \in {"commit", "abort"} : pc' = [pc EXCEPT ![t] = to]
      /\ cursor' = [cursor EXCEPT ![t] = 1]
      /\ UNCHANGED <<tvars, pending_operations, code, original>>
  BY DEF CommitStarts, AbortStarts, Goes, hook_vars
<1>2. pc \in [Threads -> Places] /\ cursor \in [Threads -> Nat] /\ ThreadsInv /\ HooksTyped
  BY DEF PointersInv, ThreadsInv, HooksTyped
<1>3. /\ ToDo = DOMAIN pending_operations
      /\ \A u \in Threads : pc[u] \notin {"commit", "abort"}
  BY <1>1, <1>2, OpenToDo
<1>4. \A u \in Threads : pc'[u] \in {"commit", "abort"} => u = t /\ cursor'[u] = 1
  BY <1>1, <1>2, <1>3
<1>5. DOMAIN pending_operations = 1 .. Len(pending_operations) /\ Len(pending_operations) \in Nat
  BY <1>2, OpsTyped
<1>6. ToDo' = {i \in DOMAIN pending_operations :
                \A u \in Threads : pc'[u] \in {"commit", "abort"} => cursor'[u] <= i}
  BY <1>1 DEF ToDo
<1>7. ToDo' = DOMAIN pending_operations
  BY <1>4, <1>5, <1>6
<1> QED
  BY <1>1, <1>3, <1>4, <1>7

(* An operation is added. *)
LEMMA PushEffect ==
    ASSUME HooksTyped, NEW action \in {"attach", "remove"}, NEW a \in Functions, NEW c \in Chunks,
           Pushes(action, a, c)
    PROVE  \E n \in Nat :
             /\ n \notin DOMAIN pending_operations
             /\ \A i \in DOMAIN pending_operations : i < n
             /\ DOMAIN pending_operations' = DOMAIN pending_operations \cup {n}
             /\ \A i \in DOMAIN pending_operations : pending_operations'[i] = Op(i)
             /\ pending_operations'[n] = [action |-> action, address |-> a, trampoline |-> c]
<1> DEFINE op == [action |-> action, address |-> a, trampoline |-> c]
           s == pending_operations
           w == pending_operations'
<1>1. op \in Operation
  BY DEF Operation
<1>2. s \in Seq(Operation) /\ DOMAIN s = 1 .. Len(s) /\ Len(s) \in Nat
  BY OpsTyped
<1>3. w = Append(s, op)
  BY DEF Pushes
<1> HIDE DEF op, w
<1>4. /\ Len(w) = Len(s) + 1 /\ Len(w) \notin DOMAIN s
      /\ DOMAIN w = DOMAIN s \cup {Len(w)}
      /\ w[Len(w)] = op
      /\ \A i \in DOMAIN s : w[i] = s[i]
  BY <1>1, <1>2, <1>3, Pushed
<1>5. PICK n \in Nat : n = Len(w)
  BY <1>2, <1>4
<1>6. \A i \in DOMAIN s : i < n
  BY <1>2, <1>4, <1>5
<1> QED
  BY <1>4, <1>5, <1>6 DEF op, w, Op

LEMMA InstallEffect ==
    ASSUME PointersInv, Careful, NEW t \in Threads, NEW k \in Clients, Install(t, k)
    PROVE  /\ pc[t] = "open" /\ UNCHANGED <<pc, cursor, code>>
           /\ original[k] = NoChunk
           /\ ~HasPending(Target[k].address)
           /\ \A d \in live : chunk'[d] = chunk[d]
           /\ \/ live' = live /\ UNCHANGED <<pending_operations, original>>
              \/ \E c \in Chunks :
                    /\ c \notin live /\ live' = live \cup {c}
                    /\ chunk'[c].source = Current(Target[k])
                    /\ original' = [original EXCEPT ![k] = c]
                    /\ \/ Pushes("attach", Target[k].address, c)
                       \/ "push" \in Fails /\ UNCHANGED pending_operations
<1> DEFINE p == Current(Target[k])
<1>1. /\ pc[t] = "open" /\ UNCHANGED <<pc, cursor, code>>
      /\ original[k] = NoChunk
      /\ ~HasPending(Target[k].address)
  BY DEF Install, InTransaction, claim_vars, Careful, ContractRules
<1>2. TrampolineInv /\ Chained /\ Jumps /\ Findable /\ HooksTyped
  BY DEF PointersInv
<1>3. Target[k] \in Prologues
  BY TransactionAssumption
<1>4. /\ WellFormed(p) /\ Target[k].address \in Functions
      /\ p.address = Target[k].address /\ p.code = code[p.address]
  BY <1>2, <1>3, CurrentWellFormed DEF HooksTyped
<1>5. \/ \E c \in Chunks :
            /\ CreateReturns(p, c)
            /\ original' = [original EXCEPT ![k] = c]
            /\ \/ Pushes("attach", p.address, c)
               \/ "push" \in Fails /\ UNCHANGED pending_operations
      \/ (CreateFails(p) \/ CreateFaults(p)) /\ UNCHANGED <<pending_operations, original>>
  BY DEF Install, Delivers
<1> HIDE DEF p
<1>6. CASE CreateFails(p) \/ CreateFaults(p)
  <2>1. live' = live /\ \A d \in live : chunk'[d] = chunk[d]
    BY <1>2, <1>4, <1>6, CreateFailsKeeps
  <2>2. UNCHANGED <<pending_operations, original>> \/ \E c \in Chunks : CreateReturns(p, c)
    BY <1>5
  <2>3. CASE UNCHANGED <<pending_operations, original>>
    BY <1>1, <2>1, <2>3
  <2>4. ASSUME NEW c \in Chunks, CreateReturns(p, c) PROVE FALSE
    BY <1>2, <1>4, <2>1, <2>4, CreateKeeps
  <2> QED
    BY <2>2, <2>3, <2>4
<1>7. ASSUME NEW c \in Chunks, CreateReturns(p, c), original' = [original EXCEPT ![k] = c],
             \/ Pushes("attach", p.address, c)
             \/ "push" \in Fails /\ UNCHANGED pending_operations
      PROVE  /\ \A d \in live : chunk'[d] = chunk[d]
             /\ c \notin live /\ live' = live \cup {c}
             /\ chunk'[c].source = p
  BY <1>2, <1>4, <1>7, CreateKeeps
<1> QED
  BY <1>1, <1>4, <1>5, <1>6, <1>7 DEF p

LEMMA RemoveEffect ==
    ASSUME PointersInv, Careful, NEW t \in Threads, NEW k \in Clients, Remove(t, k)
    PROVE  /\ pc[t] = "open" /\ UNCHANGED <<pc, cursor, code, chunk, live>>
           /\ original[k] \in live
           /\ \/ UNCHANGED <<pending_operations, original>>
              \/ /\ original' = [original EXCEPT ![k] = NoChunk]
                 /\ \/ Pushes("remove", chunk[original[k]].source.address, original[k])
                    \/ "push" \in Fails /\ UNCHANGED pending_operations
<1>1. /\ pc[t] = "open" /\ UNCHANGED <<pc, cursor, code, chunk, live>>
      /\ original[k] \in live
  BY DEF Remove, InTransaction, claim_vars, Careful, ContractRules
<1> QED
  BY <1>1 DEF Remove, ReceivesTarget

(* A step of one of the loops is about an operation that is to be done.    *)
LEMMA LoopEffect ==
    ASSUME PointersInv, NEW t \in Threads, NEW place \in {"commit", "abort"}, InLoop(t, place)
    PROVE  /\ pc[t] = place /\ pc[t] \in Owning
           /\ cursor[t] \in ToDo
           /\ Op(cursor[t]) \in Operation /\ Sound(Op(cursor[t]))
           /\ Op(cursor[t]).trampoline \in live /\ Op(cursor[t]).address \in Functions
           /\ chunk[Op(cursor[t]).trampoline].source.address = Op(cursor[t]).address
           /\ \A u \in Threads : pc[u] \in {"commit", "abort"} => u = t
           /\ Continues(t) /\ UNCHANGED <<pc, pending_operations>> =>
                ToDo' = {j \in ToDo : cursor[t] < j}
<1> DEFINE i == cursor[t]
           ops == pending_operations
<1>1. ThreadsInv /\ HooksTyped /\ Operations
  BY DEF PointersInv
<1>2. pc[t] = place /\ pc[t] \in Owning /\ i \in DOMAIN ops
  BY DEF InLoop, Owning
<1>3. \A u \in Threads : pc[u] \in {"commit", "abort"} => u = t
  BY <1>1, <1>2, OwnerAlone DEF Owning
<1>4. i \in Nat /\ cursor \in [Threads -> Nat] /\ DOMAIN ops = 1 .. Len(ops) /\ Len(ops) \in Nat
  BY <1>1, OpsTyped DEF HooksTyped
<1>5. \A j : j \in ToDo <=> j \in DOMAIN ops /\ i <= j
  BY <1>2, <1>3 DEF ToDo
<1>6. i \in ToDo
  BY <1>2, <1>4, <1>5
<1>7. Op(i) \in Operation /\ Sound(Op(i))
  BY <1>1, <1>2, <1>6, OpsTyped DEF Operations, Op
<1>8. /\ Op(i).trampoline \in live /\ Op(i).address \in Functions
      /\ chunk[Op(i).trampoline].source.address = Op(i).address
  BY <1>7 DEF Sound, Operation
<1>9. ASSUME Continues(t), UNCHANGED <<pc, pending_operations>>
      PROVE  ToDo' = {j \in ToDo : i < j}
  <2>1. cursor'[t] = i + 1
    BY <1>4, <1>9 DEF Continues
  <2>2. \A j : j \in ToDo' <=> j \in DOMAIN ops /\ i + 1 <= j
    BY <1>2, <1>3, <1>9, <2>1 DEF ToDo
  <2>3. \A j \in DOMAIN ops : i + 1 <= j <=> i < j
    BY <1>4
  <2>4. \A j \in DOMAIN ops : i < j => i <= j
    BY <1>4
  <2> QED
    BY <1>5, <2>2, <2>3, <2>4
<1> QED
  BY <1>2, <1>3, <1>6, <1>7, <1>8, <1>9

(* The steps of CommitEx that do what they should. *)
Attaches(t) ==
    /\ Op(cursor[t]).action = "attach"
    /\ code' = [code EXCEPT ![Op(cursor[t]).address] = Op(cursor[t]).trampoline]
    /\ UNCHANGED <<live, chunk>>
    /\ Continues(t)

Detaches(t) ==
    /\ Op(cursor[t]).action = "remove"
    /\ code' = [code EXCEPT ![Op(cursor[t]).address] =
                    chunk[Op(cursor[t]).trampoline].source.code]
    /\ live' = live \ {Op(cursor[t]).trampoline}
    /\ Continues(t)

LEMMA CommitStepEffect ==
    ASSUME PointersInv, NEW t \in Threads, CommitStep(t)
    PROVE  /\ InLoop(t, "commit") /\ UNCHANGED <<pc, pending_operations, original>>
           /\ \E c \in live : /\ live' \subseteq live /\ live \ {c} \subseteq live'
                              /\ c = Op(cursor[t]).trampoline
                              /\ Op(cursor[t]).action = "attach" => live' = live
           /\ \A d \in live' : chunk'[d] = chunk[d]
           /\ Reliable => Attaches(t) \/ Detaches(t)
<1> DEFINE op == Op(cursor[t])
           c == op.trampoline
<1>1. /\ InLoop(t, "commit") /\ UNCHANGED <<pc, pending_operations, original>>
      /\ CommitAttach(t, op) \/ CommitRemove(t, op)
  BY DEF CommitStep, Op
<1>2. /\ TrampolineInv /\ Chained /\ Findable
      /\ c \in live /\ IsNewest(c)
  BY <1>1, LoopEffect DEF PointersInv, Sound
<1>3. ~ReadsFreedMemory(c)
  BY <1>2 DEF ReadsFreedMemory, TrampolineInv, LiveChunksIntact
<1>4. CASE CommitAttach(t, op)
  <2>1. /\ UNCHANGED <<live, chunk>> /\ op.action = "attach"
        /\ \/ code' = [code EXCEPT ![op.address] = c] /\ Continues(t)
           \/ "write" \in Fails
    BY <1>3, <1>4 DEF CommitAttach, tvars, WritesCode, WriteFails
  <2>2. Reliable => Attaches(t)
    BY <2>1 DEF Reliable, Attaches
  <2> QED
    BY <1>1, <1>2, <2>1, <2>2
<1>5. CASE CommitRemove(t, op)
  <2> DEFINE bytes == chunk[c].source.code
  <2>1. /\ op.action = "remove"
        /\ \/ Free(c) /\ code' = [code EXCEPT ![op.address] = bytes]
           \/ "write" \in Fails /\ UNCHANGED tvars
    BY <1>3, <1>5 DEF CommitRemove, WritesCode, WriteFails, Free
  <2>2. /\ live' \subseteq live /\ live \ {c} \subseteq live'
        /\ \A d \in live' : chunk'[d] = chunk[d]
    <3>1. CASE Free(c)
      BY <1>2, <3>1, FreeKeeps
    <3>2. CASE UNCHANGED tvars
      BY <3>2 DEF tvars
    <3> QED
      BY <2>1, <3>1, <3>2
  <2>3. ASSUME Reliable PROVE Detaches(t)
    <3>1. /\ Free(c) /\ code' = [code EXCEPT ![op.address] = bytes]
          /\ ~WriteFails(op.address, bytes)
      BY <2>1, <2>3 DEF Reliable, WriteFails
    <3>2. live' = live \ {c}
      BY <1>2, <2>3, <3>1, FreeSucceeds
    <3>3. ~FreeFails(c)
      <4>1. c[1] \in regions
        BY <1>2, <2>3 DEF Reliable, Findable
      <4>2. is_initialized
        BY <1>2, <4>1 DEF TrampolineInv, RegionsInUse
      <4> QED
        BY <2>3, <4>1, <4>2 DEF FreeFails, Reliable
    <3>4. Continues(t)
      BY <1>3, <1>5, <3>1, <3>3 DEF CommitRemove
    <3> QED
      BY <2>1, <3>1, <3>2, <3>4 DEF Detaches
  <2> QED
    BY <1>1, <1>2, <2>1, <2>2, <2>3
<1> QED
  BY <1>1, <1>4, <1>5

LEMMA AbortStepEffect ==
    ASSUME PointersInv, NEW t \in Threads, AbortStep(t)
    PROVE  /\ InLoop(t, "abort") /\ UNCHANGED <<pc, pending_operations, code, original>>
           /\ Continues(t)
           /\ \E c \in live : /\ live' \subseteq live /\ live \ {c} \subseteq live'
                              /\ c = Op(cursor[t]).trampoline
                              /\ Reliable => live' = live \ {c}
           /\ \A d \in live' : chunk'[d] = chunk[d]
<1> DEFINE c == Op(cursor[t]).trampoline
<1>1. /\ InLoop(t, "abort") /\ UNCHANGED <<pc, pending_operations, code, original>>
      /\ Continues(t) /\ Free(c)
  BY DEF AbortStep, hook_vars, Op
<1>2. TrampolineInv /\ Chained /\ Findable /\ c \in live /\ IsNewest(c)
  BY <1>1, LoopEffect DEF PointersInv, Sound
<1> HIDE DEF c
<1>3. /\ live' \subseteq live /\ live \ {c} \subseteq live'
      /\ \A d \in live' : chunk'[d] = chunk[d]
  BY <1>1, <1>2, FreeKeeps
<1>4. Reliable => live' = live \ {c}
  BY <1>1, <1>2, FreeSucceeds
<1> QED
  BY <1>1, <1>2, <1>3, <1>4 DEF c

LEMMA EndEffect ==
    ASSUME PointersInv, Careful, NEW t \in Threads, CommitEnd(t) \/ AbortEnd(t)
    PROVE  /\ UNCHANGED <<tvars, cursor, code>>
           /\ pending_operations' = <<>> /\ ToDo' = {}
           /\ cursor[t] \notin DOMAIN pending_operations
           /\ pc[t] \in {"commit", "abort"}
           /\ \A u \in Threads : pc[u] \in {"commit", "abort"} => u = t
           /\ \A u \in Threads : pc'[u] \notin {"commit", "abort"}
           /\ \A k \in Clients : original'[k] # NoChunk => original'[k] = original[k]
           /\ \A k \in Clients : original[k] \in live => original'[k] = original[k]
           /\ \A k \in Clients : original'[k] # NoChunk => original'[k] \in live
<1>1. /\ UNCHANGED <<tvars, cursor, code>>
      /\ pending_operations' = <<>>
      /\ cursor[t] \notin DOMAIN pending_operations
      /\ \E place \in {"commit", "abort"} : pc[t] = place /\ pc' = [pc EXCEPT ![t] = "idle"]
  BY DEF CommitEnd, AbortEnd, AtEnd, Goes
<1>2. ThreadsInv /\ HooksTyped /\ Pointers /\ pc \in [Threads -> Places]
  BY DEF PointersInv, ThreadsInv
<1>3. \A u \in Threads : pc[u] \in {"commit", "abort"} => u = t
  BY <1>1, <1>2, OwnerAlone DEF Owning
<1>4. \A u \in Threads : pc'[u] \notin {"commit", "abort"}
  BY <1>1, <1>2, <1>3
<1>5. ToDo' = {}
  BY <1>1, EmptySeq DEF ToDo
<1>6. CASE CommitEnd(t)
  <2>1. original' = original /\ pc[t] = "commit"
    BY <1>6 DEF CommitEnd, AtEnd, Goes
  <2>2. \A u \in Threads : pc[u] # "abort"
    BY <1>3, <2>1
  <2> QED
    BY <1>1, <1>2, <1>3, <1>4, <1>5, <2>1, <2>2 DEF Pointers
<1>7. CASE AbortEnd(t)
  <2>1. original' = [k \in Clients |-> IF original[k] \notin live THEN NoChunk ELSE original[k]]
    BY <1>7 DEF AbortEnd, Careful, ContractRules
  <2> QED
    BY <1>1, <1>3, <1>4, <1>5, <2>1
<1> QED
  BY <1>6, <1>7

-----------------------------------------------------------------------------
(* No thread is in a chunk that was freed *)

Cautious == {"drained", "quiet"} \subseteq Care

(* The chunk a call is in exists, belongs to the function that was called, *)
(* and is not about to be freed.                                           *)
InChunk(call) ==
    call.at \in {"stub", "trampoline"} =>
        /\ call.chunk \in live
        /\ chunk[call.chunk].source.address = Target[call.client].address
        /\ ~HasPending(Target[call.client].address)

FramesLive == \A t \in Threads : \A i \in DOMAIN stack[t] : InChunk(stack[t][i])

(* The pointer of a client is a chunk of its function, or of an operation  *)
(* that Abort has come to.                                                 *)
PointersOwn ==
    \A k \in Clients : original[k] # NoChunk =>
        /\ original[k] \in live => chunk[original[k]].source.address = Target[k].address
        /\ original[k] \notin live => HasPending(Target[k].address)

(* The inductive invariant for processes that drain hooks and are quiet.   *)
LiveInv == CallsInv /\ PointersOwn /\ FramesLive

(* Every call on the new stacks was there before, or is the new one. *)
FromStack(t, call) ==
    \A u \in Threads : \A i \in DOMAIN stack'[u] :
        \/ i \in DOMAIN stack[u] /\ stack'[u][i] = stack[u][i]
        \/ u = t /\ stack'[u][i] = call

LEMMA NewFrame ==
    ASSUME StacksTyped, NEW t \in Threads, NEW call, CallTyped(call),
           Calls(t, call) \/ (stack[t] # <<>> /\ Becomes(t, call))
    PROVE  FromStack(t, call)
<1>1. stack[t] \in Seq(Call) /\ call \in Call
  BY DEF StacksTyped, CallTyped
<1>2. CASE Calls(t, call)
  <2>1. /\ \A u \in Threads \ {t} : stack'[u] = stack[u]
        /\ stack'[t] = Append(stack[t], call)
    BY <1>2, CallsStack
  <2>2. \A i \in DOMAIN stack'[t] :
            (i \in DOMAIN stack[t] /\ stack'[t][i] = stack[t][i]) \/ stack'[t][i] = call
    BY <1>1, <2>1, Pushed
  <2> QED
    BY <2>1, <2>2 DEF FromStack
<1>3. CASE stack[t] # <<>> /\ Becomes(t, call)
  <2>1. /\ \A u \in Threads \ {t} : stack'[u] = stack[u]
        /\ stack'[t] = [stack[t] EXCEPT ![Len(stack[t])] = call]
    BY <1>3, BecomesStack
  <2>2. \A i \in DOMAIN stack'[t] :
            (i \in DOMAIN stack[t] /\ stack'[t][i] = stack[t][i]) \/ stack'[t][i] = call
    BY <1>1, <1>3, <2>1, Replaced
  <2> QED
    BY <2>1, <2>2 DEF FromStack
<1> QED
  BY <1>2, <1>3

LEMMA FewerFrames ==
    ASSUME StacksTyped, NEW t \in Threads, stack[t] # <<>>, Pops(t)
    PROVE  \A call : FromStack(t, call)
<1>1. stack[t] \in Seq(Call)
  BY DEF StacksTyped
<1>2. /\ \A u \in Threads \ {t} : stack'[u] = stack[u]
      /\ stack'[t] = SubSeq(stack[t], 1, Len(stack[t]) - 1)
  BY PopsStack
<1>3. \A i \in DOMAIN stack'[t] : i \in DOMAIN stack[t] /\ stack'[t][i] = stack[t][i]
  BY <1>1, <1>2, Popped
<1> QED
  BY <1>2, <1>3 DEF FromStack

(* The innermost call is in its chunk, and the chunk has the call's client. *)
LEMMA TopInChunk ==
    ASSUME StacksTyped, FramesLive, NEW t \in Threads, stack[t] # <<>>,
           Top(t).at \in {"stub", "trampoline"}
    PROVE  /\ InChunk(Top(t)) /\ Top(t).client \in Clients
           /\ \A k \in Clients :
                Target[k].address = chunk[Top(t).chunk].source.address => k = Top(t).client
<1>1. Top(t).client \in Clients /\ InChunk(Top(t))
  BY TopIsLast DEF CallTyped, Call, FramesLive
<1> QED
  BY <1>1, OneClient DEF InChunk

(* The call of the original is in the client's chunk. *)
LEMMA OriginalInChunk ==
    ASSUME LiveInv, NEW k \in Clients, ~HasPending(Target[k].address)
    PROVE  InChunk(OriginalCalled(k))
<1> DEFINE call == OriginalCalled(k)
<1>1. /\ call.at \in {"stub", "trampoline", "body"}
      /\ call.client = k
      /\ call.at = "trampoline" => original[k] # NoChunk /\ call.chunk = original[k]
      /\ call.at = "stub" => /\ code[Target[k].address] # NoChunk
                             /\ call.chunk = code[Target[k].address]
  BY OriginalCalledTyped DEF LiveInv, CallsInv, PointersInv
<1> HIDE DEF call
<1>2. original[k] # NoChunk =>
        original[k] \in live /\ chunk[original[k]].source.address = Target[k].address
  BY DEF LiveInv, PointersOwn
<1>3. code[Target[k].address] # NoChunk =>
        /\ code[Target[k].address] \in live
        /\ chunk[code[Target[k].address]].source.address = Target[k].address
  BY AddressesTyped DEF LiveInv, CallsInv, PointersInv, Jumps
<1>4. InChunk(call)
  BY <1>1, <1>2, <1>3 DEF InChunk
<1> QED
  BY <1>4 DEF call

LEMMA FunctionInChunk ==
    ASSUME LiveInv, NEW k \in Clients, ~HasPending(Target[k].address)
    PROVE  InChunk(FunctionCalled(k, "name"))
<1> DEFINE call == FunctionCalled(k, "name")
<1>1. /\ call.at \in {"stub", "body"}
      /\ call.client = k
      /\ call.at = "stub" => /\ code[Target[k].address] # NoChunk
                             /\ call.chunk = code[Target[k].address]
  BY FunctionCalledTyped DEF LiveInv, CallsInv, PointersInv
<1> HIDE DEF call
<1>2. code[Target[k].address] # NoChunk =>
        /\ code[Target[k].address] \in live
        /\ chunk[code[Target[k].address]].source.address = Target[k].address
  BY AddressesTyped DEF LiveInv, CallsInv, PointersInv, Jumps
<1>3. InChunk(call)
  BY <1>1, <1>2 DEF InChunk
<1> QED
  BY <1>3 DEF call

(* A step of a call, as what it adds to the stacks. *)
LEMMA ThreadStepFrames ==
    ASSUME LiveInv, Cautious, NEW t \in Threads, ThreadStep(t)
    PROVE  \E call :
             /\ FromStack(t, call) /\ InChunk(call)
             /\ \/ \E k \in Clients : call = FunctionCalled(k, "name")
                \/ \E k \in Clients : Quiet(k) /\ call = OriginalCalled(k)
                \/ \E k \in Clients, status \in {"true", "false"} :
                    /\ stack[t] # <<>> /\ Top(t).at = "stub" /\ k = Top(t).client
                    /\ call = CallbackCall(k, Top(t).through, status)
                \/ call.at = "body"
<1>1. StacksTyped /\ HooksTyped /\ FramesLive /\ CallsInv
  BY DEF LiveInv, CallsInv, PointersInv
<1>2. \A k \in Clients : Quiet(k) => ~HasPending(Target[k].address)
  BY DEF Quiet, Cautious
<1>3. ASSUME NEW k \in Clients, CallFunction(t, k)
      PROVE  /\ FromStack(t, FunctionCalled(k, "name"))
             /\ InChunk(FunctionCalled(k, "name"))
  <2>1. Calls(t, FunctionCalled(k, "name")) /\ ~HasPending(Target[k].address)
    BY <1>2, <1>3 DEF CallFunction
  <2>2. CallTyped(FunctionCalled(k, "name"))
    BY <1>1, FunctionCalledTyped
  <2> QED
    BY <1>1, <2>1, <2>2, NewFrame, FunctionInChunk
<1>4. CASE EnterCallback(t)
  <2>1. PICK k \in Clients, status \in {"true", "false"} :
          /\ Target[k].address = chunk[Top(t).chunk].source.address
          /\ Becomes(t, CallbackCall(k, Top(t).through, status))
          /\ CallTyped(CallbackCall(k, Top(t).through, status))
    BY <1>1, <1>4, EnterCallbackKeeps
  <2>2. stack[t] # <<>> /\ Top(t).at = "stub"
    BY <1>4 DEF EnterCallback, IsAt
  <2>3. k = Top(t).client /\ Top(t).through \in {"name", "pointer"}
    BY <1>1, <2>1, <2>2, TopInChunk, TopIsLast DEF CallTyped, Call
  <2>4. CallbackCall(k, Top(t).through, status).at = "callback"
    BY <1>1, <2>3, CallbackCallTyped
  <2>5. InChunk(CallbackCall(k, Top(t).through, status))
    BY <2>4 DEF InChunk
  <2>6. FromStack(t, CallbackCall(k, Top(t).through, status))
    BY <1>1, <2>1, <2>2, NewFrame
  <2> QED
    BY <2>2, <2>3, <2>5, <2>6
<1>5. CASE CallOriginal(t) \/ RefusedCallsOriginal(t)
  <2>1. Top(t).client \in Clients /\ stack[t] # <<>>
    BY <1>1, <1>5, OriginalKeeps
  <2>2. PICK k \in Clients : k = Top(t).client
    BY <2>1
  <2>3. /\ Quiet(k)
        /\ Calls(t, OriginalCalled(k)) \/ Becomes(t, OriginalCalled(k))
    BY <1>5, <2>2 DEF CallOriginal, RefusedCallsOriginal
  <2>4. CallTyped(OriginalCalled(k))
    BY <1>1, OriginalCalledTyped
  <2>5. FromStack(t, OriginalCalled(k)) /\ InChunk(OriginalCalled(k))
    BY <1>1, <1>2, <2>1, <2>3, <2>4, NewFrame, OriginalInChunk
  <2> QED
    BY <2>3, <2>5
<1>6. CASE RunTrampoline(t)
  <2>1. PICK k \in Clients : Becomes(t, NewCall("body", k, Top(t).through, NoChunk))
    BY <1>6 DEF RunTrampoline
  <2>2. stack[t] # <<>>
    BY <1>6 DEF RunTrampoline, IsAt
  <2> DEFINE call == NewCall("body", k, Top(t).through, NoChunk)
  <2>3. Top(t).through \in {"name", "pointer"}
    BY <1>1, <2>2, TopIsLast DEF CallTyped, Call
  <2>4. CallTyped(call) /\ call.at = "body"
    BY <2>3, NewCallTyped
  <2>5. InChunk(call)
    BY <2>4 DEF InChunk
  <2>6. FromStack(t, call)
    BY <1>1, <2>1, <2>2, <2>4, NewFrame
  <2> QED
    BY <2>4, <2>5, <2>6
<1>7. CASE ReturnFromBody(t) \/ ReturnFromCallback(t)
  <2>1. stack[t] # <<>> /\ Pops(t)
    BY <1>7 DEF ReturnFromBody, ReturnFromCallback, IsAt
  (* Nothing is added; a call of the body stands for it. *)
  <2>2. PICK call : call = [at |-> "body"]
    OBVIOUS
  <2>3. call.at = "body" /\ InChunk(call)
    BY <2>2 DEF InChunk
  <2>4. FromStack(t, call)
    BY <1>1, <2>1, FewerFrames
  <2> QED
    BY <2>3, <2>4
<1> QED
  BY <1>3, <1>4, <1>5, <1>6, <1>7 DEF ThreadStep

(* Chunks are freed, and operations requested, under no thread's feet. *)
LEMMA FramesStayLive ==
    ASSUME StacksTyped, FramesLive, UNCHANGED stack,
           \A c \in live :
                \/ HasPending(chunk[c].source.address)
                \/ c \in live' /\ chunk'[c].source.address = chunk[c].source.address,
           \A k \in Clients :
                HasPending(Target[k].address)' => HasPending(Target[k].address) \/ Drained(k)
    PROVE  FramesLive'
<1> SUFFICES ASSUME NEW t \in Threads, NEW i \in DOMAIN stack[t]
             PROVE  InChunk(stack[t][i])'
  BY DEF FramesLive
<1> DEFINE call == stack[t][i]
<1>1. call.client \in Clients /\ InChunk(call)
  BY DEF StacksTyped, CallTyped, Call, FramesLive
<1>2. CASE call.at \in {"stub", "trampoline"}
  <2>1. /\ call.chunk \in live
        /\ chunk[call.chunk].source.address = Target[call.client].address
        /\ ~HasPending(Target[call.client].address)
    BY <1>1, <1>2 DEF InChunk
  <2>2. ~Drained(call.client)
    BY <1>2 DEF Drained
  <2>3. call.chunk \in live' /\ chunk'[call.chunk].source.address = Target[call.client].address
    BY <2>1
  <2>4. ~HasPending(Target[call.client].address)'
    BY <1>1, <2>1, <2>2
  <2> QED
    BY <1>1, <2>3, <2>4 DEF InChunk
<1>3. CASE call.at \notin {"stub", "trampoline"}
  BY <1>3 DEF InChunk
<1> QED
  BY <1>2, <1>3

(* What an operation that is added makes pending. *)
LEMMA PushPending ==
    ASSUME HooksTyped, NEW action \in {"attach", "remove"}, NEW a \in Functions, NEW c \in Chunks,
           Pushes(action, a, c)
    PROVE  \A b : HasPending(b)' => HasPending(b) \/ b = a
<1>1. PICK n \in Nat :
             /\ DOMAIN pending_operations' = DOMAIN pending_operations \cup {n}
             /\ \A i \in DOMAIN pending_operations : pending_operations'[i] = Op(i)
             /\ pending_operations'[n] = [action |-> action, address |-> a, trampoline |-> c]
  BY PushEffect
<1> QED
  BY <1>1 DEF HasPending, Op

LEMMA InterfaceLive ==
    ASSUME Careful, Cautious, LiveInv, NEW t \in Threads, UseInterface(t)
    PROVE  PointersOwn' /\ FramesLive'
<1>1. /\ StacksTyped /\ FramesLive /\ PointersOwn /\ PointersInv /\ HooksTyped /\ ThreadsInv
      /\ Pointers
  BY DEF LiveInv, CallsInv, PointersInv
<1>2. UNCHANGED stack
  BY DEF UseInterface
<1>3. \A k \in Clients : original[k] \in Chunks \cup {NoChunk}
  BY <1>1 DEF HooksTyped
<1>4. live \subseteq Chunks /\ NoChunk \notin Chunks
  BY <1>1, TrampolineAssumption DEF PointersInv, TrampolineInv, TrampolineTypeOK
<1>5. ASSUME UNCHANGED <<tvars, pending_operations, original>>
      PROVE  PointersOwn' /\ FramesLive'
  <2>1. PointersOwn'
    BY <1>1, <1>5 DEF PointersOwn, HasPending, tvars
  <2>2. FramesLive'
    BY <1>1, <1>2, <1>5 DEF FramesLive, InChunk, HasPending, tvars
  <2> QED
    BY <2>1, <2>2
<1>6. CASE Begin(t) \/ CommitStarts(t) \/ AbortStarts(t)
  BY <1>1, <1>5, <1>6, BeginEffect, StartEffect
<1>7. ASSUME NEW k \in Clients, Install(t, k), MayInstall(k)
      PROVE  PointersOwn' /\ FramesLive'
  <2> DEFINE a == Target[k].address
  <2>1. /\ pc[t] = "open" /\ UNCHANGED <<pc, cursor, code>>
        /\ \A d \in live : chunk'[d] = chunk[d]
        /\ \/ live' = live /\ UNCHANGED <<pending_operations, original>>
           \/ \E c \in Chunks :
                 /\ c \notin live /\ live' = live \cup {c}
                 /\ chunk'[c].source = Current(Target[k])
                 /\ original' = [original EXCEPT ![k] = c]
                 /\ Pushes("attach", a, c) \/ UNCHANGED pending_operations
    BY <1>1, <1>7, InstallEffect
  <2>2. Drained(k) /\ a \in Functions
    BY <1>7, AddressesTyped DEF MayInstall, Cautious
  <2>3. \A j \in Clients : original[j] # NoChunk => original[j] \in live
    <3>1. \A u \in Threads : pc[u] # "abort"
      BY <1>1, <2>1, OpenToDo
    <3> QED
      BY <1>1, <3>1 DEF Pointers
  <2>4. CASE live' = live /\ UNCHANGED <<pending_operations, original>>
    <3>1. PointersOwn'
      BY <1>1, <2>1, <2>4 DEF PointersOwn, HasPending
    <3>2. FramesLive'
      BY <1>1, <1>2, <2>1, <2>4, FramesStayLive DEF HasPending
    <3> QED
      BY <3>1, <3>2
  <2>5. ASSUME NEW c \in Chunks, c \notin live, live' = live \cup {c},
               chunk'[c].source = Current(Target[k]),
               original' = [original EXCEPT ![k] = c],
               Pushes("attach", a, c) \/ UNCHANGED pending_operations
        PROVE  PointersOwn' /\ FramesLive'
    <3>1. \A b : HasPending(b)' => HasPending(b) \/ b = a
      <4>1. CASE Pushes("attach", a, c)
        BY <1>1, <2>2, <4>1, PushPending
      <4>2. CASE UNCHANGED pending_operations
        BY <4>2 DEF HasPending
      <4> QED
        BY <2>5, <4>1, <4>2
    <3>2. \A j \in Clients :
            HasPending(Target[j].address)' => HasPending(Target[j].address) \/ Drained(j)
      BY <2>2, <3>1, OneClient
    <3>3. FramesLive'
      BY <1>1, <1>2, <2>1, <2>5, <3>2, FramesStayLive
    <3>4. Current(Target[k]).address = a
      BY <1>1, TransactionAssumption, CurrentWellFormed DEF HooksTyped
    <3>5. original \in [Clients -> Chunks \cup {NoChunk}]
      BY <1>1 DEF HooksTyped
    <3>6. \A j \in Clients : original'[j] # NoChunk =>
            original'[j] \in live' /\ chunk'[original'[j]].source.address = Target[j].address
      BY <1>1, <2>1, <2>3, <2>5, <3>4, <3>5 DEF PointersOwn
    <3>7. PointersOwn'
      BY <3>6 DEF PointersOwn
    <3> QED
      BY <3>3, <3>7
  <2> QED
    BY <2>1, <2>4, <2>5
<1>8. ASSUME NEW k \in Clients, Remove(t, k), MayRemove(k)
      PROVE  PointersOwn' /\ FramesLive'
  <2> DEFINE a == Target[k].address
             c == original[k]
  <2>1. /\ pc[t] = "open" /\ UNCHANGED <<pc, cursor, code, chunk, live>>
        /\ c \in live
        /\ \/ UNCHANGED <<pending_operations, original>>
           \/ /\ original' = [original EXCEPT ![k] = NoChunk]
              /\ Pushes("remove", chunk[c].source.address, c) \/ UNCHANGED pending_operations
    BY <1>1, <1>8, RemoveEffect
  <2>2. Drained(k) /\ a \in Functions /\ chunk[c].source.address = a /\ c \in Chunks
    BY <1>1, <1>4, <1>8, <2>1, AddressesTyped DEF MayRemove, Cautious, PointersOwn
  <2>3. \A j \in Clients : original[j] # NoChunk => original[j] \in live
    <3>1. \A u \in Threads : pc[u] # "abort"
      BY <1>1, <2>1, OpenToDo
    <3> QED
      BY <1>1, <3>1 DEF Pointers
  <2>4. \A b : HasPending(b)' => HasPending(b) \/ b = a
    <3>1. CASE Pushes("remove", a, c)
      BY <1>1, <2>2, <3>1, PushPending
    <3>2. CASE UNCHANGED pending_operations
      BY <3>2 DEF HasPending
    <3> QED
      BY <2>1, <2>2, <3>1, <3>2
  <2>5. \A j \in Clients :
          HasPending(Target[j].address)' => HasPending(Target[j].address) \/ Drained(j)
    BY <2>2, <2>4, OneClient
  <2>6. FramesLive'
    BY <1>1, <1>2, <2>1, <2>5, FramesStayLive
  <2>7. \A j \in Clients : original'[j] # NoChunk => original'[j] = original[j]
    BY <1>1, <2>1 DEF HooksTyped
  <2>8. \A j \in Clients : original'[j] # NoChunk =>
          original'[j] \in live' /\ chunk'[original'[j]].source.address = Target[j].address
    BY <1>1, <2>1, <2>3, <2>7 DEF PointersOwn
  <2> QED
    BY <2>6, <2>8 DEF PointersOwn
<1>9. CASE CommitStep(t) \/ AbortStep(t)
  <2>1. PICK place \in {"commit", "abort"} :
          /\ InLoop(t, place)
          /\ place = "commit" => CommitStep(t)
          /\ UNCHANGED <<pc, pending_operations, original>>
    BY <1>1, <1>9, CommitStepEffect, AbortStepEffect
  <2>2. PICK c \in live :
          /\ live' \subseteq live /\ live \ {c} \subseteq live'
          /\ c = Op(cursor[t]).trampoline
          /\ Op(cursor[t]).action = "attach" => live' = live \/ place = "abort"
    BY <1>1, <1>9, <2>1, CommitStepEffect, AbortStepEffect DEF InLoop
  <2>3. \A d \in live' : chunk'[d] = chunk[d]
    BY <1>1, <1>9, CommitStepEffect, AbortStepEffect
  <2>4. /\ pc[t] = place /\ cursor[t] \in ToDo /\ Sound(Op(cursor[t]))
        /\ chunk[c].source.address = Op(cursor[t]).address
        /\ Op(cursor[t]).action \in {"attach", "remove"}
        /\ \A u \in Threads : pc[u] \in {"commit", "abort"} => u = t
    BY <1>1, <2>1, <2>2, LoopEffect DEF Operation
  <2>5. HasPending(chunk[c].source.address)
    BY <1>1, <2>4, OpsTyped DEF HasPending, Op
  <2>6. \A b : HasPending(b)' <=> HasPending(b)
    BY <2>1 DEF HasPending
  <2>7. FramesLive'
    <3>1. \A d \in live :
                \/ HasPending(chunk[d].source.address)
                \/ d \in live' /\ chunk'[d].source.address = chunk[d].source.address
      BY <2>2, <2>3, <2>5
    <3> QED
      BY <1>1, <1>2, <2>6, <3>1, FramesStayLive
  <2>8. ASSUME NEW k \in Clients, original'[k] # NoChunk
        PROVE  /\ original'[k] \in live' =>
                    chunk'[original'[k]].source.address = Target[k].address
               /\ original'[k] \notin live' => HasPending(Target[k].address)'
    <3>1. original'[k] = original[k]
      BY <2>1
    <3>2. CASE original[k] \in live'
      BY <1>1, <2>2, <2>3, <2>8, <3>1, <3>2 DEF PointersOwn
    <3>3. CASE original[k] \in live \ live'
      <4>1. original[k] = c /\ chunk[c].source.address = Target[k].address
        BY <1>1, <2>2, <2>8, <3>1, <3>3 DEF PointersOwn
      <4> QED
        BY <2>5, <2>6, <3>1, <3>3, <4>1
    <3>4. CASE original[k] \notin live
      BY <1>1, <2>2, <2>6, <2>8, <3>1, <3>4 DEF PointersOwn
    <3> QED
      BY <3>2, <3>3, <3>4
  <2>9. PointersOwn'
    BY <2>8 DEF PointersOwn
  <2> QED
    BY <2>7, <2>9
<1>10. CASE CommitEnd(t) \/ AbortEnd(t)
  <2>1. /\ UNCHANGED tvars
        /\ pending_operations' = <<>>
        /\ \A k \in Clients : original'[k] # NoChunk => original'[k] = original[k]
        /\ \A k \in Clients : original'[k] # NoChunk => original'[k] \in live
    BY <1>1, <1>10, EndEffect
  <2>2. \A b : ~HasPending(b)'
    BY <2>1, EmptySeq DEF HasPending
  <2>3. FramesLive'
    BY <1>1, <1>2, <2>1, <2>2, FramesStayLive DEF tvars
  <2>4. PointersOwn'
    BY <1>1, <2>1 DEF PointersOwn, tvars
  <2> QED
    BY <2>3, <2>4
<1> QED
  BY <1>6, <1>7, <1>8, <1>9, <1>10 DEF UseInterface, Ends

LEMMA LiveStep ==
    ASSUME Careful, Cautious, LiveInv, [EngineNext]_engine_vars
    PROVE  LiveInv'
<1>1. CallsInv'
  BY CallsStep DEF LiveInv
<1>2. ASSUME NEW t \in Threads, ThreadStep(t)
      PROVE  PointersOwn' /\ FramesLive'
  <2>1. PICK call : FromStack(t, call) /\ InChunk(call)
    BY <1>2, ThreadStepFrames
  <2>2. UNCHANGED vars
    BY <1>2, StepKinds
  <2>3. UNCHANGED <<live, chunk, original, pending_operations>>
    BY <2>2 DEF vars, tvars, hook_vars
  <2>4. PointersOwn'
    BY <2>3 DEF LiveInv, PointersOwn, HasPending
  <2>5. \A u \in Threads : \A i \in DOMAIN stack'[u] : InChunk(stack'[u][i])
    BY <2>1 DEF LiveInv, FramesLive, FromStack
  <2>6. FramesLive'
    BY <2>3, <2>5 DEF FramesLive, InChunk, HasPending
  <2> QED
    BY <2>4, <2>6
<1>3. ASSUME NEW t \in Threads, UseInterface(t)
      PROVE  PointersOwn' /\ FramesLive'
  BY <1>3, InterfaceLive
<1>4. ASSUME UNCHANGED engine_vars
      PROVE  PointersOwn' /\ FramesLive'
  <2>1. UNCHANGED <<live, chunk, original, pending_operations, stack>>
    BY <1>4 DEF engine_vars, vars, tvars, hook_vars
  <2> QED
    BY <2>1 DEF LiveInv, PointersOwn, FramesLive, InChunk, HasPending
<1>5. PointersOwn' /\ FramesLive'
  BY <1>2, <1>3, <1>4 DEF EngineNext, ThreadStep
<1> QED
  BY <1>1, <1>5 DEF LiveInv

LEMMA LiveStart == EngineInit => LiveInv
<1> SUFFICES ASSUME EngineInit PROVE LiveInv
  OBVIOUS
<1>1. original = [k \in Clients |-> NoChunk] /\ stack = [t \in Threads |-> <<>>]
  BY DEF EngineInit, Init
<1>2. PointersOwn
  BY <1>1 DEF PointersOwn
<1>3. FramesLive
  BY <1>1, EmptySeq DEF FramesLive
<1> QED
  BY <1>2, <1>3, CallsStart DEF LiveInv

LEMMA LiveAlways ==
    ASSUME Careful, Cautious
    PROVE  EngineSpec => []LiveInv
<1>1. LiveInv /\ [EngineNext]_engine_vars => LiveInv'
  BY LiveStep
<1> QED
  BY <1>1, LiveStart, PTL DEF EngineSpec

-----------------------------------------------------------------------------
(* The original function is never the hook *)

LoopsCount == \A t \in Threads : pc[t] \in {"commit", "abort"} => cursor[t] # 0

RemovalToDo(c) == \E i \in ToDo : Op(i).action = "remove" /\ Op(i).trampoline = c

(* A chunk is made of the function as compiled ... *)
Unchained == \A c \in live : chunk[c].source.code = NoChunk

(* ... and is the pointer of the function's client, until it is to be      *)
(* removed.                                                                *)
ChunksOwned ==
    \A c \in live, k \in Clients :
        chunk[c].source.address = Target[k].address => original[k] = c \/ RemovalToDo(c)

RemovalsForgotten ==
    \A i \in ToDo, k \in Clients :
        Op(i).action = "remove" /\ Op(i).address = Target[k].address => original[k] = NoChunk

AttachmentsFree == \A i \in ToDo : Op(i).action = "attach" => code[Op(i).address] = NoChunk

(* Two operations on a function are an attachment and a removal. *)
OneByOne ==
    \A i, j \in ToDo :
        i < j /\ Op(i).address = Op(j).address => Op(i).action = "attach" /\ Op(j).action = "remove"

Settled ==
    LoopsCount /\ Unchained /\ ChunksOwned /\ RemovalsForgotten /\ AttachmentsFree /\ OneByOne

(* The stub a thread is in is still that of the function, and the thread   *)
(* did not come there through a pointer.                                   *)
AtHook(call) ==
    /\ call.at = "stub" => code[Target[call.client].address] = call.chunk
    /\ call.through = "pointer" => call.at \in {"trampoline", "body"}

FramesAtHook == \A t \in Threads : \A i \in DOMAIN stack[t] : AtHook(stack[t][i])

(* The inductive invariant where, besides, no call leaves a hook half made *)
(* or half removed.                                                        *)
OriginInv == LiveInv /\ Settled /\ FramesAtHook

(* Where nothing is pending, the only chunk of a function is that of the   *)
(* pointer of its client, and the function does not jump anywhere else.    *)
LEMMA QuietOwned ==
    ASSUME PointersInv, ChunksOwned, NEW k \in Clients, ~HasPending(Target[k].address)
    PROVE  /\ \A c \in live : chunk[c].source.address = Target[k].address => original[k] = c
           /\ code[Target[k].address] # NoChunk => original[k] = code[Target[k].address]
<1>1. HooksTyped /\ Operations /\ Jumps
  BY DEF PointersInv
<1>2. ASSUME NEW c \in live, chunk[c].source.address = Target[k].address
      PROVE  original[k] = c
  <2>1. ~RemovalToDo(c)
    <3> SUFFICES ASSUME NEW i \in ToDo, Op(i).trampoline = c PROVE FALSE
      BY DEF RemovalToDo
    <3>1. Sound(Op(i))
      BY <1>1 DEF Operations, Op
    <3>2. Op(i).address = Target[k].address /\ i \in DOMAIN pending_operations
      BY <1>1, <1>2, <3>1, OpsTyped DEF Sound
    <3> QED
      BY <3>2 DEF HasPending, Op
  <2> QED
    BY <1>2, <2>1 DEF ChunksOwned
<1>3. code[Target[k].address] # NoChunk => original[k] = code[Target[k].address]
  BY <1>1, <1>2, AddressesTyped DEF Jumps
<1> QED
  BY <1>2, <1>3

(* Nothing changes for the hooks. *)
LEMMA SettledKept ==
    ASSUME Settled, UNCHANGED <<live, code, original, pending_operations>>,
           \A c \in live : chunk'[c] = chunk[c],
           ToDo' = ToDo, LoopsCount'
    PROVE  Settled'
BY DEF Settled, Unchained, ChunksOwned, RemovalToDo, RemovalsForgotten, AttachmentsFree,
       OneByOne, Op

LEMMA InstallSettled ==
    ASSUME Careful, Reliable, PointersInv, Settled,
           NEW t \in Threads, NEW k \in Clients, Install(t, k)
    PROVE  Settled'
<1> DEFINE a == Target[k].address
<1>1. /\ pc[t] = "open" /\ UNCHANGED <<pc, cursor, code>>
      /\ original[k] = NoChunk
      /\ ~HasPending(a)
      /\ \A d \in live : chunk'[d] = chunk[d]
      /\ \/ live' = live /\ UNCHANGED <<pending_operations, original>>
         \/ \E c \in Chunks :
               /\ c \notin live /\ live' = live \cup {c}
               /\ chunk'[c].source = Current(Target[k])
               /\ original' = [original EXCEPT ![k] = c]
               /\ Pushes("attach", a, c)
  BY InstallEffect DEF Reliable
<1>2. ThreadsInv /\ HooksTyped /\ Operations
  BY DEF PointersInv
<1>3. /\ ToDo = DOMAIN pending_operations
      /\ \A u \in Threads : pc[u] \notin {"commit", "abort"}
  BY <1>1, <1>2, OpenToDo
<1>4. ToDo' = DOMAIN pending_operations' /\ LoopsCount'
  BY <1>1, <1>3 DEF ToDo, LoopsCount
<1>5. CASE live' = live /\ UNCHANGED <<pending_operations, original>>
  BY <1>1, <1>3, <1>4, <1>5, SettledKept
<1>6. ASSUME NEW c \in Chunks, c \notin live, live' = live \cup {c},
             chunk'[c].source = Current(Target[k]),
             original' = [original EXCEPT ![k] = c],
             Pushes("attach", a, c)
      PROVE  Settled'
  <2>1. a \in Functions
    BY AddressesTyped
  <2>2. PICK n \in Nat :
             /\ n \notin ToDo
             /\ \A i \in ToDo : i < n
             /\ ToDo' = ToDo \cup {n}
             /\ \A i \in ToDo : pending_operations'[i] = Op(i)
             /\ pending_operations'[n] = [action |-> "attach", address |-> a, trampoline |-> c]
    BY <1>2, <1>3, <1>4, <1>6, <2>1, PushEffect
  <2>3. \A i \in ToDo : Op(i).address # a
    BY <1>1, <1>3 DEF HasPending, Op
  <2>4. /\ \A d \in live : chunk[d].source.address = a => original[k] = d
        /\ code[a] # NoChunk => original[k] = code[a]
    BY <1>1, QuietOwned DEF Settled
  <2>5. live \subseteq Chunks /\ NoChunk \notin Chunks
    BY TrampolineAssumption DEF PointersInv, TrampolineInv, TrampolineTypeOK
  <2>6. code[a] = NoChunk /\ \A d \in live : chunk[d].source.address # a
    BY <1>1, <2>4, <2>5
  <2>7. chunk'[c].source.code = NoChunk /\ chunk'[c].source.address = a
    <3>1. Target[k] \in Prologues /\ Target[k].code = NoChunk
      BY TransactionAssumption
    <3> QED
      BY <1>6, <2>6, <3>1 DEF Current
  <2>8. /\ original'[k] = c
        /\ \A j \in Clients \ {k} : original'[j] = original[j]
    BY <1>2, <1>6 DEF HooksTyped
  <2>9. Unchained'
    BY <1>1, <1>6, <2>7 DEF Settled, Unchained
  <2>10. ChunksOwned'
    <3> SUFFICES ASSUME NEW d \in live', NEW j \in Clients,
                        chunk'[d].source.address = Target[j].address
                 PROVE  original'[j] = d \/ RemovalToDo(d)'
      BY DEF ChunksOwned
    <3>1. CASE d = c
      BY <2>7, <2>8, <3>1, OneClient
    <3>2. CASE d \in live
      <4>1. chunk[d].source.address = Target[j].address /\ j # k
        BY <1>1, <2>6, <3>2
      <4>2. original[j] = d \/ RemovalToDo(d)
        BY <3>2, <4>1 DEF Settled, ChunksOwned
      <4>3. RemovalToDo(d) => RemovalToDo(d)'
        BY <2>2 DEF RemovalToDo, Op
      <4> QED
        BY <2>8, <4>1, <4>2, <4>3
    <3> QED
      BY <1>6, <3>1, <3>2
  <2>11. RemovalsForgotten'
    <3> SUFFICES ASSUME NEW i \in ToDo', NEW j \in Clients,
                        pending_operations'[i].action = "remove",
                        pending_operations'[i].address = Target[j].address
                 PROVE  original'[j] = NoChunk
      BY DEF RemovalsForgotten, Op
    <3>1. i \in ToDo /\ pending_operations'[i] = Op(i)
      BY <2>2
    <3>2. j # k /\ original[j] = NoChunk
      BY <2>3, <3>1 DEF Settled, RemovalsForgotten
    <3> QED
      BY <2>8, <3>2
  <2>12. AttachmentsFree'
    BY <1>1, <2>2, <2>6 DEF Settled, AttachmentsFree, Op
  <2>13. OneByOne'
    <3> SUFFICES ASSUME NEW i \in ToDo', NEW j \in ToDo', i < j,
                        pending_operations'[i].address = pending_operations'[j].address
                 PROVE  /\ pending_operations'[i].action = "attach"
                        /\ pending_operations'[j].action = "remove"
      BY DEF OneByOne, Op
    <3>1. CASE i \in ToDo /\ j \in ToDo
      BY <2>2, <3>1 DEF Settled, OneByOne
    <3>2. CASE j = n /\ i \in ToDo
      <4>1. pending_operations'[i].address = Op(i).address
        BY <2>2, <3>2
      <4>2. pending_operations'[j].address = a
        BY <2>2, <3>2
      <4> QED
        BY <2>3, <3>2, <4>1, <4>2
    <3>3. CASE i = n
      <4>1. j \in ToDo \/ j = n
        BY <2>2
      <4>2. \A m \in ToDo : m \in Nat
        BY <1>2, <1>3, OpsTyped
      <4>3. ~(n < n) /\ \A m \in ToDo : m < n => ~(n < m)
        BY <4>2
      <4>4. \A m \in ToDo : ~(n < m)
        BY <2>2, <4>3
      <4> QED
        BY <3>3, <4>1, <4>3, <4>4
    <3> QED
      BY <2>2, <3>1, <3>2, <3>3
  <2> QED
    BY <1>4, <2>9, <2>10, <2>11, <2>12, <2>13 DEF Settled
<1> QED
  BY <1>1, <1>5, <1>6

LEMMA RemoveSettled ==
    ASSUME Careful, Reliable, PointersInv, PointersOwn, Settled,
           NEW t \in Threads, NEW k \in Clients, Remove(t, k)
    PROVE  Settled'
<1> DEFINE a == Target[k].address
<1>0. PICK c : c = original[k]
  OBVIOUS
<1>1. /\ pc[t] = "open" /\ UNCHANGED <<pc, cursor, code, chunk, live>>
      /\ c \in live
      /\ \/ UNCHANGED <<pending_operations, original>>
         \/ /\ original' = [original EXCEPT ![k] = NoChunk]
            /\ Pushes("remove", chunk[c].source.address, c)
  BY <1>0, RemoveEffect DEF Reliable
<1>2. ThreadsInv /\ HooksTyped /\ Operations
  BY DEF PointersInv
<1>3. /\ ToDo = DOMAIN pending_operations
      /\ \A u \in Threads : pc[u] \notin {"commit", "abort"}
  BY <1>1, <1>2, OpenToDo
<1>4. ToDo' = DOMAIN pending_operations' /\ LoopsCount'
  BY <1>1, <1>3 DEF ToDo, LoopsCount
<1>5. c \in Chunks /\ c # NoChunk
  BY <1>1, TrampolineAssumption DEF PointersInv, TrampolineInv, TrampolineTypeOK
<1>6. a \in Functions /\ chunk[c].source.address = a
  BY <1>0, <1>1, <1>5, AddressesTyped DEF PointersOwn
<1>7. CASE UNCHANGED <<pending_operations, original>>
  BY <1>1, <1>3, <1>4, <1>7, SettledKept
<1>8. CASE /\ original' = [original EXCEPT ![k] = NoChunk]
           /\ Pushes("remove", chunk[c].source.address, c)
  <2>0. Pushes("remove", a, c)
    BY <1>6, <1>8
  <2>1. PICK n \in Nat :
             /\ n \notin ToDo
             /\ \A i \in ToDo : i < n
             /\ ToDo' = ToDo \cup {n}
             /\ \A i \in ToDo : pending_operations'[i] = Op(i)
             /\ pending_operations'[n] = [action |-> "remove", address |-> a, trampoline |-> c]
    BY <1>2, <1>3, <1>4, <1>5, <1>6, <2>0, PushEffect
  <2>2. /\ original'[k] = NoChunk
        /\ \A j \in Clients \ {k} : original'[j] = original[j]
    BY <1>2, <1>8 DEF HooksTyped
  <2>3. \A d : RemovalToDo(d) => RemovalToDo(d)'
    BY <2>1 DEF RemovalToDo, Op
  <2>4. RemovalToDo(c)'
    BY <2>1 DEF RemovalToDo, Op
  <2>5. ChunksOwned'
    <3> SUFFICES ASSUME NEW d \in live, NEW j \in Clients,
                        chunk[d].source.address = Target[j].address
                 PROVE  original'[j] = d \/ RemovalToDo(d)'
      BY <1>1 DEF ChunksOwned
    <3>1. original[j] = d \/ RemovalToDo(d)
      BY DEF Settled, ChunksOwned
    <3> QED
      BY <1>0, <2>2, <2>3, <2>4, <3>1
  <2>6. RemovalsForgotten'
    <3> SUFFICES ASSUME NEW i \in ToDo', NEW j \in Clients,
                        pending_operations'[i].action = "remove",
                        pending_operations'[i].address = Target[j].address
                 PROVE  original'[j] = NoChunk
      BY DEF RemovalsForgotten, Op
    <3>1. CASE i \in ToDo
      <4>1. original[j] = NoChunk
        BY <2>1, <3>1 DEF Settled, RemovalsForgotten
      <4> QED
        BY <2>2, <4>1
    <3>2. CASE i = n
      BY <2>1, <2>2, <3>2, OneClient
    <3> QED
      BY <2>1, <3>1, <3>2
  <2>7. AttachmentsFree'
    BY <1>1, <2>1 DEF Settled, AttachmentsFree, Op
  <2>8. OneByOne'
    <3> SUFFICES ASSUME NEW i \in ToDo', NEW j \in ToDo', i < j,
                        pending_operations'[i].address = pending_operations'[j].address
                 PROVE  /\ pending_operations'[i].action = "attach"
                        /\ pending_operations'[j].action = "remove"
      BY DEF OneByOne, Op
    <3>1. CASE i \in ToDo /\ j \in ToDo
      BY <2>1, <3>1 DEF Settled, OneByOne
    <3>2. CASE j = n /\ i \in ToDo
      <4>1. Op(i).address = a /\ Op(i).action \in {"attach", "remove"}
        BY <1>2, <1>3, <2>1, <3>2, OpsTyped
      <4>2. Op(i).action # "remove"
        BY <1>0, <1>5, <3>2, <4>1 DEF Settled, RemovalsForgotten
      <4> QED
        BY <2>1, <3>2, <4>1, <4>2
    <3>3. CASE i = n
      <4>1. j \in ToDo \/ j = n
        BY <2>1
      <4>2. \A m \in ToDo : m \in Nat
        BY <1>2, <1>3, OpsTyped
      <4>3. ~(n < n) /\ \A m \in ToDo : m < n => ~(n < m)
        BY <4>2
      <4>4. \A m \in ToDo : ~(n < m)
        BY <2>1, <4>3
      <4> QED
        BY <3>3, <4>1, <4>3, <4>4
    <3> QED
      BY <2>1, <3>1, <3>2, <3>3
  <2>9. Unchained'
    BY <1>1 DEF Settled, Unchained
  <2> QED
    BY <1>4, <2>5, <2>6, <2>7, <2>8, <2>9 DEF Settled
<1> QED
  BY <1>1, <1>7, <1>8

(* An operation is done: what is left to do comes after it. *)
LEMMA LoopSettled ==
    ASSUME Reliable, PointersInv, Settled, NEW t \in Threads, CommitStep(t) \/ AbortStep(t)
    PROVE  Settled'
<1> DEFINE i == cursor[t]
           op == Op(i)
           c == op.trampoline
<1>1. PICK place \in {"commit", "abort"} :
        /\ InLoop(t, place)
        /\ UNCHANGED <<pc, pending_operations, original>>
        /\ Continues(t)
        /\ place = "commit" => Attaches(t) \/ Detaches(t)
        /\ place = "abort" => live' = live \ {c} /\ code' = code
  BY CommitStepEffect, AbortStepEffect DEF Attaches, Detaches
<1>2. HooksTyped /\ Operations
  BY DEF PointersInv
<1>3. /\ pc[t] = place /\ i \in ToDo
      /\ op \in Operation /\ Sound(op) /\ c \in live /\ op.address \in Functions
      /\ chunk[c].source.address = op.address
      /\ \A u \in Threads : pc[u] \in {"commit", "abort"} => u = t
      /\ ToDo' = {j \in ToDo : i < j}
  BY <1>1, LoopEffect
<1>4. \A d \in live' : chunk'[d] = chunk[d]
  BY CommitStepEffect, AbortStepEffect
<1>5. live' \subseteq live /\ live \ {c} \subseteq live'
  BY CommitStepEffect, AbortStepEffect
<1>6. place = "abort" => op.action = "attach" /\ \A j \in ToDo : Op(j).action = "attach"
  BY <1>2, <1>3 DEF Operations, Op
<1>7. op.action \in {"attach", "remove"} /\ i \in Nat /\ \A j \in ToDo : j \in Nat
  BY <1>2, <1>3, OpsTyped
<1>8. LoopsCount'
  <2>1. cursor'[t] = i + 1 /\ cursor' \in [Threads -> Nat]
    BY <1>1, <1>2, <1>7 DEF Continues, HooksTyped
  <2> QED
    BY <1>1, <1>3, <1>7, <2>1 DEF LoopsCount
<1>9. Unchained'
  BY <1>4, <1>5 DEF Settled, Unchained
<1>10. \A j : Op(j)' = Op(j)
  BY <1>1 DEF Op
<1>11. RemovalsForgotten' /\ OneByOne'
  BY <1>1, <1>3, <1>10 DEF Settled, RemovalsForgotten, OneByOne
<1>12. ChunksOwned'
  <2> SUFFICES ASSUME NEW d \in live', NEW k \in Clients,
                      chunk'[d].source.address = Target[k].address,
                      original[k] # d
               PROVE  RemovalToDo(d)'
    BY <1>1 DEF ChunksOwned
  <2>1. d \in live /\ chunk[d].source.address = Target[k].address
    BY <1>4, <1>5
  <2>2. PICK j \in ToDo : Op(j).action = "remove" /\ Op(j).trampoline = d
    BY <2>1 DEF Settled, ChunksOwned, RemovalToDo
  <2>3. j # i
    <3>1. CASE op.action = "attach"
      BY <2>2, <3>1
    <3>2. CASE op.action = "remove"
      <4>1. c \notin live'
        BY <1>1, <1>6, <3>2 DEF Attaches, Detaches
      <4> QED
        BY <2>2, <4>1
    <3> QED
      BY <1>7, <3>1, <3>2
  <2>4. i < j
    <3>1. i <= j
      BY <1>3 DEF ToDo
    <3> QED
      BY <1>7, <2>3, <3>1
  <2> QED
    BY <1>3, <1>10, <2>2, <2>4 DEF RemovalToDo
<1>13. AttachmentsFree'
  <2> SUFFICES ASSUME NEW j \in ToDo, i < j, Op(j).action = "attach"
               PROVE  code'[Op(j).address] = NoChunk
    BY <1>3, <1>10 DEF AttachmentsFree
  <2>1. code[Op(j).address] = NoChunk
    BY DEF Settled, AttachmentsFree
  <2>2. Op(j).address # op.address
    BY <1>3, <1>10 DEF Settled, OneByOne
  <2>3. code' = code \/ \E bytes : code' = [code EXCEPT ![op.address] = bytes]
    BY <1>1 DEF Attaches, Detaches
  <2>4. Op(j).address \in Functions /\ code \in [Functions -> Chunks \cup {NoChunk}]
    BY <1>2, OpsTyped DEF Operation, HooksTyped
  <2> HIDE DEF op
  <2>5. code'[Op(j).address] = code[Op(j).address]
    BY <2>2, <2>3, <2>4
  <2> QED
    BY <2>1, <2>5
<1> QED
  BY <1>8, <1>9, <1>11, <1>12, <1>13 DEF Settled

LEMMA EndSettled ==
    ASSUME Careful, PointersInv, Settled, NEW t \in Threads, CommitEnd(t) \/ AbortEnd(t)
    PROVE  Settled'
<1>1. /\ UNCHANGED <<tvars, cursor, code>>
      /\ ToDo' = {}
      /\ cursor[t] \notin DOMAIN pending_operations
      /\ pc[t] \in {"commit", "abort"}
      /\ \A u \in Threads : pc[u] \in {"commit", "abort"} => u = t
      /\ \A u \in Threads : pc'[u] \notin {"commit", "abort"}
      /\ \A k \in Clients : original[k] \in live => original'[k] = original[k]
  BY EndEffect
<1>2. HooksTyped
  BY DEF PointersInv
<1>3. ToDo = {}
  <2>1. cursor[t] # 0 /\ cursor[t] \in Nat
    BY <1>1, <1>2 DEF Settled, LoopsCount, HooksTyped
  <2>2. /\ DOMAIN pending_operations = 1 .. Len(pending_operations)
        /\ Len(pending_operations) \in Nat
    BY <1>2, OpsTyped
  <2>3. \A i \in DOMAIN pending_operations : ~(cursor[t] <= i)
    BY <1>1, <2>1, <2>2
  <2> QED
    BY <1>1, <2>3 DEF ToDo
<1>4. \A c \in live, k \in Clients : chunk[c].source.address = Target[k].address => original'[k] = c
  BY <1>1, <1>3 DEF Settled, ChunksOwned, RemovalToDo
<1>5. ChunksOwned'
  BY <1>1, <1>4 DEF ChunksOwned, tvars
<1>6. Unchained' /\ LoopsCount'
  BY <1>1 DEF Settled, Unchained, LoopsCount, tvars
<1>7. RemovalsForgotten' /\ AttachmentsFree' /\ OneByOne'
  BY <1>1 DEF RemovalsForgotten, AttachmentsFree, OneByOne
<1> QED
  BY <1>5, <1>6, <1>7 DEF Settled

LEMMA InterfaceSettled ==
    ASSUME Careful, Reliable, PointersInv, PointersOwn, Settled, NEW t \in Threads, UseInterface(t)
    PROVE  Settled'
<1>1. CASE Begin(t)
  <2>1. /\ UNCHANGED <<live, chunk, cursor, pending_operations, code, original>>
        /\ ToDo' = ToDo
        /\ \A u \in Threads : pc'[u] \in {"commit", "abort"} => pc[u] \in {"commit", "abort"}
    BY <1>1, BeginEffect DEF tvars
  <2>2. LoopsCount'
    BY <2>1 DEF Settled, LoopsCount
  <2> QED
    BY <2>1, <2>2, SettledKept
<1>2. CASE CommitStarts(t) \/ AbortStarts(t)
  <2>1. /\ UNCHANGED <<live, chunk, pending_operations, code, original>>
        /\ ToDo' = ToDo
        /\ \A u \in Threads : pc'[u] \in {"commit", "abort"} => u = t /\ cursor'[u] = 1
    BY <1>2, StartEffect DEF tvars
  <2>2. LoopsCount'
    BY <2>1 DEF LoopsCount
  <2> QED
    BY <2>1, <2>2, SettledKept
<1> QED
  BY <1>1, <1>2, InstallSettled, RemoveSettled, LoopSettled, EndSettled DEF UseInterface, Ends

(* The code of a function changes under no thread that is at its stub. *)
LEMMA InterfaceCode ==
    ASSUME Careful, Cautious, LiveInv, NEW t \in Threads, UseInterface(t)
    PROVE  \A u \in Threads : \A i \in DOMAIN stack[u] :
                stack[u][i].at = "stub" =>
                    code'[Target[stack[u][i].client].address] = code[Target[stack[u][i].client].address]
<1> SUFFICES ASSUME NEW u \in Threads, NEW i \in DOMAIN stack[u], stack[u][i].at = "stub"
             PROVE  code'[Target[stack[u][i].client].address]
                        = code[Target[stack[u][i].client].address]
  OBVIOUS
<1>1. PICK k \in Clients : k = stack[u][i].client
  BY DEF LiveInv, CallsInv, StacksTyped, CallTyped, Call
<1> DEFINE a == Target[k].address
<1>2. ~HasPending(a) /\ a \in Functions
  BY <1>1, AddressesTyped DEF LiveInv, FramesLive, InChunk
<1>3. PointersInv /\ HooksTyped
  BY DEF LiveInv, CallsInv, PointersInv
<1>4. CASE CommitStep(t)
  <2>1. InLoop(t, "commit")
    BY <1>4 DEF CommitStep
  <2>2. cursor[t] \in ToDo
    BY <1>3, <2>1, LoopEffect
  <2>3. Op(cursor[t]).address # a
    BY <1>2, <1>3, <2>2, OpsTyped DEF HasPending, Op
  <2> DEFINE op == Op(cursor[t])
  <2>4. CommitAttach(t, op) \/ CommitRemove(t, op)
    BY <1>4 DEF CommitStep, Op
  <2>5. code' = code \/ \E bytes : code' = [code EXCEPT ![op.address] = bytes]
    BY <2>4 DEF CommitAttach, CommitRemove, AccessViolation, WritesCode, WriteFails
  <2> HIDE DEF op
  <2>6. op.address # a
    BY <2>3 DEF op
  <2>7. code'[a] = code[a]
    BY <1>2, <1>3, <2>5, <2>6 DEF HooksTyped
  <2> QED
    BY <1>1, <2>7
<1>5. CASE Begin(t) \/ CommitStarts(t) \/ AbortStarts(t)
  BY <1>3, <1>5, BeginEffect, StartEffect
<1>6. CASE \E j \in Clients : Install(t, j) \/ Remove(t, j)
  BY <1>6 DEF Install, Remove
<1>7. CASE CommitEnd(t) \/ AbortStep(t) \/ AbortEnd(t)
  BY <1>7 DEF CommitEnd, AbortStep, AbortEnd, hook_vars
<1> QED
  BY <1>4, <1>5, <1>6, <1>7 DEF UseInterface, Ends

(* A call is at a hook only by the name of the function. *)
LEMMA NewAtHook ==
    ASSUME OriginInv, Cautious, NEW k \in Clients
    PROVE  /\ AtHook(FunctionCalled(k, "name"))
           /\ Quiet(k) => AtHook(OriginalCalled(k))
<1>1. HooksTyped /\ PointersInv /\ ChunksOwned
  BY DEF OriginInv, LiveInv, CallsInv, PointersInv, Settled
<1>2. AtHook(FunctionCalled(k, "name"))
  BY <1>1, FunctionCalledTyped DEF AtHook
<1>3. ASSUME Quiet(k) PROVE AtHook(OriginalCalled(k))
  <2>1. ~HasPending(Target[k].address)
    BY <1>3 DEF Quiet, Cautious
  <2>2. OriginalCalled(k).at # "stub"
    BY <1>1, <2>1, OriginalCalledTyped, QuietOwned
  <2> QED
    BY <1>1, <2>2, OriginalCalledTyped DEF AtHook
<1> QED
  BY <1>2, <1>3

LEMMA OriginStep ==
    ASSUME Careful, Cautious, Reliable, OriginInv, [EngineNext]_engine_vars
    PROVE  OriginInv'
<1>1. LiveInv /\ LiveInv' /\ PointersInv /\ PointersOwn /\ StacksTyped /\ Settled /\ FramesAtHook
  BY LiveStep DEF OriginInv, LiveInv, CallsInv
<1>2. ASSUME NEW t \in Threads, ThreadStep(t)
      PROVE  Settled' /\ FramesAtHook'
  <2>1. UNCHANGED <<tvars, pc, cursor, pending_operations, code, original>>
    BY <1>2, StepKinds DEF vars, claim_vars, hook_vars
  <2>2. ToDo' = ToDo /\ LoopsCount'
    BY <1>1, <2>1 DEF ToDo, Settled, LoopsCount
  <2>3. Settled'
    BY <1>1, <2>1, <2>2, SettledKept DEF tvars
  <2>4. PICK call :
             /\ FromStack(t, call)
             /\ \/ \E k \in Clients : call = FunctionCalled(k, "name")
                \/ \E k \in Clients : Quiet(k) /\ call = OriginalCalled(k)
                \/ \E k \in Clients, status \in {"true", "false"} :
                    /\ stack[t] # <<>> /\ Top(t).at = "stub" /\ k = Top(t).client
                    /\ call = CallbackCall(k, Top(t).through, status)
                \/ call.at = "body"
    BY <1>1, <1>2, ThreadStepFrames
  <2>5. AtHook(call)
    <3>1. CASE \E k \in Clients, status \in {"true", "false"} :
                    /\ stack[t] # <<>> /\ Top(t).at = "stub" /\ k = Top(t).client
                    /\ call = CallbackCall(k, Top(t).through, status)
      <4>1. PICK k \in Clients, status \in {"true", "false"} :
                    /\ stack[t] # <<>> /\ Top(t).at = "stub"
                    /\ call = CallbackCall(k, Top(t).through, status)
        BY <3>1
      <4>2. Top(t).through \in {"name", "pointer"} /\ AtHook(Top(t))
        BY <1>1, <4>1, TopIsLast DEF CallTyped, Call, FramesAtHook
      <4>3. Top(t).through = "name"
        BY <4>1, <4>2 DEF AtHook
      <4>4. call.at = "callback" /\ call.through = "name"
        BY <1>1, <4>1, <4>2, <4>3, CallbackCallTyped DEF PointersInv
      <4> QED
        BY <4>4 DEF AtHook
    <3>2. CASE call.at = "body"
      BY <3>2 DEF AtHook
    <3> QED
      BY <2>4, <3>1, <3>2, NewAtHook
  <2>6. \A u \in Threads : \A i \in DOMAIN stack'[u] : AtHook(stack'[u][i])
    BY <1>1, <2>4, <2>5 DEF FramesAtHook, FromStack
  <2>7. FramesAtHook'
    BY <2>1, <2>6 DEF FramesAtHook, AtHook
  <2> QED
    BY <2>3, <2>7
<1>3. ASSUME NEW t \in Threads, UseInterface(t)
      PROVE  Settled' /\ FramesAtHook'
  <2>1. Settled'
    BY <1>1, <1>3, InterfaceSettled
  <2>2. UNCHANGED stack
    BY <1>3 DEF UseInterface
  <2>3. FramesAtHook'
    BY <1>1, <1>3, <2>2, InterfaceCode DEF FramesAtHook, AtHook
  <2> QED
    BY <2>1, <2>3
<1>4. ASSUME UNCHANGED engine_vars
      PROVE  Settled' /\ FramesAtHook'
  <2>1. UNCHANGED <<tvars, pc, cursor, pending_operations, code, original, stack>>
    BY <1>4 DEF engine_vars, vars, claim_vars, hook_vars
  <2>2. ToDo' = ToDo /\ LoopsCount'
    BY <1>1, <2>1 DEF ToDo, Settled, LoopsCount
  <2>3. Settled'
    BY <1>1, <2>1, <2>2, SettledKept DEF tvars
  <2>4. FramesAtHook'
    BY <1>1, <2>1 DEF FramesAtHook, AtHook
  <2> QED
    BY <2>3, <2>4
<1>5. Settled' /\ FramesAtHook'
  BY <1>2, <1>3, <1>4 DEF EngineNext, ThreadStep
<1> QED
  BY <1>1, <1>5 DEF OriginInv

LEMMA OriginStart == EngineInit => OriginInv
<1> SUFFICES ASSUME EngineInit PROVE OriginInv
  OBVIOUS
<1>1. /\ live = {} /\ pending_operations = <<>>
      /\ pc = [t \in Threads |-> "idle"]
      /\ stack = [t \in Threads |-> <<>>]
  BY DEF EngineInit, Init, TrampolineInit
<1>2. ToDo = {}
  BY <1>1, EmptySeq DEF ToDo
<1>3. Settled
  BY <1>1, <1>2 DEF Settled, LoopsCount, Unchained, ChunksOwned, RemovalsForgotten,
                    AttachmentsFree, OneByOne
<1>4. FramesAtHook
  BY <1>1, EmptySeq DEF FramesAtHook
<1> QED
  BY <1>3, <1>4, LiveStart DEF OriginInv

LEMMA OriginAlways ==
    ASSUME Careful, Cautious, Reliable
    PROVE  EngineSpec => []OriginInv
<1>1. OriginInv /\ [EngineNext]_engine_vars => OriginInv'
  BY OriginStep
<1> QED
  BY <1>1, OriginStart, PTL DEF EngineSpec

-----------------------------------------------------------------------------
(* The barrier refuses recursion and nothing else *)

AllCare == Care = CareRules

(* The handle of a callback is that of a chunk: one of its function while  *)
(* it exists, and then the function has no other.                          *)
HandleIsOwn(call) ==
    call.at = "callback" =>
        /\ call.verdict \in {"true", "false"}
        /\ \E c \in Chunks :
             /\ call.handle = Address(c)
             /\ IF c \in live THEN chunk[c].source.address = Target[call.client].address
                ELSE \A d \in live : chunk[d].source.address # Target[call.client].address

FramesOwn == \A t \in Threads : \A i \in DOMAIN stack[t] : HandleIsOwn(stack[t][i])

(* The call is made, directly or not, by a callback of the same hook that  *)
(* passed.                                                                 *)
Recursive(s, i) ==
    \E j \in DOMAIN s : j < i /\ Passed(s[j]) /\ s[j].client = s[i].client

RefusedRightAt(s, i) == s[i].at = "callback" => (s[i].verdict = "false" <=> Recursive(s, i))

RefusedRight(s) == \A i \in DOMAIN s : RefusedRightAt(s, i)

StacksRefusedRight == \A t \in Threads : RefusedRight(stack[t])

(* The inductive invariant of processes that, besides, install no hook     *)
(* while a callback of a removed one is running: else the new hook may get *)
(* the address, and with it the handle, of the one that was removed.       *)
RecursionInv == OriginInv /\ FramesOwn /\ StacksRefusedRight

(* Two chunks do not begin at the same address. *)
LEMMA MultiplesApart ==
    ASSUME NEW r \in Nat \ {0}, NEW a \in Nat, NEW b \in Nat, a % r = 0, b % r = 0, a < b
    PROVE  a + r <= b
<1> DEFINE p == a \div r
           q == b \div r
<1>1. p \in Nat /\ q \in Nat /\ a = r * p /\ b = r * q
  OBVIOUS
<1> HIDE DEF p, q
<1>2. r * p < r * q
  BY <1>1
<1>3. p < q
  <2> SUFFICES ASSUME q <= p PROVE FALSE
    BY <1>1
  <2>1. PICK d \in Nat : p = q + d
    <3>1. p - q \in Nat /\ p = q + (p - q)
      BY <1>1
    <3> QED
      BY <3>1
  <2>2. r * p = r * q + r * d
    BY <1>1, <2>1
  <2>3. r * d \in Nat /\ r * q \in Nat
    BY <1>1, <2>1
  <2> QED
    BY <1>2, <2>2, <2>3
<1>4. PICK d \in Nat : q = p + 1 + d
  <2>1. q - p - 1 \in Nat /\ q = p + 1 + (q - p - 1)
    BY <1>1, <1>3
  <2> QED
    BY <2>1
<1>5. r * q = r * p + r + r * d
  BY <1>1, <1>4
<1>6. r * d \in Nat /\ r * p \in Nat
  BY <1>1, <1>4
<1> QED
  BY <1>1, <1>5, <1>6

LEMMA AddressInjective ==
    ASSUME NEW c \in Chunks, NEW d \in Chunks, Address(c) = Address(d)
    PROVE  c = d
<1> DEFINE S == SizeofChunk
           R == RegionSize
           N == ChunksPerRegion
<1>1. S \in Nat \ {0} /\ R \in Nat /\ N \in Nat /\ N >= 2 /\ R >= S * N
  BY TrampolineAssumption
<1>2. R # 0
  <2>1. S * N >= S
    BY <1>1
  <2> QED
    BY <1>1, <2>1
<1>3. \A e \in Chunks : /\ e[1] \in Nat /\ e[1] % R = 0
                        /\ e[2] \in 1 .. N - 1
                        /\ e = <<e[1], e[2]>>
                        /\ Address(e) = e[1] + e[2] * S
  <2> SUFFICES ASSUME NEW e \in Chunks
               PROVE  /\ e[1] \in Nat /\ e[1] % R = 0
                      /\ e[2] \in 1 .. N - 1
                      /\ e = <<e[1], e[2]>>
                      /\ Address(e) = e[1] + e[2] * S
    OBVIOUS
  <2>1. e[1] \in Bases /\ e[2] \in 1 .. N - 1 /\ e = <<e[1], e[2]>>
    BY DEF Chunks
  <2>2. e[1] \in Nat /\ e[1] % R = 0
    BY <2>1, TrampolineAssumption
  <2> QED
    BY <2>1, <2>2 DEF Address
<1> HIDE DEF S, R, N
<1>4. ASSUME NEW i \in 1 .. N - 1
      PROVE  i * S \in Nat /\ i * S < R
  <2>1. i \in Nat /\ i + 1 <= N
    BY <1>1, <1>4
  <2>2. PICK m \in Nat : N = i + 1 + m
    <3>1. N - i - 1 \in Nat /\ N = i + 1 + (N - i - 1)
      BY <1>1, <2>1
    <3> QED
      BY <3>1
  <2>3. S * N = i * S + S + S * m
    BY <1>1, <2>1, <2>2
  <2>4. S * m \in Nat /\ i * S \in Nat
    BY <1>1, <2>1, <2>2
  <2> QED
    BY <1>1, <2>3, <2>4
<1>5. PICK o \in Nat : o = c[2] * S /\ o < R
  BY <1>3, <1>4
<1>6. PICK p \in Nat : p = d[2] * S /\ p < R
  BY <1>3, <1>4
<1>7. c[1] + o = d[1] + p /\ c[1] \in Nat /\ d[1] \in Nat
  BY <1>3, <1>5, <1>6
<1>8. ~(c[1] < d[1])
  <2> SUFFICES ASSUME c[1] < d[1] PROVE FALSE
    OBVIOUS
  <2>1. c[1] + R <= d[1]
    BY <1>1, <1>2, <1>3, MultiplesApart
  <2> QED
    BY <1>1, <1>5, <1>6, <1>7, <2>1
<1>9. ~(d[1] < c[1])
  <2> SUFFICES ASSUME d[1] < c[1] PROVE FALSE
    OBVIOUS
  <2>1. d[1] + R <= c[1]
    BY <1>1, <1>2, <1>3, MultiplesApart
  <2> QED
    BY <1>1, <1>5, <1>6, <1>7, <2>1
<1>10. c[1] = d[1] /\ o = p
  BY <1>7, <1>8, <1>9
<1>11. \A i, j \in Nat : i < j => i * S # j * S
  <2> SUFFICES ASSUME NEW i \in Nat, NEW j \in Nat, i < j PROVE i * S # j * S
    OBVIOUS
  <2>1. PICK m \in Nat : j = i + 1 + m
    <3>1. j - i - 1 \in Nat /\ j = i + 1 + (j - i - 1)
      OBVIOUS
    <3> QED
      BY <3>1
  <2>2. j * S = i * S + S + m * S
    BY <1>1, <2>1
  <2>3. m * S \in Nat /\ i * S \in Nat
    BY <1>1, <2>1
  <2> QED
    BY <1>1, <2>2, <2>3
<1>12. c[2] \in Nat /\ d[2] \in Nat
  BY <1>1, <1>3
<1>13. c[2] * S = d[2] * S
  BY <1>5, <1>6, <1>10
<1>14. ~(c[2] < d[2]) /\ ~(d[2] < c[2])
  BY <1>11, <1>12, <1>13
<1>15. c[2] = d[2]
  BY <1>12, <1>14
<1> QED
  BY <1>3, <1>10, <1>15

(* The property, over the positions that a stack has. *)
LEMMA RecursionStated ==
    ASSUME StacksTyped, StacksRefusedRight
    PROVE  RefusesRecursionOnly
<1> SUFFICES ASSUME NEW t \in Threads, NEW i \in DOMAIN stack[t], stack[t][i].at = "callback"
             PROVE  stack[t][i].verdict = "false" <=>
                        \E j \in 1 .. i - 1 :
                            /\ stack[t][j].at = "callback"
                            /\ stack[t][j].client = stack[t][i].client
                            /\ stack[t][j].verdict = "true"
  BY DEF RefusesRecursionOnly
<1>1. DOMAIN stack[t] = 1 .. Len(stack[t]) /\ Len(stack[t]) \in Nat
  BY DEF StacksTyped
<1>2. \A j : j \in 1 .. i - 1 <=> j \in DOMAIN stack[t] /\ j < i
  BY <1>1
<1>3. stack[t][i].verdict = "false" <=> Recursive(stack[t], i)
  BY DEF StacksRefusedRight, RefusedRight, RefusedRightAt
<1> QED
  BY <1>2, <1>3 DEF Recursive, Passed

(* The i-th call, and those that it was made by, are those of s. *)
SameUpTo(s, w, i) ==
    /\ i \in DOMAIN s /\ w[i] = s[i]
    /\ \A j : j < i => /\ j \in DOMAIN w <=> j \in DOMAIN s
                       /\ j \in DOMAIN w => w[j] = s[j]

(* Calls outside of what changed are refused as before. *)
LEMMA RefusedRightKept ==
    ASSUME NEW s, NEW w, RefusedRight(s),
           \A i \in DOMAIN w : SameUpTo(s, w, i) \/ RefusedRightAt(w, i)
    PROVE  RefusedRight(w)
<1> SUFFICES ASSUME NEW i \in DOMAIN w, SameUpTo(s, w, i)
             PROVE  RefusedRightAt(w, i)
  BY DEF RefusedRight
<1>1. Recursive(w, i) <=> Recursive(s, i)
  BY DEF Recursive, SameUpTo
<1>2. RefusedRightAt(s, i) /\ w[i] = s[i]
  BY DEF RefusedRight, SameUpTo
<1> QED
  BY <1>1, <1>2 DEF RefusedRightAt

LEMMA RefusedRightPushed ==
    ASSUME NEW s \in Seq(Call), RefusedRight(s), NEW e \in Call, e.at # "callback",
           NEW w, w = Append(s, e)
    PROVE  RefusedRight(w)
<1>1. /\ Len(w) = Len(s) + 1
      /\ DOMAIN w = DOMAIN s \cup {Len(w)}
      /\ w[Len(w)] = e
      /\ \A i \in DOMAIN s : w[i] = s[i]
  BY Pushed
<1>2. DOMAIN s = 1 .. Len(s) /\ Len(s) \in Nat
  OBVIOUS
<1>3. \A i \in DOMAIN s : ~(Len(w) < i)
  BY <1>1, <1>2
<1>4. \A i \in DOMAIN s : SameUpTo(s, w, i)
  BY <1>1, <1>3 DEF SameUpTo
<1>5. \A i \in DOMAIN w \ DOMAIN s : RefusedRightAt(w, i)
  BY <1>1 DEF RefusedRightAt
<1> QED
  BY <1>4, <1>5, RefusedRightKept

LEMMA RefusedRightPopped ==
    ASSUME NEW s \in Seq(Call), s # <<>>, RefusedRight(s),
           NEW w, w = SubSeq(s, 1, Len(s) - 1)
    PROVE  RefusedRight(w)
<1>1. /\ Len(s) \in DOMAIN s
      /\ DOMAIN w = DOMAIN s \ {Len(s)}
      /\ \A i \in DOMAIN w : w[i] = s[i]
  BY Popped
<1>2. \A i \in DOMAIN s : ~(Len(s) < i)
  <2>1. DOMAIN s = 1 .. Len(s) /\ Len(s) \in Nat
    OBVIOUS
  <2> QED
    BY <2>1
<1>3. \A i \in DOMAIN w : SameUpTo(s, w, i)
  BY <1>1, <1>2 DEF SameUpTo
<1> QED
  BY <1>3, RefusedRightKept

LEMMA RefusedRightReplaced ==
    ASSUME NEW s \in Seq(Call), s # <<>>, RefusedRight(s), NEW e \in Call,
           NEW w, w = [s EXCEPT ![Len(s)] = e],
           e.at = "callback" => (e.verdict = "false" <=> Recursive(w, Len(s)))
    PROVE  RefusedRight(w)
<1>1. /\ Len(s) \in DOMAIN s
      /\ DOMAIN w = DOMAIN s
      /\ w[Len(s)] = e
      /\ \A i \in DOMAIN s \ {Len(s)} : w[i] = s[i]
  BY Replaced
<1>2. \A i \in DOMAIN s : ~(Len(s) < i)
  <2>1. DOMAIN s = 1 .. Len(s) /\ Len(s) \in Nat
    OBVIOUS
  <2> QED
    BY <2>1
<1>3. \A i \in DOMAIN w \ {Len(s)} : SameUpTo(s, w, i)
  BY <1>1, <1>2 DEF SameUpTo
<1>4. RefusedRightAt(w, Len(s))
  BY <1>1 DEF RefusedRightAt
<1> QED
  BY <1>3, <1>4, RefusedRightKept

(* Inside of a callback that passed, as the barrier sees it, and as the    *)
(* clients do.                                                             *)
LEMMA SameCallbacks ==
    ASSUME TrampolineInv, StacksTyped, FramesOwn, NEW t \in Threads, NEW k \in Clients,
           NEW c \in live, chunk[c].source.address = Target[k].address,
           \A d \in live : chunk[d].source.address = Target[k].address => d = c
    PROVE  \A i \in DOMAIN stack[t] :
                Passed(stack[t][i]) =>
                    (stack[t][i].handle = Address(c) <=> stack[t][i].client = k)
<1> SUFFICES ASSUME NEW i \in DOMAIN stack[t], Passed(stack[t][i])
             PROVE  stack[t][i].handle = Address(c) <=> stack[t][i].client = k
  OBVIOUS
<1>1. c \in Chunks
  BY DEF TrampolineInv, TrampolineTypeOK
<1>2. PICK call : call = stack[t][i]
  OBVIOUS
<1>3. call.client \in Clients /\ HandleIsOwn(call) /\ call.at = "callback"
  BY <1>2 DEF StacksTyped, CallTyped, Call, FramesOwn, Passed
<1>4. PICK d \in Chunks :
             /\ call.handle = Address(d)
             /\ IF d \in live THEN chunk[d].source.address = Target[call.client].address
                ELSE \A e \in live : chunk[e].source.address # Target[call.client].address
  BY <1>3 DEF HandleIsOwn
<1>5. ASSUME call.handle = Address(c) PROVE call.client = k
  <2>1. d = c
    BY <1>1, <1>4, <1>5, AddressInjective
  <2> QED
    BY <1>3, <1>4, <2>1, OneClient
<1>6. ASSUME call.client = k PROVE call.handle = Address(c)
  <2>1. d \in live
    BY <1>4, <1>6
  <2> QED
    BY <1>4, <1>6, <2>1
<1> QED
  BY <1>2, <1>5, <1>6

(* At a stub, the chunk is the only one of the function, and that of the   *)
(* pointer.                                                                *)
LEMMA StubChunk ==
    ASSUME OriginInv, NEW t \in Threads, stack[t] # <<>>, Top(t).at = "stub"
    PROVE  LET k == Top(t).client
               c == original[k]
           IN  /\ k \in Clients /\ c \in live /\ c \in Chunks
               /\ chunk[c].source.address = Target[k].address
               /\ \A d \in live : chunk[d].source.address = Target[k].address => d = c
               /\ GetHandle(k) = Address(c)
<1>1. /\ LiveInv /\ PointersInv /\ StacksTyped /\ FramesLive /\ FramesAtHook /\ ChunksOwned
      /\ TrampolineInv
  BY DEF OriginInv, LiveInv, CallsInv, Settled, PointersInv
<1>2. PICK k \in Clients : k = Top(t).client
  BY <1>1, TopInChunk
<1>3. PICK c : c = Top(t).chunk
  OBVIOUS
<1>4. /\ c \in live /\ chunk[c].source.address = Target[k].address
      /\ ~HasPending(Target[k].address)
  BY <1>1, <1>2, <1>3, TopInChunk DEF InChunk
<1>5. code[Target[k].address] = c
  BY <1>1, <1>2, <1>3, TopIsLast DEF FramesAtHook, AtHook
<1>6. c \in Chunks /\ c # NoChunk
  BY <1>1, <1>4, TrampolineAssumption DEF TrampolineInv, TrampolineTypeOK
<1>7. /\ original[k] = c
      /\ \A d \in live : chunk[d].source.address = Target[k].address => original[k] = d
  BY <1>1, <1>4, <1>5, <1>6, QuietOwned
<1>8. GetHandle(k) = Address(c)
  BY <1>6, <1>7 DEF GetHandle
<1> QED
  BY <1>2, <1>4, <1>6, <1>7, <1>8

LEMMA CallbackOwnHandle ==
    ASSUME OriginInv, NEW t \in Threads, stack[t] # <<>>, Top(t).at = "stub",
           NEW status \in {"true", "false"}
    PROVE  HandleIsOwn(CallbackCall(Top(t).client, Top(t).through, status))
<1>1. StacksTyped /\ HooksTyped
  BY DEF OriginInv, LiveInv, CallsInv, PointersInv
<1>2. PICK k \in Clients : k = Top(t).client
  BY <1>1, TopIsLast DEF CallTyped, Call
<1>3. PICK c \in Chunks : c = original[k]
  BY <1>2, StubChunk
<1>4. /\ c \in live /\ chunk[c].source.address = Target[k].address
      /\ GetHandle(k) = Address(c)
  BY <1>2, <1>3, StubChunk
<1>5. Top(t).through \in {"name", "pointer"}
  BY <1>1, TopIsLast DEF CallTyped, Call
<1>6. PICK call : call = CallbackCall(k, Top(t).through, status)
  OBVIOUS
<1>7. call.client = k /\ call.handle = Address(c) /\ call.verdict = status
  BY <1>1, <1>4, <1>5, <1>6, CallbackCallTyped
<1>8. HandleIsOwn(call)
  BY <1>4, <1>7 DEF HandleIsOwn
<1> QED
  BY <1>2, <1>6, <1>8

LEMMA OtherRefusedRight ==
    ASSUME StacksTyped, StacksRefusedRight, NEW t \in Threads, NEW call, CallTyped(call),
           call.at # "callback",
           Calls(t, call) \/ (stack[t] # <<>> /\ Becomes(t, call))
    PROVE  StacksRefusedRight'
<1>1. stack[t] \in Seq(Call) /\ RefusedRight(stack[t]) /\ call \in Call
  BY DEF StacksTyped, StacksRefusedRight, CallTyped
<1>2. RefusedRight(stack'[t]) /\ \A u \in Threads \ {t} : stack'[u] = stack[u]
  <2>1. CASE Calls(t, call)
    BY <1>1, <2>1, CallsStack, RefusedRightPushed
  <2>2. CASE stack[t] # <<>> /\ Becomes(t, call)
    BY <1>1, <2>2, BecomesStack, RefusedRightReplaced
  <2> QED
    BY <2>1, <2>2
<1>3. \A u \in Threads : RefusedRight(stack'[u])
  BY <1>2 DEF StacksRefusedRight
<1> QED
  BY <1>3 DEF StacksRefusedRight, RefusedRight, RefusedRightAt, Recursive

(* The barrier refuses the callback if and only if the thread is in one of *)
(* the same hook.                                                          *)
LEMMA CallbackRefusedRight ==
    ASSUME RecursionInv, NEW t \in Threads, EnterCallback(t)
    PROVE  StacksRefusedRight'
<1>1. /\ OriginInv /\ FramesOwn /\ StacksRefusedRight
      /\ CallsInv /\ StacksTyped /\ HooksTyped /\ FramesLive /\ TrampolineInv
  BY DEF RecursionInv, OriginInv, LiveInv, CallsInv, PointersInv
<1>2. stack[t] # <<>> /\ Top(t).at = "stub"
  BY <1>1, EnterCallbackKeeps
<1>3. PICK k \in Clients, status \in {"true", "false"} :
        /\ Target[k].address = chunk[Top(t).chunk].source.address
        /\ Becomes(t, CallbackCall(k, Top(t).through, status))
        /\ status = "true" <=> ~Inside(stack[t], GetHandle(k))
        /\ CallTyped(CallbackCall(k, Top(t).through, status))
  BY <1>1, EnterCallbackKeeps
<1>4. k = Top(t).client /\ Top(t).through \in {"name", "pointer"}
  BY <1>1, <1>2, <1>3, TopInChunk, TopIsLast DEF CallTyped, Call
<1>5. PICK call : call = CallbackCall(k, Top(t).through, status)
  OBVIOUS
<1>6. /\ call.at = "callback" /\ call.client = k /\ call.verdict = status
      /\ call \in Call /\ CallTyped(call)
  BY <1>1, <1>3, <1>4, <1>5, CallbackCallTyped DEF CallTyped
<1>7. PICK c \in live :
        /\ chunk[c].source.address = Target[k].address
        /\ \A d \in live : chunk[d].source.address = Target[k].address => d = c
        /\ GetHandle(k) = Address(c)
  BY <1>1, <1>2, <1>4, StubChunk
<1>8. PICK s \in Seq(Call) : s = stack[t]
  BY <1>1 DEF StacksTyped
<1>9. PICK w : w = stack'[t]
  OBVIOUS
<1>10. /\ s # <<>> /\ w = [s EXCEPT ![Len(s)] = call]
       /\ \A u \in Threads \ {t} : stack'[u] = stack[u]
  BY <1>1, <1>2, <1>3, <1>5, <1>6, <1>8, <1>9, BecomesStack
<1>11. /\ Len(s) \in DOMAIN s
       /\ DOMAIN w = DOMAIN s
       /\ w[Len(s)] = call
       /\ \A i \in DOMAIN s \ {Len(s)} : w[i] = s[i]
  BY <1>6, <1>10, Replaced
<1>12. \A i \in DOMAIN s : i < Len(s) <=> i # Len(s)
  <2>1. DOMAIN s = 1 .. Len(s) /\ Len(s) \in Nat
    OBVIOUS
  <2> QED
    BY <2>1
<1>13. Inside(s, Address(c)) <=> \E i \in DOMAIN s : Passed(s[i]) /\ s[i].client = k
  <2>1. \A i \in DOMAIN s : Passed(s[i]) => (s[i].handle = Address(c) <=> s[i].client = k)
    BY <1>1, <1>7, <1>8, SameCallbacks
  <2> QED
    BY <2>1 DEF Inside
<1>14. ~Passed(s[Len(s)])
  BY <1>2, <1>8 DEF Top, Passed
<1>15. Recursive(w, Len(s)) <=> \E i \in DOMAIN s : Passed(s[i]) /\ s[i].client = k
  BY <1>6, <1>11, <1>12, <1>14 DEF Recursive
<1>16. call.verdict = "false" <=> Recursive(w, Len(s))
  BY <1>3, <1>6, <1>7, <1>8, <1>13, <1>15
<1>17. RefusedRight(s)
  BY <1>1, <1>8 DEF StacksRefusedRight
<1>18. RefusedRight(w)
  BY <1>6, <1>10, <1>16, <1>17, RefusedRightReplaced
<1>19. \A u \in Threads : RefusedRight(stack'[u])
  BY <1>1, <1>9, <1>10, <1>18 DEF StacksRefusedRight
<1> QED
  BY <1>19 DEF StacksRefusedRight, RefusedRight, RefusedRightAt, Recursive

LEMMA ThreadRefusedRight ==
    ASSUME RecursionInv, NEW t \in Threads, ThreadStep(t)
    PROVE  StacksRefusedRight'
<1>1. CallsInv /\ StacksTyped /\ HooksTyped /\ StacksRefusedRight
  BY DEF RecursionInv, OriginInv, LiveInv, CallsInv, PointersInv
<1>2. ASSUME NEW k \in Clients, CallFunction(t, k)
      PROVE  StacksRefusedRight'
  <2>1. Calls(t, FunctionCalled(k, "name"))
    BY <1>2 DEF CallFunction
  <2>2. CallTyped(FunctionCalled(k, "name")) /\ FunctionCalled(k, "name").at # "callback"
    BY <1>1, FunctionCalledTyped
  <2> QED
    BY <1>1, <2>1, <2>2, OtherRefusedRight
<1>3. CASE CallOriginal(t) \/ RefusedCallsOriginal(t)
  <2>1. PICK k \in Clients : k = Top(t).client
    BY <1>1, <1>3, OriginalKeeps
  <2>2. stack[t] # <<>> /\ (Calls(t, OriginalCalled(k)) \/ Becomes(t, OriginalCalled(k)))
    BY <1>3, <2>1 DEF CallOriginal, RefusedCallsOriginal, IsAt
  <2>3. CallTyped(OriginalCalled(k)) /\ OriginalCalled(k).at # "callback"
    BY <1>1, OriginalCalledTyped
  <2> QED
    BY <1>1, <2>2, <2>3, OtherRefusedRight
<1>4. CASE RunTrampoline(t)
  <2>1. PICK k \in Clients : Becomes(t, NewCall("body", k, Top(t).through, NoChunk))
    BY <1>4 DEF RunTrampoline
  <2>2. stack[t] # <<>>
    BY <1>4 DEF RunTrampoline, IsAt
  <2>3. Top(t).through \in {"name", "pointer"}
    BY <1>1, <2>2, TopIsLast DEF CallTyped, Call
  <2>4. PICK call : call = NewCall("body", k, Top(t).through, NoChunk)
    OBVIOUS
  <2>5. CallTyped(call) /\ call.at = "body"
    BY <2>3, <2>4, NewCallTyped
  <2> QED
    BY <1>1, <2>1, <2>2, <2>4, <2>5, OtherRefusedRight
<1>5. CASE ReturnFromBody(t) \/ ReturnFromCallback(t)
  <2>1. stack[t] # <<>> /\ Pops(t)
    BY <1>5 DEF ReturnFromBody, ReturnFromCallback, IsAt
  <2>2. stack[t] \in Seq(Call) /\ RefusedRight(stack[t])
    BY <1>1 DEF StacksTyped, StacksRefusedRight
  <2>3. /\ RefusedRight(stack'[t])
        /\ \A u \in Threads \ {t} : stack'[u] = stack[u]
    BY <1>1, <2>1, <2>2, PopsStack, RefusedRightPopped
  <2>4. \A u \in Threads : RefusedRight(stack'[u])
    BY <1>1, <2>3 DEF StacksRefusedRight
  <2> QED
    BY <2>4 DEF StacksRefusedRight, RefusedRight, RefusedRightAt, Recursive
<1> QED
  BY <1>2, <1>3, <1>4, <1>5, CallbackRefusedRight DEF ThreadStep

(* A chunk that is freed was the only one of its function. *)
LEMMA FramesOwnKept ==
    ASSUME FramesOwn, StacksTyped, UNCHANGED stack, live' \subseteq live,
           \A d \in live' : chunk'[d] = chunk[d],
           \A c \in live \ live', k \in Clients :
                chunk[c].source.address = Target[k].address =>
                    \A d \in live' : chunk[d].source.address # Target[k].address
    PROVE  FramesOwn'
<1> SUFFICES ASSUME NEW t \in Threads, NEW i \in DOMAIN stack[t]
             PROVE  HandleIsOwn(stack[t][i])'
  BY DEF FramesOwn
<1>1. PICK call : call = stack[t][i]
  OBVIOUS
<1>2. HandleIsOwn(call) /\ call.client \in Clients
  BY <1>1 DEF FramesOwn, StacksTyped, CallTyped, Call
<1>3. CASE call.at # "callback"
  BY <1>1, <1>3 DEF HandleIsOwn
<1>4. ASSUME call.at = "callback" PROVE HandleIsOwn(stack[t][i])'
  <2>1. PICK c \in Chunks :
             /\ call.handle = Address(c)
             /\ IF c \in live THEN chunk[c].source.address = Target[call.client].address
                ELSE \A d \in live : chunk[d].source.address # Target[call.client].address
    BY <1>2, <1>4 DEF HandleIsOwn
  <2>2. IF c \in live' THEN chunk'[c].source.address = Target[call.client].address
        ELSE \A d \in live' : chunk'[d].source.address # Target[call.client].address
    BY <1>2, <2>1
  <2>3. stack'[t][i] = call /\ call.verdict \in {"true", "false"}
    BY <1>1, <1>2, <1>4 DEF HandleIsOwn
  <2> QED
    BY <2>1, <2>2, <2>3 DEF HandleIsOwn
<1> QED
  BY <1>3, <1>4

LEMMA InterfaceOwn ==
    ASSUME Careful, Reliable, AllCare, RecursionInv, NEW t \in Threads, UseInterface(t)
    PROVE  FramesOwn'
<1>1. /\ PointersInv /\ HooksTyped /\ Operations /\ Settled /\ FramesOwn /\ StacksTyped
      /\ TrampolineInv
  BY DEF RecursionInv, OriginInv, LiveInv, CallsInv, PointersInv
<1>2. UNCHANGED stack
  BY DEF UseInterface
<1>3. ASSUME UNCHANGED <<live, chunk>> PROVE FramesOwn'
  BY <1>1, <1>2, <1>3, FramesOwnKept
<1>4. CASE Begin(t) \/ CommitStarts(t) \/ AbortStarts(t)
  BY <1>1, <1>3, <1>4, BeginEffect, StartEffect DEF tvars
<1>5. CASE CommitEnd(t) \/ AbortEnd(t)
  BY <1>1, <1>3, <1>5, EndEffect DEF tvars
<1>6. ASSUME NEW k \in Clients, Remove(t, k) PROVE FramesOwn'
  BY <1>1, <1>3, <1>6, RemoveEffect
<1>7. ASSUME NEW k \in Clients, Install(t, k), MayInstall(k) PROVE FramesOwn'
  <2>1. /\ \A d \in live : chunk'[d] = chunk[d]
        /\ live \subseteq live'
    BY <1>1, <1>7, InstallEffect
  <2>2. Returned
    BY <1>7 DEF MayInstall, AllCare, CareRules
  <2>3. live \subseteq Chunks
    BY <1>1 DEF TrampolineInv, TrampolineTypeOK
  <2>4. ASSUME NEW u \in Threads, NEW i \in DOMAIN stack[u]
        PROVE  HandleIsOwn(stack[u][i])'
    <3>1. PICK call : call = stack[u][i]
      OBVIOUS
    <3>2. stack'[u][i] = call /\ HandleIsOwn(call)
      BY <1>1, <1>2, <3>1 DEF FramesOwn
    <3>3. CASE call.at # "callback"
      BY <3>2, <3>3 DEF HandleIsOwn
    <3>4. ASSUME call.at = "callback" PROVE HandleIsOwn(stack[u][i])'
      <4>1. PICK c \in Chunks :
                 /\ call.handle = Address(c)
                 /\ c \in live => chunk[c].source.address = Target[call.client].address
        BY <3>2, <3>4 DEF HandleIsOwn
      <4>2. PICK d \in live : call.handle = Address(d)
        BY <2>2, <3>1, <3>4 DEF Returned
      <4>3. c = d
        BY <2>3, <4>1, <4>2, AddressInjective
      <4>4. c \in live' /\ chunk'[c].source.address = Target[call.client].address
        BY <2>1, <4>1, <4>2, <4>3
      <4>5. call.verdict \in {"true", "false"}
        BY <3>2, <3>4 DEF HandleIsOwn
      <4> QED
        BY <3>2, <4>1, <4>4, <4>5 DEF HandleIsOwn
    <3> QED
      BY <3>3, <3>4
  <2> QED
    BY <1>2, <2>4 DEF FramesOwn
<1>8. CASE CommitStep(t) \/ AbortStep(t)
  <2>1. PICK place \in {"commit", "abort"} :
          /\ InLoop(t, place)
          /\ place = "commit" => Attaches(t) \/ Detaches(t)
          /\ place = "abort" => live' = live \ {Op(cursor[t]).trampoline}
    BY <1>1, <1>8, CommitStepEffect, AbortStepEffect
  <2>2. PICK i : i = cursor[t]
    OBVIOUS
  <2>3. PICK c : c = Op(i).trampoline
    OBVIOUS
  <2>4. /\ i \in ToDo /\ Op(i).action \in {"attach", "remove"}
        /\ c \in live /\ chunk[c].source.address = Op(i).address
        /\ pc[t] = place /\ Sound(Op(i))
    BY <1>1, <2>1, <2>2, <2>3, LoopEffect DEF Operation
  <2>5. \A d \in live' : chunk'[d] = chunk[d]
    BY <1>1, <1>8, CommitStepEffect, AbortStepEffect
  <2>6. CASE live' = live
    BY <1>1, <1>2, <2>5, <2>6, FramesOwnKept
  <2>7. ASSUME live' = live \ {c},
               \/ Op(i).action = "remove"
               \/ Op(i).action = "attach" /\ \A j \in ToDo : Op(j).action = "attach"
        PROVE  FramesOwn'
    <3>1. ASSUME NEW k \in Clients, Target[k].address = Op(i).address,
                 NEW d \in live, d # c, chunk[d].source.address = Target[k].address
          PROVE  FALSE
      <4>1. (original[k] = c \/ RemovalToDo(c)) /\ (original[k] = d \/ RemovalToDo(d))
        BY <1>1, <2>4, <3>1 DEF Settled, ChunksOwned
      <4>2. CASE Op(i).action = "remove"
        <5>1. original[k] = NoChunk /\ d # NoChunk
          BY <1>1, <2>4, <3>1, <4>2, TrampolineAssumption
             DEF Settled, RemovalsForgotten, TrampolineInv, TrampolineTypeOK
        <5>2. PICK j \in ToDo : Op(j).action = "remove" /\ Op(j).trampoline = d
          BY <4>1, <5>1 DEF RemovalToDo
        <5>3. Op(j).address = Op(i).address
          BY <1>1, <3>1, <5>2 DEF Operations, Sound, Op
        <5>4. i < j \/ j < i
          <6>1. j # i /\ i \in Nat /\ j \in Nat
            BY <1>1, <2>3, <2>4, <3>1, <5>2, OpsTyped
          <6> QED
            BY <6>1
        <5> QED
          BY <1>1, <2>4, <4>2, <5>2, <5>3, <5>4 DEF Settled, OneByOne
      <4>3. CASE \A j \in ToDo : Op(j).action = "attach"
        <5>1. \A e : ~RemovalToDo(e)
          BY <4>3 DEF RemovalToDo
        <5> QED
          BY <3>1, <4>1, <5>1
      <4> QED
        BY <2>7, <4>2, <4>3
    <3>2. \A e \in live \ live', k \in Clients :
                chunk[e].source.address = Target[k].address =>
                    \A d \in live' : chunk[d].source.address # Target[k].address
      BY <2>4, <2>7, <3>1
    <3> QED
      BY <1>1, <1>2, <2>5, <2>7, <3>2, FramesOwnKept
  <2>8. CASE place = "commit"
    <3>1. CASE Attaches(t)
      BY <2>6, <3>1 DEF Attaches
    <3>2. CASE Detaches(t)
      BY <2>2, <2>3, <2>7, <3>2 DEF Detaches
    <3> QED
      BY <2>1, <2>8, <3>1, <3>2
  <2>9. CASE place = "abort"
    <3>1. \A j \in ToDo : Op(j).action = "attach"
      BY <1>1, <2>4, <2>9 DEF Operations, Op
    <3> QED
      BY <2>1, <2>2, <2>3, <2>4, <2>7, <2>9, <3>1
  <2> QED
    BY <2>8, <2>9
<1> QED
  BY <1>4, <1>5, <1>6, <1>7, <1>8 DEF UseInterface, Ends

LEMMA RecursionStep ==
    ASSUME Careful, Reliable, AllCare, RecursionInv, [EngineNext]_engine_vars
    PROVE  RecursionInv'
<1>1. Cautious
  BY DEF AllCare, Cautious, CareRules
<1>2. OriginInv /\ OriginInv' /\ LiveInv /\ StacksTyped /\ HooksTyped /\ FramesOwn /\ StacksRefusedRight
  BY <1>1, OriginStep DEF RecursionInv, OriginInv, LiveInv, CallsInv, PointersInv
<1>3. ASSUME NEW t \in Threads, ThreadStep(t)
      PROVE  FramesOwn' /\ StacksRefusedRight'
  <2>1. StacksRefusedRight'
    BY <1>3, ThreadRefusedRight
  <2>2. PICK call :
             /\ FromStack(t, call)
             /\ \/ \E k \in Clients : call = FunctionCalled(k, "name")
                \/ \E k \in Clients : Quiet(k) /\ call = OriginalCalled(k)
                \/ \E k \in Clients, status \in {"true", "false"} :
                    /\ stack[t] # <<>> /\ Top(t).at = "stub" /\ k = Top(t).client
                    /\ call = CallbackCall(k, Top(t).through, status)
                \/ call.at = "body"
    BY <1>1, <1>2, <1>3, ThreadStepFrames
  <2>3. HandleIsOwn(call)
    <3>1. CASE \E k \in Clients, status \in {"true", "false"} :
                    /\ stack[t] # <<>> /\ Top(t).at = "stub" /\ k = Top(t).client
                    /\ call = CallbackCall(k, Top(t).through, status)
      BY <1>2, <3>1, CallbackOwnHandle
    <3>2. CASE \E k \in Clients :
                    call = FunctionCalled(k, "name") \/ call = OriginalCalled(k)
      <4>1. call.at # "callback"
        BY <1>2, <3>2, FunctionCalledTyped, OriginalCalledTyped
      <4> QED
        BY <4>1 DEF HandleIsOwn
    <3>3. CASE call.at = "body"
      BY <3>3 DEF HandleIsOwn
    <3> QED
      BY <2>2, <3>1, <3>2, <3>3
  <2>4. UNCHANGED vars
    BY <1>3, StepKinds
  <2>5. UNCHANGED <<live, chunk>>
    BY <2>4 DEF vars, tvars
  <2>6. \A u \in Threads : \A i \in DOMAIN stack'[u] : HandleIsOwn(stack'[u][i])
    BY <1>2, <2>2, <2>3 DEF FramesOwn, FromStack
  <2>7. FramesOwn'
    BY <2>5, <2>6 DEF FramesOwn, HandleIsOwn
  <2> QED
    BY <2>1, <2>7
<1>4. ASSUME UNCHANGED stack PROVE StacksRefusedRight'
  BY <1>2, <1>4 DEF StacksRefusedRight, RefusedRight, RefusedRightAt, Recursive
<1>5. ASSUME NEW t \in Threads, UseInterface(t)
      PROVE  FramesOwn' /\ StacksRefusedRight'
  <2>1. UNCHANGED stack
    BY <1>5 DEF UseInterface
  <2> QED
    BY <1>4, <1>5, <2>1, InterfaceOwn
<1>6. ASSUME UNCHANGED engine_vars
      PROVE  FramesOwn' /\ StacksRefusedRight'
  <2>1. UNCHANGED <<live, chunk, stack>>
    BY <1>6 DEF engine_vars, vars, tvars
  <2>2. FramesOwn'
    BY <1>2, <2>1, FramesOwnKept
  <2> QED
    BY <1>4, <2>1, <2>2
<1>7. FramesOwn' /\ StacksRefusedRight'
  BY <1>3, <1>5, <1>6 DEF EngineNext, ThreadStep
<1> QED
  BY <1>2, <1>7 DEF RecursionInv

LEMMA RecursionStart == EngineInit => RecursionInv
<1> SUFFICES ASSUME EngineInit PROVE RecursionInv
  OBVIOUS
<1>1. \A t \in Threads : stack[t] = <<>>
  BY DEF EngineInit
<1>2. FramesOwn
  BY <1>1, EmptySeq DEF FramesOwn
<1>3. StacksRefusedRight
  BY <1>1, EmptySeq DEF StacksRefusedRight, RefusedRight
<1> QED
  BY <1>2, <1>3, OriginStart DEF RecursionInv

LEMMA RecursionAlways ==
    ASSUME Careful, Reliable, AllCare
    PROVE  EngineSpec => []RecursionInv
<1>1. RecursionInv /\ [EngineNext]_engine_vars => RecursionInv'
  BY RecursionStep
<1> QED
  BY <1>1, RecursionStart, PTL DEF EngineSpec

-----------------------------------------------------------------------------
(* The engine is type correct: every call on a stack is in a chunk or at a *)
(* barrier handle that exists, however the calls of threads and the        *)
(* transactions interleave, and whatever fails.                            *)
THEOREM EngineTypeCorrect ==
    ASSUME Careful
    PROVE  EngineSpec => []EngineTypeOK
<1>1. CallsInv => EngineTypeOK
  <2> SUFFICES ASSUME CallsInv PROVE EngineTypeOK
    OBVIOUS
  <2>1. TypeOK
    BY DEF CallsInv, PointersInv, TrampolineInv, ThreadsInv, HooksTyped, TypeOK
  <2>2. stack \in [Threads -> Seq(Call)]
    BY DEF CallsInv, StacksTyped
  <2>3. BP!Vector \subseteq Seq(B!Context)
    BY SameBarrier DEF BP!Vector
  <2>4. \A t \in Threads : tls[t] = NoChunk \/ tls[t] \in Seq(B!Context)
    BY <2>3 DEF CallsInv, BarrierRight
  <2> QED
    BY <2>1, <2>2, <2>4 DEF EngineTypeOK
<1> QED
  BY <1>1, CallsAlways, PTL

(* Every callback that passed the barrier leaves it with the handle it     *)
(* entered with, also when the hook was removed meanwhile: a thread that   *)
(* is in no call has no open barrier context.                              *)
THEOREM CallbacksLeave ==
    ASSUME Careful
    PROVE  EngineSpec => []CallbacksLeaveNothing
<1>1. CallsInv => CallbacksLeaveNothing
  <2> SUFFICES ASSUME CallsInv, NEW t \in Threads, stack[t] = <<>>, NEW h \in Addresses
               PROVE  B!GetRecursionDepth(t, h, 0).depth = 0
    BY DEF CallbacksLeaveNothing
  <2>1. tls[t] \in BP!Vector \cup {NoChunk} /\ DepthsRight(stack[t], tls[t])
    BY DEF CallsInv, BarrierRight
  <2>2. ~Inside(stack[t], h)
    BY EmptySeq DEF Inside
  <2>3. BP!DepthIs(tls[t], h, 0)
    BY <2>1, <2>2 DEF DepthsRight
  <2> QED
    BY <2>1, <2>3, DepthRead
<1> QED
  BY <1>1, CallsAlways, PTL

(* If the process drains a hook before it requests an operation on it, and *)
(* is quiet until the transaction ends, no thread is ever in a stub or a   *)
(* trampoline whose chunk was freed or became another function's, whatever *)
(* fails.                                                                  *)
THEOREM NoCallInFreedChunk ==
    ASSUME Careful, Cautious
    PROVE  EngineSpec => []ExecutesLiveChunks
<1>1. LiveInv => ExecutesLiveChunks
  <2> SUFFICES ASSUME LiveInv, NEW t \in Threads, NEW i \in DOMAIN stack[t],
                      stack[t][i].at \in {"stub", "trampoline"}
               PROVE  /\ Usable(stack[t][i].chunk)
                      /\ chunk[stack[t][i].chunk].source.address = Target[stack[t][i].client].address
    BY DEF ExecutesLiveChunks
  <2>1. InChunk(stack[t][i])
    BY DEF LiveInv, FramesLive
  <2>2. TrampolineInv
    BY DEF LiveInv, CallsInv, PointersInv
  <2> QED
    BY <2>1, <2>2, LiveUsable DEF InChunk
<1> QED
  BY <1>1, LiveAlways, PTL

(* If, besides, no call of a transaction stops half way, what is called    *)
(* through the pointer of a client is the original function, and never the *)
(* hook again.                                                             *)
THEOREM OriginalIsNeverTheHook ==
    ASSUME Careful, Cautious, Reliable
    PROVE  EngineSpec => []PointerReachesOriginal
<1>1. OriginInv => PointerReachesOriginal
  BY DEF OriginInv, FramesAtHook, AtHook, PointerReachesOriginal
<1> QED
  BY <1>1, OriginAlways, PTL

(* If, besides, no hook is installed while a callback of a removed one is  *)
(* running, the barrier refuses exactly the recursive callbacks, although  *)
(* it only knows the addresses of chunks, which are used again.            *)
THEOREM BarrierRefusesRecursion ==
    ASSUME Careful, Reliable, AllCare
    PROVE  EngineSpec => []RefusesRecursionOnly
<1>1. RecursionInv => RefusesRecursionOnly
  BY RecursionStated DEF RecursionInv, OriginInv, LiveInv, CallsInv
<1> QED
  BY <1>1, RecursionAlways, PTL
=============================================================================
