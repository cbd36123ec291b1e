------------------------- MODULE TransactionProofs -------------------------
(***************************************************************************)
(* Proofs about the ownership of the transaction and the suspension of     *)
(* threads, for any number of threads, operations and suspensions, any     *)
(* contract of the clients and any failures, where Begin claims the        *)
(* transaction with a compare-and-swap.                                    *)
(***************************************************************************)
EXTENDS Transaction, TLAPS

Owning == {"open", "commit", "abort"}

(* The inductive invariant.  BeginReturns empties the vector of threads;   *)
(* no suspension is forgotten there because the vector is empty whenever   *)
(* no thread is between Begin and the end, and a thread that has claimed   *)
(* the transaction is the only one that can be there (Exclusive).          *)
ThreadsInv ==
    /\ transaction_thread_id \in Threads \cup {NoThread}
    /\ pc \in [Threads -> Places]
    /\ threads_to_update \in [Threads -> Nat]
    /\ suspend \in [Threads -> Nat]
    /\ stranded \in [Threads -> Nat]
    /\ Exclusive
    /\ SuspensionsAccounted
    /\ (\A t \in Threads : pc[t] \notin Owning) => \A u \in Threads : threads_to_update[u] = 0

LEMMA ThreadsInit == Init => ThreadsInv
BY DEF Init, ThreadsInv, Exclusive, SuspensionsAccounted, Places, Owning

(* Suspending threads, listed or not. *)
LEMMA SuspendsAccounted ==
    ASSUME ThreadsInv, NEW t \in Threads, InTransaction(t), UNCHANGED claim_vars,
           NEW suspended, NEW listed, Suspends(suspended, listed)
    PROVE  ThreadsInv'
<1>1. /\ suspend' \in [Threads -> Nat]
      /\ stranded' \in [Threads -> Nat]
      /\ threads_to_update' \in [Threads -> Nat]
  BY DEF Suspends, ThreadsInv
<1>2. ASSUME NEW u \in Threads
      PROVE  suspend'[u] = stranded'[u] + threads_to_update'[u]
  <2>1. suspend[u] = stranded[u] + threads_to_update[u]
        /\ suspend[u] \in Nat /\ stranded[u] \in Nat /\ threads_to_update[u] \in Nat
    BY DEF ThreadsInv, SuspensionsAccounted
  <2>2. CASE u \in listed
    BY <2>1, <2>2 DEF Suspends
  <2>3. CASE u \in suspended \ listed
    BY <2>1, <2>3 DEF Suspends
  <2>4. CASE u \notin suspended
    BY <2>1, <2>4 DEF Suspends
  <2> QED
    BY <2>2, <2>3, <2>4
<1>3. pc' = pc /\ transaction_thread_id' = transaction_thread_id
  BY DEF claim_vars
<1>4. pc'[t] \in Owning
  BY <1>3 DEF InTransaction, Owning
<1> QED
  BY <1>1, <1>2, <1>3, <1>4 DEF ThreadsInv, Exclusive, SuspensionsAccounted

LEMMA ThreadsStep ==
    ASSUME AtomicClaim, ThreadsInv, [Next]_vars
    PROVE  ThreadsInv'
<1>1. NoThread \notin Threads
  BY TransactionAssumption
<1> USE DEF Owning, Places
<1>2. ASSUME NEW t \in Threads, Begin(t)
      PROVE  ThreadsInv'
  <2>1. CASE BeginChecks(t)
    BY <2>1 DEF BeginChecks, Goes, thread_vars, ThreadsInv, Exclusive, SuspensionsAccounted
  <2>2. CASE BeginClaims(t)
    BY <1>1, <2>2 DEF BeginClaims, Goes, thread_vars, ThreadsInv, Exclusive, SuspensionsAccounted
  <2>3. CASE BeginIsLate(t)
    BY <2>3 DEF BeginIsLate, Goes, thread_vars, ThreadsInv, Exclusive, SuspensionsAccounted
  <2>4. CASE BeginReturns(t)
    <3>1. \A u \in Threads : pc[u] \notin Owning
      BY <2>4 DEF BeginReturns, Goes, ThreadsInv, Exclusive
    <3>2. \A u \in Threads : threads_to_update[u] = 0
      BY <3>1 DEF ThreadsInv
    <3>3. threads_to_update' = threads_to_update
      BY <2>4, <3>2 DEF BeginReturns, ThreadsInv
    <3> QED
      BY <2>4, <3>2, <3>3 DEF BeginReturns, Goes, ThreadsInv, Exclusive, SuspensionsAccounted
  <2>5. CASE BeginFails(t)
    BY <2>5 DEF BeginFails, Goes, thread_vars, ThreadsInv, Exclusive, SuspensionsAccounted
  <2> QED
    BY <1>2, <2>1, <2>2, <2>3, <2>4, <2>5 DEF Begin
<1>3. ASSUME NEW t \in Threads, NEW u \in Threads, UpdateThread(t, u)
      PROVE  ThreadsInv'
  BY <1>3, SuspendsAccounted DEF UpdateThread
<1>4. ASSUME NEW t \in Threads, UpdateAllThreads(t)
      PROVE  ThreadsInv'
  BY <1>4, SuspendsAccounted DEF UpdateAllThreads
<1>5. CASE UNCHANGED <<transaction_thread_id, pc, thread_vars>>
  BY <1>5 DEF thread_vars, ThreadsInv, Exclusive, SuspensionsAccounted
<1>6. ASSUME NEW t \in Threads, CommitStarts(t) \/ AbortStarts(t)
      PROVE  ThreadsInv'
  BY <1>6 DEF CommitStarts, AbortStarts, Goes, thread_vars, ThreadsInv, Exclusive,
              SuspensionsAccounted
<1>7. ASSUME NEW t \in Threads, CommitEnd(t)
      PROVE  ThreadsInv'
  <2>1. pc[t] = "commit" /\ pc' = [pc EXCEPT ![t] = "idle"] /\ transaction_thread_id' = NoThread
    BY <1>7 DEF CommitEnd, AtEnd, Goes
  <2>2. Exclusive'
    BY <2>1 DEF ThreadsInv, Exclusive
  <2>3. /\ suspend' = suspend
        /\ stranded' = [u \in Threads |-> stranded[u] + threads_to_update[u]]
        /\ threads_to_update' = [u \in Threads |-> 0]
    BY <1>7 DEF CommitEnd
  <2>4. SuspensionsAccounted' /\ stranded' \in [Threads -> Nat]
    BY <2>3 DEF ThreadsInv, SuspensionsAccounted
  <2> QED
    BY <2>1, <2>2, <2>3, <2>4 DEF ThreadsInv
<1>8. ASSUME NEW t \in Threads, AbortEnd(t)
      PROVE  ThreadsInv'
  <2>1. pc[t] = "abort" /\ pc' = [pc EXCEPT ![t] = "idle"] /\ transaction_thread_id' = NoThread
    BY <1>8 DEF AbortEnd, AtEnd, Goes
  <2>2. Exclusive'
    BY <2>1 DEF ThreadsInv, Exclusive
  <2>3. /\ suspend' = [u \in Threads |-> suspend[u] - threads_to_update[u]]
        /\ stranded' = stranded
        /\ threads_to_update' = [u \in Threads |-> 0]
    BY <1>8 DEF AbortEnd, Resumes
  <2>4. \A u \in Threads : suspend'[u] = stranded[u] /\ stranded[u] \in Nat
    BY <2>3 DEF ThreadsInv, SuspensionsAccounted
  <2>5. SuspensionsAccounted' /\ suspend' \in [Threads -> Nat]
    BY <2>3, <2>4 DEF SuspensionsAccounted
  <2> QED
    BY <2>1, <2>2, <2>3, <2>5 DEF ThreadsInv
<1>9. ASSUME NEW t \in Threads,
             \/ \E k \in Clients : Install(t, k) \/ Remove(t, k)
             \/ CommitStep(t) \/ AbortStep(t)
      PROVE  UNCHANGED <<transaction_thread_id, pc, thread_vars>>
  BY <1>9 DEF Install, Remove, CommitStep, AbortStep, claim_vars
<1>10. CASE UNCHANGED vars
  BY <1>5, <1>10 DEF vars, claim_vars
<1> QED
  BY <1>2, <1>3, <1>4, <1>5, <1>6, <1>7, <1>8, <1>9, <1>10 DEF Next, Ends

LEMMA ThreadsAlways ==
    ASSUME AtomicClaim
    PROVE  Spec => []ThreadsInv
<1>1. ThreadsInv /\ [Next]_vars => ThreadsInv'
  BY ThreadsStep
<1> QED
  BY <1>1, ThreadsInit, PTL DEF Spec

(* With the compare-and-swap in Begin, only the thread that owns the       *)
(* transaction is ever between its claim and the end of CommitEx or Abort. *)
THEOREM OneOwner ==
    ASSUME AtomicClaim
    PROVE  Spec => []Exclusive
<1>1. ThreadsInv => Exclusive
  BY DEF ThreadsInv
<1> QED
  BY <1>1, ThreadsAlways, PTL

(* Every suspension of a thread is either undone by an abort of the        *)
(* transaction that is open, or stranded by a full vector or a commit:     *)
(* Abort resumes no thread too often, whatever failed before it.           *)
THEOREM EverySuspensionAccounted ==
    ASSUME AtomicClaim
    PROVE  Spec => []SuspensionsAccounted
<1>1. ThreadsInv => SuspensionsAccounted
  BY DEF ThreadsInv
<1> QED
  BY <1>1, ThreadsAlways, PTL
=============================================================================
