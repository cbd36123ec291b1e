---------------------------- MODULE HookBarrier ----------------------------
(***************************************************************************)
(* What the hook barrier promises to the authors of hook callbacks, with   *)
(* no thread-local storage and no vector: the callbacks a thread is in     *)
(* form a stack, and the verdict on a new one is a function of that stack. *)
(***************************************************************************)
EXTENDS Naturals, Sequences, FiniteSets

CONSTANTS
    Threads,        \* threads that run hook callbacks
    Handles,        \* barrier handles, one per hook (trampoline addresses)
    MaxDepths,      \* values callers pass as max_recursion_depth
    MaxNesting      \* bound: callbacks open at once, all threads together

VARIABLE
    frames          \* frames[t]: the hook callbacks thread t is in, outermost first

Verdicts == {"true", "false", "error"}

Frame == [handle : Handles, verdict : Verdicts]

(* How many callbacks of the hook h thread t is in that passed the barrier. *)
Passed(t, h) ==
    Cardinality({i \in DOMAIN frames[t] :
                    frames[t][i].handle = h /\ frames[t][i].verdict = "true"})

OpenCallbacks ==
    Cardinality({c \in Threads \X (1 .. MaxNesting) : c[2] \in DOMAIN frames[c[1]]})

(* The barrier lets a callback pass if and only if at most max callbacks   *)
(* of the same hook on the same thread have passed it and have not left.   *)
Verdict(t, h, max) == IF Passed(t, h) <= max THEN "true" ELSE "false"

Open(t, h, verdict) ==
    /\ OpenCallbacks < MaxNesting
    /\ frames' = [frames EXCEPT ![t] = Append(@, [handle |-> h, verdict |-> verdict])]

(* A thread enters a callback; without memory it is refused with an error. *)
Enter(t, h, max) ==
    \/ Open(t, h, Verdict(t, h, max))
    \/ Open(t, h, "error")

(* The innermost callback of the thread returns. *)
Return(t) ==
    /\ frames[t] # <<>>
    /\ frames' = [frames EXCEPT ![t] = SubSeq(@, 1, Len(@) - 1)]

(* The thread ends, whatever callbacks it was in. *)
Exit(t) == frames' = [frames EXCEPT ![t] = <<>>]

HBInit == frames = [t \in Threads |-> <<>>]

HBNext ==
    \E t \in Threads :
        \/ \E h \in Handles, max \in MaxDepths : Enter(t, h, max)
        \/ Return(t)
        \/ Exit(t)

HBSpec == HBInit /\ [][HBNext]_frames
=============================================================================
