----------------------------- MODULE ChunkPool -----------------------------
(***************************************************************************)
(* What the trampoline allocator promises to the transaction: chunks are   *)
(* handed out to one owner at a time, in reach of the instructions they    *)
(* are made from, and nothing but their release changes what they hold.    *)
(***************************************************************************)
CONSTANTS
    Chunks,         \* all trampoline chunks of the address space
    Prologues,      \* the function prologues trampolines are made from
    Reaches(_, _)   \* is a chunk within jump distance of a prologue?

VARIABLE
    owned           \* owned[c]: the prologue chunk c was made from, while it has an owner

Acquire(c, p) ==
    /\ c \notin DOMAIN owned
    /\ Reaches(c, p)
    /\ owned' = [d \in DOMAIN owned \cup {c} |-> IF d = c THEN p ELSE owned[d]]

Release(c) ==
    /\ c \in DOMAIN owned
    /\ owned' = [d \in DOMAIN owned \ {c} |-> owned[d]]

PoolInit == owned = [d \in {} |-> d]

PoolNext == \E c \in Chunks : Release(c) \/ \E p \in Prologues : Acquire(c, p)

PoolSpec == PoolInit /\ [][PoolNext]_owned
=============================================================================
