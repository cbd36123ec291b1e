----------------------------- MODULE MCBarrier -----------------------------
(* Two threads and two hooks: contexts are inserted before and behind one  *)
(* another; limits 0 (TryEnter) and 1, so that a third entry is refused.   *)
EXTENDS Barrier

MCHandles == {10, 20}
MCMaxDepths == {0, 1}
=============================================================================
