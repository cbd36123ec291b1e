---------------------------- MODULE MCTrampoline ----------------------------
(* Three bases around an image in 24..31, regions of a header and two      *)
(* chunks, and jumps that reach 14 bytes: of the region at 8 only the      *)
(* second chunk is in reach of the function at 26, and of the region at 32 *)
(* none is in reach of the operand at 20.                                  *)
EXTENDS Trampoline

At(kind, address, lo, hi) ==
    [kind |-> kind, address |-> address, lo |-> lo, hi |-> hi, code |-> NoChunk]

MCBases == {8, 16, 32}

(* All memory near the image is taken. *)
MCFarBases == {48}

MCPrologues ==
    {At("plain", 26, 26, 26),
     At("plain", 28, 20, 30),
     At("plain", 26, 26, 44),           \* more than one jump range apart
     At("unrelocatable", 26, 26, 26),
     At("undecodable", 24, 24, 24),
     At("unreadable", 31, 31, 31)}
=============================================================================
