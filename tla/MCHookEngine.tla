---------------------------- MODULE MCHookEngine ----------------------------
(* Two clients with a function each, and one region with two chunks. *)
EXTENDS HookEngine

Plain(address) ==
    [kind |-> "plain", address |-> address, lo |-> address, hi |-> address, code |-> NoChunk]

MCBases == {16}

MCPrologues == {Plain(26), Plain(28)}

MCClients == 1 .. 2

MCTarget == [k \in MCClients |-> IF k = 1 THEN Plain(26) ELSE Plain(28)]
=============================================================================
