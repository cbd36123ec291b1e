--------------------------- MODULE MCTransaction ---------------------------
(* Two clients that hook the same function and one that hooks another; two *)
(* regions with two chunks each, all in reach.                             *)
EXTENDS Transaction

Plain(address) ==
    [kind |-> "plain", address |-> address, lo |-> address, hi |-> address, code |-> NoChunk]

MCBases == {16, 32}

MCPrologues == {Plain(26), Plain(28)}

MCClients == 1 .. 3

MCTarget == [k \in MCClients |-> IF k < 3 THEN Plain(26) ELSE Plain(28)]

(* For the run about threads: one client and one region. *)
MCOneBase == {16}

MCOneClient == {3}

MCOneTarget == [k \in MCOneClient |-> MCTarget[k]]
=============================================================================
