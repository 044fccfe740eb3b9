--------------------------- MODULE MCChainService ---------------------------
(* ChainService for TLC: the node's goroutine and two callers, a pool that *)
(* may be nil, may hold only tx_addr_0 or also the node's own address.     *)
EXTENDS ChainService

CONSTANTS main, g1, g2, n, a0, none

(* The answers that carry a result to decode are left to main and g1. *)
MCNext == Next /\ ~ call'[g2].decode

MCSpec == Init /\ [][MCNext]_vars /\ Fairness
=============================================================================
