----------------------------- MODULE MCAgentLoop -----------------------------
(* A read, two gated writes and a call with invalid arguments; batches of two *)
(* so that a call can be repeated inside one.                                 *)
EXTENDS AgentLoop

CONSTANTS read, write, prune, bogus

MCCalls == {read, write, prune, bogus}
MCMalformed == {bogus}
MCGated == {write, prune}
=============================================================================
