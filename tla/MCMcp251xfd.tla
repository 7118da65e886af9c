---------------------------- MODULE MCMcp251xfd ----------------------------
(* Instances of Mcp251xfd for TLC.                                          *)
EXTENDS Mcp251xfd

(* An event with a handler of its own, one that falls to the default branch, *)
(* and the one that only resetting the transmit queue clears.                *)
MCEvents == {"ERROR", "OTHER", "TXQ_EXHAUSTED"}
=============================================================================
