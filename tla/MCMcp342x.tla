------------------------------ MODULE MCMcp342x -----------------------------
(* Instances of Mcp342x for TLC.                                             *)
EXTENDS Mcp342x

MCFields == {"channel", "gain"}
MCResetSet == [f \in MCFields |-> 0]
=============================================================================
