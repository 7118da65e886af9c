----------------------------- MODULE MCCyphalTx -----------------------------
(* Instances of CyphalTx for TLC.                                            *)
EXTENDS CyphalTx
=============================================================================
