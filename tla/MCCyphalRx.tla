----------------------------- MODULE MCCyphalRx -----------------------------
(* Instances of CyphalRx for TLC.                                            *)
EXTENDS CyphalRx, TLC

CONSTANTS b1, b2, b3, b4

MCBlocks == {b1, b2, b3, b4}
BlockSymmetry == Permutations(MCBlocks)

Key(kind, port) == [kind |-> kind, port |-> port]

(* Three subscriptions on ports of their own for a table of two.            *)
MCDistinct == {Key("message", 7), Key("message", 8), Key("request", 9)}
=============================================================================
