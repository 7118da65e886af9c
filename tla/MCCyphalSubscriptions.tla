----------------------- MODULE MCCyphalSubscriptions -----------------------
(* Instances of CyphalSubscriptions for TLC.                                *)
EXTENDS CyphalSubscriptions

CONSTANTS b1, b2, b3, b4

MCBlocks == {b1, b2, b3, b4}

Key(kind, port) == [kind |-> kind, port |-> port]

(* A message and a service request that share their port number.            *)
MCShared == {Key("message", 7), Key("request", 7)}
=============================================================================
