------------------------------ MODULE MCSx126x ------------------------------
(* Instances of Sx126x for TLC: two packets, one of them damaged.           *)
EXTENDS Sx126x

CONSTANTS p1, p2

MCPackets == {p1, p2}
MCDamaged == {p2}
=============================================================================
