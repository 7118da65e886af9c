--------------------------- MODULE MCSx126xLinux ---------------------------
(* Instances of Sx126xLinux for TLC.                                         *)
EXTENDS Sx126xLinux

CONSTANTS SX1262, SX1268

MCRadios == {SX1262, SX1268}

Wires(n, b, r) == [nss |-> n, busy |-> b, reset |-> r]

Pair(p, q) == [r \in MCRadios |-> IF r = SX1262 THEN p ELSE q]

(* One reset line for both radios; one for each.                             *)
MCShared == Pair(Wires(1, 2, 5), Wires(3, 4, 5))
MCSeparate == Pair(Wires(1, 2, 5), Wires(3, 4, 6))

(* A second radio whose BUSY line is taken: it is refused every time.        *)
MCClash == Pair(Wires(1, 2, 5), Wires(3, 2, 5))

MCBoards == {MCShared, MCSeparate, MCClash}
MCLines == 1 .. 6
=============================================================================
