---------------------------- MODULE MCDiskImage ----------------------------
(***************************************************************************)
(* Three files, volumes of one or two tracks.  Every cell of a file has    *)
(* contents of its own, so a cell out of its place is seen.  Tracks as on  *)
(* the Apple and the PDP-11, in an .imd file with the sectors in another   *)
(* order; td0 looks at no numbers, so its tracks are in order.             *)
(***************************************************************************)
EXTENDS DiskImage, TLC

MCZero == 0
MCLabel == 1
MCBoot == 2
MCJunk == 3

MCGeometries == {[sectors |-> 26, cells |-> 1], [sectors |-> 16, cells |-> 2]}

InOrder(n) == [j \in 1 .. n |-> j]
EvenFirst(n) == [j \in 1 .. n |-> IF j <= n \div 2 THEN 2 * j ELSE 2 * (j - n \div 2) - 1]
MCOrders(f, n) == IF f = "imd" THEN {InOrder(n), EvenFirst(n)} ELSE {InOrder(n)}
FileSymmetry == Permutations(Files)

=============================================================================
