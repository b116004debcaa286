------------------------------ MODULE MCVolume ------------------------------
(* Volume on a disk of a few small blocks, with inputs from small sets.    *)
EXTENDS VolumeClaims, TLC

CONSTANTS n1, n2, n3, zero, x

TwoNames == {n1, n2}
ThreeNames == {n1, n2, n3}
TwoBytes == {zero, x}
NameSymmetry == Permutations(Names)

\* What the steps of the volume can see: all but the last result.
StateView == <<files, disk, image, backup, ro, pc, op, loop, fault>>
=============================================================================
