---------------------------- MODULE MCPartitions ----------------------------
(* Instances of Partitions for TLC.                                         *)
EXTENDS Partitions, TLC

CONSTANTS r1, r2, i1, i2, i3

CalendarSymmetry == Permutations({r1, r2}) \cup Permutations({i1, i2, i3})
=============================================================================
