---------------------------- MODULE MCKiumdBufMap ----------------------------
(* Instances of KiumdBufMap for TLC: three map calls from two threads. *)
EXTENDS KiumdBufMap, TLC

Symmetry == Permutations(Buf) \cup Permutations(Slot) \cup Permutations(Thread)

=============================================================================
