-------------------------- MODULE MCKiumdSecureMap --------------------------
(* Instances of KiumdSecureMap for TLC: buffers of two segments. *)
EXTENDS KiumdSecureMap, TLC

Symmetry == Permutations(Buf) \cup Permutations(Dev) \cup Permutations(Vm)
                \cup Permutations(Call)

=============================================================================
