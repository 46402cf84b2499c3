----------------------------- MODULE MCKgslIova -----------------------------
(* Instances of KgslIova for TLC. *)
EXTENDS KgslIova, TLC

Symmetry == Permutations(Pt) \cup Permutations(Call) \cup Permutations(Thread)

=============================================================================
