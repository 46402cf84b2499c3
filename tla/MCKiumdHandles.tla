--------------------------- MODULE MCKiumdHandles ---------------------------
(* Instances of KiumdHandles for TLC: two contexts, two buffers, two threads. *)
EXTENDS KiumdHandles, TLC

Symmetry == Permutations(Ctx) \cup Permutations(Buf) \cup Permutations(Fd)
                \cup Permutations(Thread)

=============================================================================
