------------------------------ MODULE MCMmioMap ------------------------------
EXTENDS MmioMap, TLC
CONSTANTS t1, t2, c1, c2

Symmetry == Permutations(Thread) \cup Permutations(Ctx)

==============================================================================
