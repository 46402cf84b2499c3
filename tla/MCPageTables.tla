---------------------------- MODULE MCPageTables ----------------------------
EXTENDS PageTables, TLC
CONSTANTS t1, t2

Symmetry == Permutations(Thread)

=============================================================================
