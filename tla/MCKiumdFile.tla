----------------------------- MODULE MCKiumdFile -----------------------------
(***************************************************************************)
(* What KIUMD keeps beside its handles and maps, the page-fault files of a     *)
(* device and the memory regions of an open file: a behaviour follows one of   *)
(* the two, chosen at the start, and leaves the variables of the other alone.  *)
(***************************************************************************)
EXTENDS FaultList, KiumdFile, TLC

VARIABLE part       \* the part this behaviour is about

MCInit ==
    /\ part \in {"faults", "regions"}
    /\ Init /\ RmInit
    \* One initial state of the faults when they are not followed.
    /\ part = "regions" => careful

MCNext ==
    \/ part = "faults" /\ Next /\ UNCHANGED <<part, rmVars>>
    \/ part = "regions" /\ RmNext /\ UNCHANGED <<part, vars>>

MCSpec == MCInit /\ [][MCNext]_<<part, vars, rmVars>>

\* A device with a region, one with two entries of which the second names no node,
\* one with more regions than mem_info has room for, and one without: -EINVAL.
MCRmCount == <<1, 2, 2, -22>>
MCRmNode == <<{0}, {0}, {0, 1}, {}>>

Symmetry == Permutations(Dev) \cup Permutations(Thread) \cup Permutations(RmThread)

=============================================================================
