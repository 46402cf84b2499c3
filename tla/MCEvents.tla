------------------------------- MODULE MCEvents -------------------------------
(***************************************************************************)
(* The two drivers that must answer what happens to them, the network function *)
(* and the cache error handler, checked side by side: a behaviour follows one  *)
(* of them, chosen at the start, and leaves the variables of the other alone.  *)
(***************************************************************************)
EXTENDS MhiEpNet, KryoEdac

VARIABLE driver     \* the driver this behaviour is about

MCInit ==
    /\ driver \in {"mhi", "kryo"}
    /\ MhiInit /\ EdacInit
    \* One initial state of the driver that is not followed.
    /\ driver # "kryo" => panicOnUe /\ ~panicOnCe

MCNext ==
    \/ driver = "mhi" /\ MhiNext /\ UNCHANGED <<driver, edacVars>>
    \/ driver = "kryo" /\ EdacNext /\ UNCHANGED <<driver, mhiVars>>

\* Nothing that fairness speaks of is enabled in the driver that is not followed.
MCSpec ==
    MCInit /\ [][MCNext]_<<driver, mhiVars, edacVars>> /\ Fairness /\ EdacFairness

=============================================================================
