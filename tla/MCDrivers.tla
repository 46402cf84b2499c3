------------------------------ MODULE MCDrivers ------------------------------
(***************************************************************************)
(* Drivers that share no state with one another, checked side by side: a       *)
(* behaviour follows one of them, chosen at the start, and leaves the          *)
(* variables of the others at their initial values.                            *)
(***************************************************************************)
EXTENDS SgBuffer, Profiler, Uscmi, ScmUser, IovaMap, Dload, TLC

VARIABLE driver     \* the driver this behaviour is about

N(type, mem) == [type |-> type, mem |-> mem]

MCTrees == {
    <<N("carveout", "plain"), N("cma", "ops")>>,
    <<N("cma", "ops"), N("unknown", "ops")>>,
    <<N("carveout", "none"), N("carveout", "ops")>>,
    <<N("unknown", "none"), N("cma", "none")>>}

MCInit ==
    /\ driver \in {"heaps", "profiler", "uscmi", "scm", "iova", "dload"}
    /\ Init /\ BwInit /\ PdInit /\ ScmInit /\ IovaInit /\ DlInit
    \* One initial state of the drivers that are not followed.
    /\ driver # "heaps" => node = <<N("unknown", "none"), N("cma", "none")>>
    /\ driver # "uscmi" => pdMulti /\ pdOther
    /\ driver # "scm" => scmScattered = {}
    /\ driver # "dload" => dlReg = "full"

\* Only the driver named takes a step.
Only(name) ==
    /\ driver = name /\ UNCHANGED driver
    /\ name # "heaps" => UNCHANGED vars
    /\ name # "profiler" => UNCHANGED bwVars
    /\ name # "uscmi" => UNCHANGED pdVars
    /\ name # "scm" => UNCHANGED scmVars
    /\ name # "iova" => UNCHANGED iovaVars
    /\ name # "dload" => UNCHANGED dlVars

MCNext ==
    \/ Only("heaps") /\ Next
    \/ Only("profiler") /\ BwNext
    \/ Only("uscmi") /\ PdNext
    \/ Only("scm") /\ ScmNext
    \/ Only("iova") /\ IovaNext
    \/ Only("dload") /\ DlNext

mcVars == <<driver, vars, bwVars, pdVars, scmVars, iovaVars, dlVars>>

MCSpec == MCInit /\ [][MCNext]_mcVars

Symmetry == Permutations(Buf) \cup Permutations(Att)

=============================================================================
