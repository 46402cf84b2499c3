------------------------------ MODULE KryoEdac ------------------------------
(***************************************************************************)
(* The cache error driver (drivers/kryo_arm64_edac.c).  Every CPU has a      *)
(* record for its L1 and L2 caches; the CPUs of a cluster share the record of *)
(* L3.  Records are read, reported and cleared under local_handler_lock, with *)
(* interrupts off, by interrupt handlers, on exit from CPU idle and by the     *)
(* panic notifier.  The driver may be probed, fail half way, and be removed    *)
(* while they run.  The CPUs are of the parts the driver knows: the errors of     *)
(* any other part are cleared without a report.                                *)
(***************************************************************************)
EXTENDS Integers, FiniteSets, Sequences

CONSTANTS
    EdacCpu,       \* the CPUs of one cluster
    EdacNoCpu,     \* the lock is free, nobody panics
    L3,            \* the shared record
    MaxErrors      \* bound on the errors the hardware raises

ASSUME EdacAssumption ==
    /\ IsFiniteSet(EdacCpu) /\ EdacNoCpu \notin EdacCpu /\ L3 \notin EdacCpu
    /\ MaxErrors \in Nat

Records == EdacCpu \cup {L3}

VARIABLES
    edacState,   \* how far probe or remove has come
    edacData,    \* drv and its edev_ctl: "none", "live", "freed"
    edacGlobal,  \* panic_handler_drvdata is set
    edacNotify,  \* subset of {"panic", "pm", "irq12", "irq3"} that is registered
    panicOnUe,   \* edev_ctl->panic_on_ue
    panicOnCe,   \* the build has CONFIG_EDAC_KRYO_ARM64_PANIC_ON_CE
    edacErr,     \* edacErr[r]: the error in record r
    edacDone,    \* history: how often that error was reported, 2 for more than once
    edacCount,   \* history: errors raised so far
    edacLock,    \* the CPU that holds local_handler_lock
    edacCpu,     \* what a CPU does: [kind, pc, todo]
    edacPanic,   \* the CPU that panics
    edacLost,    \* history: an error was cleared and never reported
    edacBad      \* memory was used that is not there (any more)

edacVars == <<edacState, edacData, edacGlobal, edacNotify, panicOnUe, panicOnCe, edacErr,
              edacDone, edacCount, edacLock, edacCpu, edacPanic, edacLost, edacBad>>

lifeVars == <<edacState, edacData, edacGlobal, edacNotify, panicOnCe>>
errVars == <<edacErr, edacDone, edacCount, edacLost>>
runVars == <<panicOnUe, edacLock, edacCpu, edacPanic, edacBad>>

CpuIdle == [kind |-> "none", pc |-> "idle", todo |-> <<>>]

EdacInit ==
    /\ edacState = "none" /\ edacData = "none" /\ edacGlobal = FALSE
    /\ edacNotify = {}
    /\ panicOnUe \in BOOLEAN        \* CONFIG_EDAC_KRYO_ARM64_PANIC_ON_UE
    /\ panicOnCe \in BOOLEAN
    /\ edacErr = [r \in Records |-> "none"]
    /\ edacDone = [r \in Records |-> 0]
    /\ edacCount = 0
    /\ edacLock = EdacNoCpu
    /\ edacCpu = [c \in EdacCpu |-> CpuIdle]
    /\ edacPanic = EdacNoCpu
    /\ edacLost = FALSE /\ edacBad = FALSE

\* Nobody runs a handler of this kind.
Quiet(kind) == \A c \in EdacCpu : edacCpu[c].kind # kind

-----------------------------------------------------------------------------
(* kryo_cpu_erp_probe and kryo_cpu_erp_remove *)

Life(from, to, data, notify) ==
    /\ edacState = from
    /\ edacState' = to
    /\ edacData' = data
    /\ edacNotify' = notify
    /\ UNCHANGED <<errVars, runVars, panicOnCe>>

\* The panic notifier is registered before anything else is there.
EdacRegister == Life("none", "registered", "live", {"panic"}) /\ UNCHANGED edacGlobal

\* edac_device_add_device; on failure the notifier stays registered.
EdacAdd == Life("registered", "added", "live", edacNotify) /\ edacGlobal' = TRUE
EdacAddFail == Life("registered", "failed", "freed", edacNotify) /\ UNCHANGED edacGlobal

\* Each interrupt is requested, or not, and probe goes on.
EdacRequest ==
    /\ \E irqs \in SUBSET {"irq12", "irq3"} :
          Life("added", "irqs", "live", edacNotify \cup irqs)
    /\ UNCHANGED edacGlobal

\* Names that the device tree does not list count as failures as well, so that
\* probe may give up with interrupts requested.  Those of L3 are given back by
\* the device core after edev_ctl is freed; the per-CPU one is not.
EdacGiveUp == Life("irqs", "unwinding", "freed", edacNotify) /\ UNCHANGED edacGlobal

EdacUp ==
    /\ edacNotify \cap {"irq12", "irq3"} # {}
    /\ Life("irqs", "up", "live", edacNotify \cup {"pm"})
    /\ UNCHANGED edacGlobal

\* EdacInv: remove forgets the per-CPU interrupt.
EdacRemoveKeepIrq == Life("up", "removing", "live", edacNotify) /\ UNCHANGED edacGlobal

EdacRemoveIrq ==
    /\ Quiet("irq12")
    /\ Life("up", "removing", "live", edacNotify \ {"irq12"})
    /\ UNCHANGED edacGlobal

EdacRemoveFree == Life("removing", "releasing", "freed", edacNotify \ {"pm"}) /\ UNCHANGED edacGlobal

\* The device core releases the interrupts of L3, and waits for their handler.
EdacUnwound ==
    /\ Quiet("irq3")
    /\ \/ Life("unwinding", "failed", "freed", edacNotify \ {"irq3"})
       \/ Life("releasing", "removed", "freed", edacNotify \ {"irq3"})
    /\ UNCHANGED edacGlobal

-----------------------------------------------------------------------------
(* Errors and what they start *)

\* A record keeps its first error until it is cleared.
EdacRaise(r, e) ==
    /\ edacErr[r] = "none"
    /\ e = "bus" => r = L3
    /\ edacCount < MaxErrors
    /\ edacErr' = [edacErr EXCEPT ![r] = e]
    /\ edacDone' = [edacDone EXCEPT ![r] = 0]
    /\ edacCount' = edacCount + 1
    /\ UNCHANGED <<lifeVars, runVars, edacLost>>

Begin(c, kind, todo) ==
    /\ edacCpu[c].pc = "idle"
    /\ edacPanic = EdacNoCpu
    /\ edacCpu' = [edacCpu EXCEPT ![c] = [kind |-> kind, pc |-> "wait", todo |-> todo]]
    /\ UNCHANGED <<lifeVars, errVars, edacLock>>

\* Handlers find edev_ctl through the global, or through their own pointer.
GlobalGone == ~edacGlobal \/ edacData = "freed"

EdacIrq12(c) ==
    /\ "irq12" \in edacNotify /\ edacErr[c] # "none"
    /\ Begin(c, "irq12", <<c>>)
    /\ edacBad' = GlobalGone
    /\ UNCHANGED <<panicOnUe, edacPanic>>

\* One handler thread; the line stays masked until it is done.
EdacIrq3(c) ==
    /\ "irq3" \in edacNotify /\ edacErr[L3] # "none"
    /\ Quiet("irq3")
    /\ Begin(c, "irq3", <<L3>>)
    /\ edacBad' = (edacData = "freed")
    /\ UNCHANGED <<panicOnUe, edacPanic>>

EdacPmExit(c) ==
    /\ "pm" \in edacNotify
    /\ Begin(c, "pm", <<L3, c>>)
    /\ edacBad' = GlobalGone
    /\ UNCHANGED <<panicOnUe, edacPanic>>

\* panic() anywhere else in the kernel stops the other CPUs where interrupts
\* are on and calls the notifiers.
EdacPanicElsewhere(c) ==
    /\ "panic" \in edacNotify
    /\ Begin(c, "panic", <<L3, c>>)
    /\ edacPanic' = c
    /\ panicOnUe' = FALSE
    /\ edacBad' = GlobalGone

-----------------------------------------------------------------------------
(* kryo_check_l3_scu_error and kryo_check_l1_l2_ecc *)

\* EdacOnce: the lock is not taken.
LockAlways == TRUE

LockFree == edacLock = EdacNoCpu

EdacTake(c) ==
    /\ edacCpu[c].pc = "wait"
    /\ LockFree
    /\ edacLock' = c
    /\ edacCpu' = [edacCpu EXCEPT ![c].pc = "check"]
    /\ UNCHANGED <<lifeVars, errVars, panicOnUe, edacPanic, edacBad>>

\* The check of the first record is over; the next one takes the lock again.
Done(c) ==
    /\ edacLock' = EdacNoCpu
    /\ edacCpu' = [edacCpu EXCEPT ![c] =
          IF Len(@.todo) = 1 THEN CpuIdle
          ELSE [edacCpu[c] EXCEPT !.pc = "wait", !.todo = Tail(edacCpu[c].todo)]]

\* panic() on this CPU: the notifier chain runs at once, again if the CPU has
\* panicked before; while another CPU panics, this one stops for good.
Panic(c) ==
    IF edacPanic \in {EdacNoCpu, c}
    THEN /\ edacPanic' = c
         /\ panicOnUe' = FALSE
         /\ edacCpu' = [edacCpu EXCEPT ![c] =
               [kind |-> "panic", pc |-> "wait", todo |-> <<L3, c>>]]
    ELSE /\ edacCpu' = [edacCpu EXCEPT ![c].pc = "stopped"]
         /\ UNCHANGED <<panicOnUe, edacPanic>>

Checking(c, errors) == edacCpu[c].pc = "check" /\ edacErr[Head(edacCpu[c].todo)] \in errors

EdacNothing(c) ==
    /\ Checking(c, {"none"})
    /\ Done(c)
    /\ UNCHANGED <<lifeVars, errVars, panicOnUe, edacPanic, edacBad>>

\* A bus error is not cleared.  Its panic comes after the unlock.
EdacBus(c) ==
    /\ Checking(c, {"bus"})
    /\ IF panicOnUe
       THEN Panic(c) /\ edacLock' = EdacNoCpu
       ELSE Done(c) /\ UNCHANGED <<panicOnUe, edacPanic>>
    /\ edacBad' = (edacBad \/ edacData = "freed")
    /\ UNCHANGED <<lifeVars, errVars>>

Report(c) == edacDone' = [edacDone EXCEPT ![Head(edacCpu[c].todo)] = IF @ = 0 THEN 1 ELSE 2]

\* edac_device_handle_ue panics itself when panic_on_ue is set, kryo_edac_handle_ce
\* in the builds that do, with the lock held that the notifier takes.
PanicsOn(e) == (e = "ue" /\ panicOnUe) \/ (e = "ce" /\ panicOnCe)

EdacReport(c) ==
    /\ Checking(c, {"ce", "ue"})
    /\ Report(c)
    /\ IF PanicsOn(edacErr[Head(edacCpu[c].todo)])
       THEN Panic(c)
       ELSE /\ edacCpu' = [edacCpu EXCEPT ![c].pc = "clear"]
            /\ UNCHANGED <<panicOnUe, edacPanic>>
    /\ edacBad' = (edacBad \/ edacData = "freed")
    /\ UNCHANGED <<lifeVars, edacErr, edacCount, edacLost, edacLock>>

\* EdacErrorCleared: a reported error stays in its record.
EdacClearNothing(c) ==
    /\ edacCpu[c].pc = "clear"
    /\ Done(c)
    /\ UNCHANGED <<lifeVars, errVars, panicOnUe, edacPanic, edacBad>>

EdacClear(c) ==
    /\ edacCpu[c].pc = "clear"
    /\ LET r == Head(edacCpu[c].todo) IN
          /\ edacErr' = [edacErr EXCEPT ![r] = "none"]
          /\ edacLost' = (edacLost \/ (edacErr[r] # "none" /\ edacDone[r] = 0))
    /\ Done(c)
    /\ UNCHANGED <<lifeVars, edacDone, edacCount, panicOnUe, edacPanic, edacBad>>

-----------------------------------------------------------------------------

EdacHandler(c) ==
    EdacTake(c) \/ EdacNothing(c) \/ EdacBus(c) \/ EdacReport(c) \/ EdacClear(c)

EdacNext ==
    /\ ~edacBad
    /\ \/ EdacRegister \/ EdacAdd \/ EdacAddFail \/ EdacRequest \/ EdacGiveUp \/ EdacUp
       \/ EdacRemoveIrq \/ EdacRemoveFree \/ EdacUnwound
       \/ \E r \in Records, e \in {"ce", "ue", "bus"} : EdacRaise(r, e)
       \/ \E c \in EdacCpu :
             \/ EdacIrq12(c) \/ EdacIrq3(c) \/ EdacPmExit(c) \/ EdacPanicElsewhere(c)
             \/ EdacHandler(c)

\* A pending interrupt is taken, and code with interrupts off goes on as long as
\* the lock it waits for is free.
EdacFairness ==
    /\ WF_edacVars(~edacBad /\ \E c \in EdacCpu : EdacIrq3(c))
    /\ \A c \in EdacCpu : WF_edacVars(~edacBad /\ EdacHandler(c))

EdacSpec == EdacInit /\ [][EdacNext]_edacVars /\ EdacFairness

-----------------------------------------------------------------------------

EdacTypeOK ==
    /\ edacState \in {"none", "registered", "added", "irqs", "up", "removing",
                      "releasing", "removed", "unwinding", "failed"}
    /\ edacData \in {"none", "live", "freed"}
    /\ edacNotify \subseteq {"panic", "pm", "irq12", "irq3"}
    /\ {edacGlobal, panicOnUe, panicOnCe, edacLost, edacBad} \subseteq BOOLEAN
    /\ edacErr \in [Records -> {"none", "ce", "ue", "bus"}]
    /\ edacDone \in [Records -> 0 .. 2] /\ edacCount \in 0 .. MaxErrors
    /\ edacLock \in EdacCpu \cup {EdacNoCpu} /\ edacPanic \in EdacCpu \cup {EdacNoCpu}
    /\ edacCpu \in [EdacCpu -> [kind : {"none", "irq12", "irq3", "pm", "panic"},
                                pc : {"idle", "wait", "check", "clear", "stopped"},
                                todo : {<<>>} \cup {<<r>> : r \in Records}
                                           \cup {<<L3, c>> : c \in EdacCpu}]]

(* Handlers use memory that is not there only in the panic notifier, which    *)
(* outlives the driver and precedes its data, or once edev_ctl is freed: then an *)
(* interrupt of L3 the device core has yet to release, the per-CPU interrupt of  *)
(* a probe that gave up, or an idle exit that began before.                      *)
EdacInv ==
    /\ EdacTypeOK
    /\ edacBad /\ edacPanic = EdacNoCpu =>
          /\ edacData = "freed"
          /\ \/ "irq3" \in edacNotify
             \/ "irq12" \in edacNotify /\ edacState \in {"unwinding", "failed"}
             \/ ~Quiet("pm")

(* Whatever handlers of different CPUs find the shared record at the same      *)
(* time, its error is reported once, and none is cleared without a report.  A    *)
(* CPU waits for a lock it holds itself only when it panicked in the report of an  *)
(* error: an uncorrectable one, or a correctable one in a build that panics on       *)
(* those.  A CPU stops with the lock, on which the panicking CPU then waits, in        *)
(* such a build only.                                                                   *)
EdacOnce ==
    /\ \A r \in Records : edacDone[r] <= 1
    /\ ~edacLost
    /\ \A c \in EdacCpu : edacCpu[c].pc = "wait" /\ edacLock = c =>
          /\ edacPanic = c
          /\ \E r \in {L3, c} : /\ edacErr[r] = "ue" \/ (edacErr[r] = "ce" /\ panicOnCe)
                                /\ edacDone[r] = 1
    /\ \A c \in EdacCpu : edacCpu[c].pc = "stopped" =>
          edacLock = c /\ edacPanic \notin {EdacNoCpu, c} /\ panicOnCe

(* An L3 error other than a bus error is cleared while the driver is up,       *)
(* unless the machine panics.                                                  *)
EdacErrorCleared ==
    edacState = "up" /\ "irq3" \in edacNotify /\ edacErr[L3] \in {"ce", "ue"}
        ~> edacErr[L3] = "none" \/ edacState # "up" \/ edacPanic # EdacNoCpu

=============================================================================
