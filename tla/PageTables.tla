----------------------------- MODULE PageTables -----------------------------
(***************************************************************************)
(* Page tables of the GPU's devices (drivers/kiumd.c): the global table,   *)
(* the tables of processes and the tables of TTBR0 and TTBR1.  A domain    *)
(* maps through pgtbl_ops, which the ioctls exchange; the hardware walks   *)
(* the tables of the context bank.  Nothing of it is locked, and tables    *)
(* are handed to user space and freed when user space says so.             *)
(***************************************************************************)
EXTENDS Integers, FiniteSets

CONSTANTS
    Devs,     \* number of devices
    Thread,   \* threads that call the ioctls
    MaxTable  \* bound: tables, the first of which are the devices' own

ASSUME TableAssumption == Devs \in Nat \ {0} /\ MaxTable \in Nat /\ MaxTable >= Devs

Dev == 1 .. Devs
Table == 1 .. MaxTable

VARIABLES
    care,    \* discipline of user space: 0 none, 1 configures one call after
             \* the other, 2 also in the order the functions expect
    tables,  \* tables allocated: table d is the one of device d
    freed,   \* tables freed
    pgtable, \* the global table, 0 while nobody has set it
    ops,     \* ops[d]: smmu_dom->pgtbl_ops
    cb,      \* cb[d]: disable bits and translation tables of the context bank
    given,   \* tables whose pointers user space has
    lost,    \* tables left behind by an ignored error
    refused, \* tables in use when the aperture call failed
    th,      \* what each thread is doing
    bad      \* a freed table, or a null pointer, has been used

vars == <<care, tables, freed, pgtable, ops, cb, given, lost, refused, th, bad>>

Idle == [pc |-> "idle", dev |-> 0, table |-> 0]
SetPcs == {"ttbr1", "enable1", "ttbr0", "enable0", "aperture", "capture", "global"}

TypeOK ==
    /\ care \in 0 .. 2 /\ tables \in Devs .. MaxTable
    /\ freed \subseteq 1 .. tables /\ given \subseteq 1 .. tables
    /\ lost \subseteq 1 .. tables /\ refused \subseteq 1 .. tables
    /\ pgtable \in 0 .. tables /\ ops \in [Dev -> 1 .. tables]
    /\ cb \in [Dev -> [epd0 : BOOLEAN, epd1 : BOOLEAN, ttbr0 : 0 .. tables, ttbr1 : 0 .. tables]]
    /\ th \in [Thread -> [pc : {"idle", "map"} \cup SetPcs, dev : 0 .. Devs, table : 0 .. tables]]
    /\ bad \in BOOLEAN

\* The SMMU driver enables one half of each device's address space.
Init ==
    /\ care \in 0 .. 2
    /\ tables = Devs /\ freed = {} /\ pgtable = 0
    /\ ops = [d \in Dev |-> d]
    /\ cb \in {f \in [Dev -> [epd0 : BOOLEAN, epd1 : BOOLEAN, ttbr0 : 0 .. Devs, ttbr1 : 0 .. Devs]] :
                  \A d \in Dev : \/ f[d] = [epd0 |-> FALSE, epd1 |-> TRUE, ttbr0 |-> d, ttbr1 |-> 0]
                                 \/ f[d] = [epd0 |-> TRUE, epd1 |-> FALSE, ttbr0 |-> 0, ttbr1 |-> d]}
    /\ given = {} /\ lost = {} /\ refused = {}
    /\ th = [t \in Thread |-> Idle] /\ bad = FALSE

-----------------------------------------------------------------------------
(* Helpers *)

At(t, pc, d, n) == th' = [th EXCEPT ![t] = [pc |-> pc, dev |-> d, table |-> n]]
Goto(t, pc) == th' = [th EXCEPT ![t].pc = pc]
Return(t) == th' = [th EXCEPT ![t] = Idle]
New == tables + 1

\* A call that sets up tables begins.
Begin(t) ==
    /\ th[t] = Idle /\ ~bad
    /\ care > 0 => \A u \in Thread : th[u].pc \in {"idle", "map"}

\* Tables that a domain or a running map works with.
Working == {ops[d] : d \in Dev} \cup {th[t].table : t \in Thread}

-----------------------------------------------------------------------------
(* Faulty variants of actions below, each with the property it breaks; they *)
(* are not part of Next.                                                   *)

\* TablesInv: success, which is 0, is taken for a failure and the table freed.
Ttbr1EnableFree(t) ==
    /\ th[t].pc = "enable1"
    /\ cb' = [cb EXCEPT ![th[t].dev] =
                 [@ EXCEPT !.epd0 = FALSE, !.epd1 = FALSE, !.ttbr1 = th[t].table]]
    /\ freed' = freed \cup {th[t].table}
    /\ Return(t)
    /\ UNCHANGED <<care, tables, pgtable, ops, given, lost, refused, bad>>

\* OpsLive: the global table is found but not kept.
GlobalCaptureLocal(t) ==
    /\ th[t].pc = "capture"
    /\ Goto(t, "global")
    /\ UNCHANGED <<care, tables, freed, pgtable, ops, cb, given, lost, refused, bad>>

-----------------------------------------------------------------------------
(* kiumd_set_pgtble_ttbr1_context.  Careful callers use it on a device whose *)
(* TTBR1 is off.                                                           *)

\* The new table becomes the domain's before it is enabled.
Ttbr1Alloc(t, d) ==
    /\ Begin(t) /\ ops[d] \notin freed /\ New \in Table
    /\ (care = 2) => cb[d].epd1
    /\ tables' = New
    /\ ops' = [ops EXCEPT ![d] = New]
    /\ At(t, "ttbr1", d, New)
    /\ UNCHANGED <<care, freed, pgtable, cb, given, lost, refused, bad>>

Ttbr1Check(t) ==
    /\ th[t].pc = "ttbr1" /\ cb[th[t].dev].epd1
    /\ Goto(t, "enable1")
    /\ UNCHANGED <<care, tables, freed, pgtable, ops, cb, given, lost, refused, bad>>

\* TTBR1 is on already: the table is freed and stays the domain's.
Ttbr1Refuse(t) ==
    /\ th[t].pc = "ttbr1" /\ ~cb[th[t].dev].epd1
    /\ freed' = freed \cup {th[t].table}
    /\ Return(t)
    /\ UNCHANGED <<care, tables, pgtable, ops, cb, given, lost, refused, bad>>

Ttbr1Enable(t) ==
    /\ th[t].pc = "enable1"
    /\ cb' = [cb EXCEPT ![th[t].dev] =
                 [@ EXCEPT !.epd0 = FALSE, !.epd1 = FALSE, !.ttbr1 = th[t].table]]
    /\ Return(t)
    /\ UNCHANGED <<care, tables, freed, pgtable, ops, given, lost, refused, bad>>

-----------------------------------------------------------------------------
(* kiumd_set_pgtble_ttbr0_context *)

\* The device's table becomes the global one if there is none, and the template.
Ttbr0Alloc(t, d) ==
    LET template == IF pgtable = 0 THEN ops[d] ELSE pgtable IN
    /\ Begin(t) /\ template \notin freed /\ New \in Table
    /\ pgtable' = template
    /\ tables' = New
    /\ At(t, "ttbr0", d, New)
    /\ UNCHANGED <<care, freed, ops, cb, given, lost, refused, bad>>

Ttbr0AllocFail(t, d) ==
    /\ Begin(t) /\ pgtable = 0 /\ ops[d] \notin freed
    /\ pgtable' = ops[d]
    /\ UNCHANGED <<care, tables, freed, ops, cb, given, lost, refused, th, bad>>

Ttbr0Check(t) ==
    /\ th[t].pc = "ttbr0" /\ cb[th[t].dev].epd0
    /\ Goto(t, "enable0")
    /\ UNCHANGED <<care, tables, freed, pgtable, ops, cb, given, lost, refused, bad>>

\* TTBR0 is on already; the error is ignored.
Ttbr0Refuse(t) ==
    /\ th[t].pc = "ttbr0" /\ ~cb[th[t].dev].epd0
    /\ lost' = lost \cup {th[t].table}
    /\ Goto(t, "aperture")
    /\ UNCHANGED <<care, tables, freed, pgtable, ops, cb, given, refused, bad>>

Ttbr0Enable(t) ==
    /\ th[t].pc = "enable0"
    /\ cb' = [cb EXCEPT ![th[t].dev] =
                 [@ EXCEPT !.epd0 = FALSE, !.epd1 = FALSE, !.ttbr0 = th[t].table]]
    /\ Goto(t, "aperture")
    /\ UNCHANGED <<care, tables, freed, pgtable, ops, given, lost, refused, bad>>

Aperture(t) ==
    /\ th[t].pc = "aperture"
    /\ Return(t)
    /\ UNCHANGED <<care, tables, freed, pgtable, ops, cb, given, lost, refused, bad>>

\* The firmware refuses, twice if it was busy: the table is freed, enabled or not.
ApertureFail(t) ==
    /\ th[t].pc = "aperture"
    /\ freed' = freed \cup {th[t].table}
    /\ refused' = refused \cup {th[t].table}
    /\ Return(t)
    /\ UNCHANGED <<care, tables, pgtable, ops, cb, given, lost, bad>>

-----------------------------------------------------------------------------
(* kiumd_global_pgtble_set, kiumd_perprocess_pt_alloc, _pgtble_set and _free. *)
(* Careful callers set the global table before they allocate, and free a   *)
(* table once, when no domain has it and no map is using it.               *)

\* The test of pgtable and its assignment are two steps.
GlobalSet(t, d) ==
    /\ Begin(t)
    /\ At(t, IF pgtable = 0 THEN "capture" ELSE "global", d, 0)
    /\ UNCHANGED <<care, tables, freed, pgtable, ops, cb, given, lost, refused, bad>>

GlobalCapture(t) ==
    /\ th[t].pc = "capture"
    /\ pgtable' = ops[th[t].dev]
    /\ Goto(t, "global")
    /\ UNCHANGED <<care, tables, freed, ops, cb, given, lost, refused, bad>>

GlobalInstall(t) ==
    /\ th[t].pc = "global" /\ pgtable # 0
    /\ ops' = [ops EXCEPT ![th[t].dev] = pgtable]
    /\ Return(t)
    /\ UNCHANGED <<care, tables, freed, pgtable, cb, given, lost, refused, bad>>

\* The table goes to user space as a pointer, unless copy_to_user fails.
PerprocAlloc(t, d) ==
    /\ Begin(t) /\ pgtable # 0 /\ pgtable \notin freed /\ New \in Table
    /\ tables' = New
    /\ \/ given' = given \cup {New} /\ UNCHANGED lost
       \/ lost' = lost \cup {New} /\ UNCHANGED given
    /\ UNCHANGED <<care, freed, pgtable, ops, cb, refused, th, bad>>

PerprocSet(t, d, n) ==
    /\ Begin(t) /\ n \in given
    /\ (care = 2) => n \notin freed
    /\ ops' = [ops EXCEPT ![d] = n]
    /\ UNCHANGED <<care, tables, freed, pgtable, cb, given, lost, refused, th, bad>>

PerprocFree(t, n) ==
    /\ Begin(t) /\ n \in given \ freed
    /\ (care = 2) => n \notin Working
    /\ freed' = freed \cup {n}
    /\ UNCHANGED <<care, tables, pgtable, ops, cb, given, lost, refused, th, bad>>

-----------------------------------------------------------------------------
(* Maps work on the table they found; and what must not happen *)

MapBegin(t, d) ==
    /\ th[t] = Idle /\ ~bad
    /\ At(t, "map", d, ops[d])
    /\ UNCHANGED <<care, tables, freed, pgtable, ops, cb, given, lost, refused, bad>>

MapEnd(t) ==
    /\ th[t].pc = "map" /\ th[t].table \notin freed
    /\ Return(t)
    /\ UNCHANGED <<care, tables, freed, pgtable, ops, cb, given, lost, refused, bad>>

\* A freed table is the template of a new one, there is no template when a process
\* asks for a table, a table is freed twice, a map works on a freed table, or the
\* global table is installed although there is none.
Misuse(t) ==
    /\ \/ Begin(t) /\ ({pgtable} \cup {ops[d] : d \in Dev}) \cap freed # {}
       \/ Begin(t) /\ care < 2 /\ (pgtable = 0 \/ given \cap freed # {})
       \/ th[t].pc = "map" /\ th[t].table \in freed
       \/ th[t].pc = "global" /\ pgtable = 0
    /\ bad' = TRUE
    /\ Return(t)
    /\ UNCHANGED <<care, tables, freed, pgtable, ops, cb, given, lost, refused>>

-----------------------------------------------------------------------------

Context(t) ==
    \/ \E d \in Dev : Ttbr1Alloc(t, d) \/ Ttbr0Alloc(t, d) \/ Ttbr0AllocFail(t, d)
    \/ Ttbr1Check(t) \/ Ttbr1Refuse(t) \/ Ttbr1Enable(t)
    \/ Ttbr0Check(t) \/ Ttbr0Refuse(t) \/ Ttbr0Enable(t)
    \/ Aperture(t) \/ ApertureFail(t)

Process(t) ==
    \/ \E d \in Dev : GlobalSet(t, d) \/ PerprocAlloc(t, d) \/ MapBegin(t, d)
    \/ GlobalCapture(t) \/ GlobalInstall(t) \/ MapEnd(t)
    \/ \E d \in Dev, n \in given : PerprocSet(t, d, n)
    \/ \E n \in given : PerprocFree(t, n)

Next == \E t \in Thread : Context(t) \/ Process(t) \/ Misuse(t)

Spec == Init /\ [][Next]_vars

-----------------------------------------------------------------------------
(* Properties *)

(* The hardware never walks a freed table, in whatever order the calls     *)
(* come, unless the firmware refused the aperture after TTBR0 was enabled. *)
HwLive ==
    \A d \in Dev :
        /\ ~cb[d].epd0 => cb[d].ttbr0 \notin freed \ refused
        /\ ~cb[d].epd1 => cb[d].ttbr1 \notin freed \ refused

(* As long as user space keeps the order, the global table and the tables  *)
(* of the domains are live: in particular no table of a process becomes    *)
(* the global one, which it would outlive.  No call uses a freed table, or *)
(* a global table that nobody has set.                                     *)
OpsLive ==
    care = 2 =>
        /\ pgtable \notin freed \cup given
        /\ \A d \in Dev : ops[d] \notin freed
        /\ ~bad

(* No table is lost when calls do not overlap, other than by the two       *)
(* errors the code ignores: each is known to a domain, the hardware, user  *)
(* space, a running call, or is the global or a device's own one.          *)
TablesAccounted ==
    care > 0 => \A n \in 1 .. tables :
        n \in freed \cup given \cup lost \cup Working \cup Dev \cup {pgtable}
                 \cup {cb[d].ttbr0 : d \in Dev} \cup {cb[d].ttbr1 : d \in Dev}

(* Every variable keeps its type, every table that the context and           *)
(* per-process calls allocate is accounted for, and none that the hardware  *)
(* walks is freed.                                                         *)
TablesInv == TypeOK /\ TablesAccounted /\ HwLive

=============================================================================
