------------------------------ MODULE FaultList ------------------------------
(***************************************************************************)
(* The list of devices that want to be told of SMMU faults                   *)
(* (kiumd_smmu_fault_handler_register, _deregister, kiumd_smmu_fault_handler   *)
(* and fsr_iova_show in drivers/kiumd.c).  Each registration makes a sysfs     *)
(* directory and a list node; the fault handler, which runs in interrupt       *)
(* context, and readers of the sysfs file walk the list.  No lock protects it.  *)
(*                                                                         *)
(* Registration number n names both the directory and the node it makes.       *)
(* Number 0 is NULL, and next[0] is the variable head.                         *)
(***************************************************************************)
EXTENDS Integers, FiniteSets

CONSTANTS
    Dev,      \* vfio devices
    Thread,   \* ioctl callers, readers and fault interrupts
    MaxReg,   \* bound: registrations begun, one less without care
    MaxFault, \* bound: faults raised, one less without care
    None

ASSUME FaultListAssumption ==
    /\ MaxReg \in Nat \ {0} /\ MaxFault \in Nat
    /\ None \notin Dev

Reg == 1 .. MaxReg

VARIABLES
    careful,    \* TRUE: user space registers and deregisters one at a time, and reads
                \* a file when it is notified, with one reader for each file
    regs,       \* registrations begun
    dev,        \* dev[n]: device, and so the name, of directory n
    kobj,       \* kobj[n]: state of directory n, "bare" before it has its file
    node,       \* node[n]: list node of registration n
    next,       \* next[n]: successor of node n, next[0] is head
    device_obj, \* the global through which a registration passes its directory
    handler,    \* handler[d]: directory whose name is the token of d's handler
    th,         \* what each thread is doing
    raised,     \* faults raised
    recorded,   \* <<fault, device, node>>: faults the handler has stored
    returned,   \* <<fsr, iova>>: what readers have been given
    failed,     \* registrations that returned an error after making a directory
    listed,     \* registrations that returned success
    bad         \* freed memory, or a null pointer, has been used

regVars == <<regs, dev, kobj, device_obj, handler, failed, listed>>
faultVars == <<raised, recorded, returned>>
modeVars == <<careful, bad>>
vars == <<regVars, faultVars, node, next, th, modeVars>>

Idle == [pc |-> "idle", dev |-> None, reg |-> 0, at |-> 0, prev |-> 0, fsr |-> 0, iova |-> 0]
NoNode == [mem |-> "none", obj |-> 0, fsr |-> 0, iova |-> 0, flag |-> FALSE]

IoctlPcs == {"file", "alloc", "link", "append", "handler", "find", "put", "free"}
FaultPcs == {"fault", "fsr", "iova", "flag"}
ShowPcs == {"show", "readFsr", "readIova", "clear", "unflag"}

TypeOK ==
    /\ careful \in BOOLEAN
    /\ regs \in 0 .. MaxReg
    /\ dev \in [Reg -> Dev \cup {None}]
    /\ kobj \in [Reg -> {"none", "bare", "live", "put"}]
    /\ node \in [Reg -> [mem : {"none", "live", "freed"}, obj : 0 .. MaxReg,
                         fsr : 0 .. MaxFault, iova : 0 .. MaxFault, flag : BOOLEAN]]
    /\ next \in [0 .. MaxReg -> 0 .. MaxReg]
    /\ device_obj \in 0 .. MaxReg
    /\ handler \in [Dev -> 0 .. MaxReg]
    /\ th \in [Thread -> [pc : {"idle"} \cup IoctlPcs \cup FaultPcs \cup ShowPcs,
                          dev : Dev \cup {None}, reg : 0 .. MaxReg, at : 0 .. MaxReg,
                          prev : 0 .. MaxReg, fsr : 0 .. MaxFault, iova : 0 .. MaxFault]]
    /\ raised \in 0 .. MaxFault
    /\ recorded \subseteq (1 .. MaxFault) \X Dev \X Reg
    /\ returned \subseteq (0 .. MaxFault) \X (0 .. MaxFault)
    /\ failed \subseteq Reg /\ listed \subseteq Reg
    /\ bad \in BOOLEAN

Init ==
    /\ careful \in BOOLEAN
    /\ regs = 0
    /\ dev = [n \in Reg |-> None]
    /\ kobj = [n \in Reg |-> "none"]
    /\ node = [n \in Reg |-> NoNode]
    /\ next = [n \in 0 .. MaxReg |-> 0]
    /\ device_obj = 0
    /\ handler = [d \in Dev |-> 0]
    /\ th = [t \in Thread |-> Idle]
    /\ raised = 0 /\ recorded = {} /\ returned = {}
    /\ failed = {} /\ listed = {}
    /\ bad = FALSE

-----------------------------------------------------------------------------
(* Helpers *)

Goto(t, pc) == th' = [th EXCEPT ![t].pc = pc]
Return(t) == th' = [th EXCEPT ![t] = Idle]
Visit(t, n) == th' = [th EXCEPT ![t].prev = th[t].at, ![t].at = n]

Misuse(t) ==
    /\ bad' = TRUE
    /\ Return(t)
    /\ UNCHANGED <<regVars, faultVars, node, next, careful>>

\* n is head or a node that still exists.
Held(n) == n # 0 => node[n].mem = "live"

\* The node and the name it points to may be read.
Readable(n) == node[n].mem = "live" /\ node[n].obj # 0 /\ kobj[node[n].obj] \in {"bare", "live"}

\* Without care there are many more interleavings, and less of each.
Bound(n) == IF careful THEN n ELSE n - 1

Name(k) == dev[k]
Named(k) == k # 0 /\ kobj[k] # "put"

\* sysfs has a directory for d.
Exists(d) == \E n \in Reg : dev[n] = d /\ kobj[n] \in {"bare", "live"}

CanStart(t) == th[t].pc = "idle" /\ ~bad

CanIoctl(t) ==
    /\ CanStart(t)
    /\ careful => \A u \in Thread : th[u].pc \notin IoctlPcs

-----------------------------------------------------------------------------
(* Faulty variants of actions below, each with the property it breaks; they are *)
(* not part of Next.                                                         *)

\* ListInv: the first node is unlinked as if it had a predecessor.
DeregisterUnlinkTail(t) ==
    /\ th[t].pc = "find" /\ th[t].at # 0
    /\ Readable(th[t].at) /\ Name(node[th[t].at].obj) = th[t].dev
    /\ next' = [next EXCEPT ![th[t].prev] = 0]
    /\ Goto(t, "put")
    /\ UNCHANGED <<regVars, faultVars, node, modeVars>>

\* OwnNodeSafe: the node is freed before kobject_put has waited for readers.
DeregisterFreeFirst(t) ==
    /\ th[t].pc = "put" /\ Readable(th[t].at)
    /\ kobj' = [kobj EXCEPT ![node[th[t].at].obj] = "put"]
    /\ node' = [node EXCEPT ![th[t].at].mem = "freed"]
    /\ listed' = listed \ {th[t].at}
    /\ Return(t)
    /\ UNCHANGED <<regs, dev, device_obj, handler, failed, faultVars, next, modeVars>>

\* FaultReported: the reader drops the flag before the values.
ShowFsrUnflag(t) ==
    /\ th[t].pc = "readFsr" /\ Readable(th[t].at)
    /\ th' = [th EXCEPT ![t].fsr = node[th[t].at].fsr, ![t].pc = "readIova"]
    /\ node' = [node EXCEPT ![th[t].at].flag = FALSE]
    /\ UNCHANGED <<regVars, faultVars, next, modeVars>>

-----------------------------------------------------------------------------
(* kiumd_smmu_fault_handler_register *)

RegisterKobj(t, d) ==
    /\ CanIoctl(t) /\ regs < Bound(MaxReg) /\ ~Exists(d)
    /\ regs' = regs + 1
    /\ dev' = [dev EXCEPT ![regs'] = d]
    /\ kobj' = [kobj EXCEPT ![regs'] = "bare"]
    /\ device_obj' = regs'
    /\ th' = [th EXCEPT ![t] = [Idle EXCEPT !.pc = "file", !.dev = d, !.reg = regs']]
    /\ UNCHANGED <<handler, failed, listed, faultVars, node, next, modeVars>>

RegisterExists(t, d) ==
    /\ CanIoctl(t) /\ Exists(d)
    /\ device_obj' = 0
    /\ UNCHANGED <<regs, dev, kobj, handler, failed, listed, faultVars, node, next, th, modeVars>>

RegisterFile(t) ==
    /\ th[t].pc = "file" /\ device_obj # 0
    /\ kobj[device_obj] = "bare"
    /\ kobj' = [kobj EXCEPT ![device_obj] = "live"]
    /\ Goto(t, "alloc")
    /\ UNCHANGED <<regs, dev, device_obj, handler, failed, listed, faultVars, node, next, modeVars>>

\* sysfs_create_file or kzalloc fails: the directory stays behind.
RegisterFail(t) ==
    /\ th[t].pc \in {"file", "alloc"}
    /\ failed' = failed \cup {th[t].reg}
    /\ Return(t)
    /\ UNCHANGED <<regs, dev, kobj, device_obj, handler, listed, faultVars, node, next, modeVars>>

RegisterAlloc(t) ==
    /\ th[t].pc = "alloc"
    /\ node' = [node EXCEPT ![th[t].reg] = [NoNode EXCEPT !.mem = "live", !.obj = device_obj]]
    /\ Goto(t, "link")
    /\ UNCHANGED <<regVars, faultVars, next, modeVars>>

\* The walk to the last node: at is head or a node.
RegisterWalk(t) ==
    /\ th[t].pc = "link" /\ Held(th[t].at) /\ next[th[t].at] # 0
    /\ Visit(t, next[th[t].at])
    /\ UNCHANGED <<regVars, faultVars, node, next, modeVars>>

RegisterTail(t) ==
    /\ th[t].pc = "link" /\ Held(th[t].at) /\ next[th[t].at] = 0
    /\ Goto(t, "append")
    /\ UNCHANGED <<regVars, faultVars, node, next, modeVars>>

RegisterAppend(t) ==
    /\ th[t].pc = "append" /\ Held(th[t].at)
    /\ next' = [next EXCEPT ![th[t].at] = th[t].reg]
    /\ Goto(t, "handler")
    /\ UNCHANGED <<regVars, faultVars, node, modeVars>>

RegisterHandler(t) ==
    /\ th[t].pc = "handler" /\ Named(device_obj)
    /\ handler' = [handler EXCEPT ![th[t].dev] = device_obj]
    /\ listed' = listed \cup {th[t].reg}
    /\ Return(t)
    /\ UNCHANGED <<regs, dev, kobj, device_obj, failed, faultVars, node, next, modeVars>>

RegisterMisuse(t) ==
    /\ \/ th[t].pc \in {"link", "append"} /\ ~Held(th[t].at)
       \/ th[t].pc = "handler" /\ ~Named(device_obj)
    /\ Misuse(t)

-----------------------------------------------------------------------------
(* kiumd_smmu_fault_handler_deregister *)

DeregisterStart(t, d) ==
    /\ CanIoctl(t)
    /\ th' = [th EXCEPT ![t] = [Idle EXCEPT !.pc = "find", !.dev = d, !.at = next[0]]]
    /\ UNCHANGED <<regVars, faultVars, node, next, modeVars>>

DeregisterWalk(t) ==
    /\ th[t].pc = "find" /\ th[t].at # 0
    /\ Readable(th[t].at) /\ Name(node[th[t].at].obj) # th[t].dev
    /\ Visit(t, next[th[t].at])
    /\ UNCHANGED <<regVars, faultVars, node, next, modeVars>>

DeregisterMissing(t) ==
    /\ th[t].pc = "find" /\ th[t].at = 0
    /\ Return(t)
    /\ UNCHANGED <<regVars, faultVars, node, next, modeVars>>

Found(t) ==
    th[t].pc = "find" /\ th[t].at # 0 /\ Readable(th[t].at) /\ Name(node[th[t].at].obj) = th[t].dev

\* The first node is removed with head = head->next, later ones through prev.
DeregisterUnlink(t) ==
    LET gone == IF th[t].prev = 0 THEN next[0] ELSE th[t].at
    IN  /\ Found(t) /\ Held(th[t].prev) /\ gone # 0
        /\ next' = [next EXCEPT ![th[t].prev] = next[gone], ![th[t].at] = 0]
        /\ Goto(t, "put")
        /\ UNCHANGED <<regVars, faultVars, node, modeVars>>

\* kobject_put waits until nobody reads the file of the directory.
DeregisterPut(t) ==
    LET k == node[th[t].at].obj
    IN  /\ th[t].pc = "put" /\ Readable(th[t].at)
        /\ \A u \in Thread : ~(th[u].pc \in ShowPcs /\ th[u].reg = k)
        /\ kobj' = [kobj EXCEPT ![k] = "put"]
        /\ Goto(t, "free")
        /\ UNCHANGED <<regs, dev, device_obj, handler, failed, listed, faultVars, node, next, modeVars>>

DeregisterFree(t) ==
    /\ th[t].pc = "free"
    /\ node' = [node EXCEPT ![th[t].at].mem = "freed"]
    /\ listed' = listed \ {th[t].at}
    /\ Return(t)
    /\ UNCHANGED <<regs, dev, kobj, device_obj, handler, failed, faultVars, next, modeVars>>

DeregisterMisuse(t) ==
    /\ \/ th[t].pc = "find" /\ th[t].at # 0 /\ ~Readable(th[t].at)
       \/ Found(t) /\ th[t].prev = 0 /\ next[0] = 0
       \/ Found(t) /\ ~Held(th[t].prev)
       \/ th[t].pc = "put" /\ ~Readable(th[t].at)
    /\ Misuse(t)

-----------------------------------------------------------------------------
(* kiumd_smmu_fault_handler, with the token that registration gave it *)

\* A device has one context interrupt, which does not interrupt itself.
Fault(t, d) ==
    /\ CanStart(t) /\ handler[d] # 0 /\ raised < Bound(MaxFault)
    /\ \A u \in Thread : ~(th[u].pc \in FaultPcs /\ th[u].dev = d)
    /\ raised' = raised + 1
    /\ th' = [th EXCEPT ![t] = [Idle EXCEPT !.pc = "fault", !.dev = d, !.reg = handler[d],
                                            !.at = next[0], !.fsr = raised']]
    /\ UNCHANGED <<regVars, recorded, returned, node, next, modeVars>>

\* The names are compared only while there is a node to compare with.
Comparable(t) == Readable(th[t].at) /\ kobj[th[t].reg] = "live"

Matches(t) == Name(node[th[t].at].obj) = Name(th[t].reg) /\ ~node[th[t].at].flag

FaultWalk(t) ==
    /\ th[t].pc = "fault" /\ th[t].at # 0
    /\ Comparable(t) /\ ~Matches(t)
    /\ Visit(t, next[th[t].at])
    /\ UNCHANGED <<regVars, faultVars, node, next, modeVars>>

FaultEnd(t) ==
    /\ th[t].pc = "fault" /\ th[t].at = 0
    /\ Return(t)
    /\ UNCHANGED <<regVars, faultVars, node, next, modeVars>>

FaultMatch(t) ==
    /\ th[t].pc = "fault" /\ th[t].at # 0
    /\ Comparable(t) /\ Matches(t)
    /\ Goto(t, "fsr")
    /\ UNCHANGED <<regVars, faultVars, node, next, modeVars>>

FaultFsr(t) ==
    /\ th[t].pc = "fsr" /\ Readable(th[t].at)
    /\ node' = [node EXCEPT ![th[t].at].fsr = th[t].fsr]
    /\ Goto(t, "iova")
    /\ UNCHANGED <<regVars, faultVars, next, modeVars>>

FaultIova(t) ==
    /\ th[t].pc = "iova" /\ Readable(th[t].at)
    /\ node' = [node EXCEPT ![th[t].at].iova = th[t].fsr]
    /\ Goto(t, "flag")
    /\ UNCHANGED <<regVars, faultVars, next, modeVars>>

FaultFlag(t) ==
    /\ th[t].pc = "flag" /\ Readable(th[t].at)
    /\ node' = [node EXCEPT ![th[t].at].flag = TRUE]
    /\ recorded' = recorded \cup {<<th[t].fsr, th[t].dev, th[t].at>>}
    /\ Return(t)
    /\ UNCHANGED <<regVars, raised, returned, next, modeVars>>

FaultMisuse(t) ==
    /\ \/ th[t].pc = "fault" /\ th[t].at # 0 /\ ~Comparable(t)
       \/ th[t].pc \in {"fsr", "iova", "flag"} /\ ~Readable(th[t].at)
    /\ Misuse(t)

-----------------------------------------------------------------------------
(* fsr_iova_show *)

\* Notified(k): the handler has stored a fault for the file's device.
Notified(k) == \E n \in Reg : node[n].mem = "live" /\ node[n].flag /\ Name(node[n].obj) = Name(k)

Show(t, k) ==
    /\ CanStart(t) /\ kobj[k] = "live"
    /\ careful => Notified(k) /\ \A u \in Thread : th[u].pc \in ShowPcs => th[u].reg # k
    /\ th' = [th EXCEPT ![t] = [Idle EXCEPT !.pc = "show", !.reg = k, !.at = next[0]]]
    /\ UNCHANGED <<regVars, faultVars, node, next, modeVars>>

ShowWalk(t) ==
    /\ th[t].pc = "show" /\ th[t].at # 0 /\ Readable(th[t].at)
    /\ IF Name(node[th[t].at].obj) = Name(th[t].reg)
       THEN Goto(t, "readFsr")
       ELSE Visit(t, next[th[t].at])
    /\ UNCHANGED <<regVars, faultVars, node, next, modeVars>>

ShowEnd(t) ==
    /\ th[t].pc = "show" /\ th[t].at = 0
    /\ returned' = returned \cup {<<0, 0>>}
    /\ Return(t)
    /\ UNCHANGED <<regVars, raised, recorded, node, next, modeVars>>

ShowFsr(t) ==
    /\ th[t].pc = "readFsr" /\ Readable(th[t].at)
    /\ th' = [th EXCEPT ![t].fsr = node[th[t].at].fsr, ![t].pc = "readIova"]
    /\ UNCHANGED <<regVars, faultVars, node, next, modeVars>>

ShowIova(t) ==
    /\ th[t].pc = "readIova" /\ Readable(th[t].at)
    /\ th' = [th EXCEPT ![t].iova = node[th[t].at].iova, ![t].pc = "clear"]
    /\ UNCHANGED <<regVars, faultVars, node, next, modeVars>>

ShowClear(t) ==
    /\ th[t].pc = "clear" /\ Readable(th[t].at)
    /\ node' = [node EXCEPT ![th[t].at].fsr = 0, ![th[t].at].iova = 0]
    /\ Goto(t, "unflag")
    /\ UNCHANGED <<regVars, faultVars, next, modeVars>>

ShowFlag(t) ==
    /\ th[t].pc = "unflag" /\ Readable(th[t].at)
    /\ node' = [node EXCEPT ![th[t].at].flag = FALSE]
    /\ returned' = returned \cup {<<th[t].fsr, th[t].iova>>}
    /\ Return(t)
    /\ UNCHANGED <<regVars, raised, recorded, next, modeVars>>

ShowMisuse(t) ==
    /\ th[t].pc \in ShowPcs /\ th[t].at # 0 /\ ~Readable(th[t].at)
    /\ Misuse(t)

-----------------------------------------------------------------------------

Next ==
    \E t \in Thread :
        \/ \E d \in Dev : RegisterKobj(t, d) \/ RegisterExists(t, d)
                            \/ DeregisterStart(t, d) \/ Fault(t, d)
        \/ RegisterFile(t) \/ RegisterFail(t) \/ RegisterAlloc(t) \/ RegisterWalk(t)
        \/ RegisterTail(t) \/ RegisterAppend(t) \/ RegisterHandler(t) \/ RegisterMisuse(t)
        \/ DeregisterWalk(t) \/ DeregisterMissing(t) \/ DeregisterUnlink(t)
        \/ DeregisterPut(t) \/ DeregisterFree(t) \/ DeregisterMisuse(t)
        \/ FaultWalk(t) \/ FaultEnd(t) \/ FaultMatch(t) \/ FaultFsr(t) \/ FaultIova(t)
        \/ FaultFlag(t) \/ FaultMisuse(t)
        \/ \E k \in Reg : Show(t, k)
        \/ ShowWalk(t) \/ ShowEnd(t) \/ ShowFsr(t) \/ ShowIova(t)
        \/ ShowClear(t) \/ ShowFlag(t) \/ ShowMisuse(t)

Spec == Init /\ [][Next]_vars

-----------------------------------------------------------------------------

\* The list from head: the least set with 0 that has the successor of each member.
Listed ==
    {n \in Reg : \A S \in SUBSET (0 .. MaxReg) :
                     0 \in S /\ (\A m \in S : next[m] \in S) => n \in S}

Removing == {th[t].at : t \in {u \in Thread : th[u].pc \in {"put", "free"}}}
At(pcs) == {th[t].reg : t \in {u \in Thread : th[u].pc \in pcs}}

(* Registrations and removals of several devices keep the list: head reaches   *)
(* exactly the registrations that returned success and have not been removed,   *)
(* one for a device, each with the directory its own call made.                *)
ListSound ==
    careful =>
        /\ Listed = (listed \cup At({"handler"})) \ Removing
        /\ \A n \in Listed : node[n].mem = "live" /\ node[n].obj = n /\ kobj[n] = "live"
        /\ \A m, n \in Listed : dev[m] = dev[n] => m = n

(* A directory exists for the nodes of the list, for calls in progress, and     *)
(* for calls that failed after making it.  These last ones stay for good, and   *)
(* keep their device from being registered again.                             *)
KobjAccounted ==
    careful =>
        {n \in Reg : kobj[n] \in {"bare", "live"}} =
            failed \cup (listed \ {n \in Removing : kobj[n] = "put"})
                   \cup At({"file", "alloc", "link", "append", "handler"})

(* The reader of a file, once it has found the node of its device, is done      *)
(* with it before kobject_put lets the removal free it.                        *)
OwnNodeSafe ==
    careful => \A t \in Thread :
        th[t].pc \in {"readFsr", "readIova", "clear", "unflag"} => Readable(th[t].at)

(* A fault is stored in the node of the device that raised it, although a       *)
(* handler is known by a name and the names come from a global, and it stays     *)
(* until a reader has both of its values, or its device is removed: neither      *)
(* another fault nor a reader's reset destroys it.                             *)
FaultReported ==
    careful => \A r \in recorded :
        /\ dev[node[r[3]].obj] = r[2]
        /\ \/ node[r[3]].flag /\ node[r[3]].fsr = r[1] /\ node[r[3]].iova = r[1]
           \/ <<r[1], r[1]>> \in returned
           \/ \E t \in Thread : /\ th[t].pc \in {"clear", "unflag"} /\ th[t].at = r[3]
                                /\ th[t].fsr = r[1] /\ th[t].iova = r[1]
           \/ node[r[3]].mem = "freed"

(* Every variable keeps its type, the list that                                *)
(* kiumd_smmu_fault_handler_register and _deregister edit is sound, and every    *)
(* sysfs directory has an owner.                                             *)
ListInv == TypeOK /\ ListSound /\ KobjAccounted

=============================================================================
