--------------------------- MODULE FaultListProofs ---------------------------
(***************************************************************************)
(* The fault list for every number of devices, threads, registrations and      *)
(* faults: while user space registers and deregisters one device at a time the   *)
(* list holds exactly the registered devices, a reader that has found its node    *)
(* is done with it before the node is freed, and no reported fault is lost.        *)
(***************************************************************************)
EXTENDS FaultList, TLAPS

RegisterPcs == {"file", "alloc", "link", "append", "handler"}
RemovePcs == {"put", "free"}
StorePcs == {"fsr", "iova", "flag"}
ReadPcs == {"readFsr", "readIova", "clear", "unflag"}

\* A record of th has a device, a directory and a node where its step needs them.
ThreadOf(r) ==
    /\ r.pc \in RegisterPcs \cup {"find"} \cup FaultPcs => r.dev \in Dev
    /\ r.pc \in RegisterPcs \cup FaultPcs \cup ShowPcs => r.reg \in Reg
    /\ r.pc \in RemovePcs \cup StorePcs \cup ReadPcs => r.at \in Reg
    /\ r.pc \in FaultPcs => r.fsr \in 1 .. MaxFault

TypeInv == TypeOK /\ \A t \in Thread : ThreadOf(th[t])

-----------------------------------------------------------------------------
(* The list and the directories, while calls come one at a time *)

\* The nodes of the list, and the places where a walk over it may stand.
InList == (listed \cup At({"handler"})) \ Removing
Chain == InList \cup {0}

OneCall == \A t, u \in Thread : th[t].pc \in IoctlPcs /\ th[u].pc \in IoctlPcs => t = u

\* Directories and nodes come into being in the order of their numbers, each
\* node with the directory of its own registration.
NumberOf(n) ==
    /\ n > regs => kobj[n] = "none" /\ n \notin failed
    /\ n <= regs => kobj[n] # "none" /\ dev[n] \in Dev
    /\ node[n].mem # "none" => node[n].obj = n /\ kobj[n] \in {"live", "put"}
    /\ node[n].mem = "live" /\ kobj[n] = "put" =>
           \E t \in Thread : th[t].pc = "free" /\ th[t].at = n
    /\ n \in listed => node[n].mem = "live" /\ n \notin failed
    /\ n \notin InList => next[n] = 0

NumberInv == \A n \in Reg : NumberOf(n)

\* sysfs has one directory of a name.
OneName ==
    \A m, n \in Reg : /\ kobj[m] \in {"bare", "live"} /\ kobj[n] \in {"bare", "live"}
                      /\ dev[m] = dev[n]
                      => m = n

\* The successors are a cycle through 0 and the nodes of the list.
CycleInv ==
    /\ \A n \in Chain : next[n] \in Chain
    /\ \A m, n \in Chain : next[m] = next[n] => m = n
    /\ \A S \in SUBSET (0 .. MaxReg) :
           0 \in S /\ (\A n \in S : next[n] \in S) => InList \subseteq S

RegisterOf(r) ==
    r.pc \in RegisterPcs =>
        /\ device_obj = r.reg /\ dev[r.reg] = r.dev
        /\ r.reg \notin listed \cup failed
        /\ kobj[r.reg] = IF r.pc = "file" THEN "bare" ELSE "live"
        /\ node[r.reg].mem = IF r.pc \in {"file", "alloc"} THEN "none" ELSE "live"
        /\ r.pc # "handler" => r.at \in Chain
        /\ r.pc = "append" => next[r.at] = 0

RemoveOf(r) ==
    /\ r.pc = "find" => r.at \in Chain /\ r.prev \in Chain /\ next[r.prev] = r.at
    /\ r.pc \in RemovePcs => r.at \in listed
    /\ r.pc = "put" => kobj[r.at] = "live"
    /\ r.pc = "free" =>
           /\ kobj[r.at] = "put"
           /\ \A k \in Reg : kobj[k] \in {"bare", "live"} => dev[k] # dev[r.at]

CallInv == \A t \in Thread : RegisterOf(th[t]) /\ RemoveOf(th[t])

ListIInv == careful =>
    /\ OneCall /\ NumberInv /\ OneName /\ CycleInv /\ CallInv /\ KobjAccounted

-----------------------------------------------------------------------------
(* Faults and readers *)

\* The token of a handler is a directory of its device, whether it still exists or not.
TokenInv == \A d \in Dev : handler[d] # 0 => kobj[handler[d]] # "none" /\ dev[handler[d]] = d

\* A handler that stores a fault is alone with a node without a fault.
FaultOf(r) ==
    /\ r.pc \in FaultPcs => kobj[r.reg] # "none" /\ dev[r.reg] = r.dev
    /\ r.pc \in StorePcs => /\ node[r.at].mem # "none" /\ dev[r.at] = r.dev
                            /\ ~node[r.at].flag
    /\ r.pc \in {"iova", "flag"} => node[r.at].fsr = r.fsr
    /\ r.pc = "flag" => node[r.at].iova = r.fsr

OneFault == \A t, u \in Thread : th[t].pc \in FaultPcs /\ th[u].pc \in FaultPcs
                                     /\ th[t].dev = th[u].dev => t = u

\* A reader has a directory that exists, and a node with the fault it was told of.
ReaderOf(r) ==
    /\ r.pc \in ShowPcs => kobj[r.reg] = "live" /\ node[r.reg].mem = "live" /\ node[r.reg].flag
    /\ r.pc \in ReadPcs => r.at = r.reg
    /\ r.pc \in {"readIova", "clear"} => r.fsr = node[r.reg].fsr
    /\ r.pc = "clear" => r.iova = node[r.reg].iova
    /\ r.pc = "unflag" => node[r.reg].fsr = 0

OneReader == \A t, u \in Thread : th[t].pc \in ShowPcs /\ th[u].pc \in ShowPcs
                                      /\ th[t].reg = th[u].reg => t = u

StoredInv == \A r \in recorded : node[r[3]].mem # "none"

FaultIInv == careful =>
    /\ TokenInv /\ OneFault /\ OneReader /\ StoredInv
    /\ \A t \in Thread : FaultOf(th[t]) /\ ReaderOf(th[t])
    /\ FaultReported

IInv == TypeInv /\ ListIInv /\ FaultIInv

-----------------------------------------------------------------------------
(* Types *)

AllPcs == {"idle"} \cup IoctlPcs \cup FaultPcs \cup ShowPcs

ThType == [pc : AllPcs, dev : Dev \cup {None}, reg : 0 .. MaxReg, at : 0 .. MaxReg,
           prev : 0 .. MaxReg, fsr : 0 .. MaxFault, iova : 0 .. MaxFault]

NodeType == [mem : {"none", "live", "freed"}, obj : 0 .. MaxReg,
             fsr : 0 .. MaxFault, iova : 0 .. MaxFault, flag : BOOLEAN]

\* Everything but the threads and the nodes.
RestType ==
    /\ careful \in BOOLEAN /\ regs \in 0 .. MaxReg
    /\ dev \in [Reg -> Dev \cup {None}]
    /\ kobj \in [Reg -> {"none", "bare", "live", "put"}]
    /\ next \in [0 .. MaxReg -> 0 .. MaxReg]
    /\ device_obj \in 0 .. MaxReg
    /\ handler \in [Dev -> 0 .. MaxReg]
    /\ raised \in 0 .. MaxFault
    /\ recorded \subseteq (1 .. MaxFault) \X Dev \X Reg
    /\ returned \subseteq (0 .. MaxFault) \X (0 .. MaxFault)
    /\ failed \subseteq Reg /\ listed \subseteq Reg
    /\ bad \in BOOLEAN

\* The bounds on registrations and faults.
LEMMA Bounds == MaxReg \in Nat \ {0} /\ MaxFault \in Nat /\ Reg = 1 .. MaxReg /\ None \notin Dev
  BY FaultListAssumption DEF Reg

\* The type invariant in parts.
LEMMA TypeForm ==
    TypeInv => /\ RestType /\ node \in [Reg -> NodeType] /\ th \in [Thread -> ThType]
               /\ \A t \in Thread : ThreadOf(th[t])
  BY DEF TypeInv, TypeOK, RestType, ThType, AllPcs, NodeType

\* The module starts with an empty list, no directory and idle threads.
LEMMA TypeInitially == Init => TypeInv
<1> SUFFICES ASSUME Init PROVE TypeInv
  OBVIOUS
<1>1. RestType
  <2>1. careful \in BOOLEAN /\ bad \in BOOLEAN
    BY DEF Init
  <2>2. /\ regs \in 0 .. MaxReg /\ dev \in [Reg -> Dev \cup {None}]
        /\ kobj \in [Reg -> {"none", "bare", "live", "put"}]
        /\ next \in [0 .. MaxReg -> 0 .. MaxReg]
        /\ device_obj \in 0 .. MaxReg /\ handler \in [Dev -> 0 .. MaxReg]
        /\ raised \in 0 .. MaxFault
    BY Bounds DEF Init
  <2>3. /\ recorded = {} /\ returned = {} /\ failed = {} /\ listed = {}
    BY DEF Init
  <2> QED
    BY <2>1, <2>2, <2>3 DEF RestType
<1>2. node \in [Reg -> NodeType]
  BY Bounds DEF Init, NodeType, NoNode
<1>3. th \in [Thread -> ThType] /\ \A t \in Thread : ThreadOf(th[t])
  BY Bounds DEF Init, ThType, AllPcs, ThreadOf, Idle, RegisterPcs, RemovePcs, StorePcs, ReadPcs,
               FaultPcs, ShowPcs
<1> QED
  BY <1>1, <1>2, <1>3 DEF TypeInv, TypeOK, RestType, ThType, AllPcs, NodeType

\* A step of one thread: the next state of the others is the last one.
LEMMA OneMoves ==
    ASSUME th \in [Thread -> ThType], NEW t \in Thread, NEW r \in ThType, th' = [th EXCEPT ![t] = r]
    PROVE  /\ th' \in [Thread -> ThType] /\ th'[t] = r
           /\ \A u \in Thread : u # t => th'[u] = th[u]
  OBVIOUS

\* What Goto, Visit and Return do to the thread.
LEMMA GotoForm ==
    ASSUME th \in [Thread -> ThType], NEW t \in Thread, NEW pc \in AllPcs,
           Goto(t, pc)
    PROVE  /\ th' \in [Thread -> ThType]
           /\ \A u \in Thread : u # t => th'[u] = th[u]
           /\ th'[t].pc = pc /\ th'[t].dev = th[t].dev /\ th'[t].reg = th[t].reg
           /\ th'[t].at = th[t].at /\ th'[t].prev = th[t].prev
           /\ th'[t].fsr = th[t].fsr /\ th'[t].iova = th[t].iova
<1> DEFINE r == [th[t] EXCEPT !.pc = pc]
<1>1. r \in ThType
  BY DEF ThType
<1>2. th' = [th EXCEPT ![t] = r]
  BY DEF Goto
<1>3. th' \in [Thread -> ThType] /\ th'[t] = r /\ \A u \in Thread : u # t => th'[u] = th[u]
  BY <1>1, <1>2
<1> QED
  BY <1>3 DEF ThType

\* What each step leaves in the record of its thread: list_for_each_entry goes on to
\* the next node,
LEMMA VisitForm ==
    ASSUME th \in [Thread -> ThType], NEW t \in Thread, NEW n \in 0 .. MaxReg, Visit(t, n)
    PROVE  /\ th' \in [Thread -> ThType]
           /\ \A u \in Thread : u # t => th'[u] = th[u]
           /\ th'[t].pc = th[t].pc /\ th'[t].dev = th[t].dev /\ th'[t].reg = th[t].reg
           /\ th'[t].at = n /\ th'[t].prev = th[t].at
           /\ th'[t].fsr = th[t].fsr /\ th'[t].iova = th[t].iova
<1> DEFINE r == [th[t] EXCEPT !.prev = th[t].at, !.at = n]
<1>1. r \in ThType
  BY DEF ThType
<1>2. th' = [th EXCEPT ![t] = r]
  BY DEF Visit
<1>3. th' \in [Thread -> ThType] /\ th'[t] = r /\ \A u \in Thread : u # t => th'[u] = th[u]
  BY <1>1, <1>2
<1> QED
  BY <1>3 DEF ThType

\* a call returns,
LEMMA ReturnForm ==
    ASSUME th \in [Thread -> ThType], NEW t \in Thread, Return(t)
    PROVE  /\ th' \in [Thread -> ThType]
           /\ \A u \in Thread : u # t => th'[u] = th[u]
           /\ th'[t].pc = "idle"
<1>1. Idle \in ThType /\ Idle.pc = "idle"
  BY Bounds DEF Idle, ThType, AllPcs
<1> QED
  BY <1>1 DEF Return

\* and the record it returns to.
LEMMA IdleForm ==
    /\ Idle \in ThType /\ Idle.pc = "idle" /\ Idle.dev = None /\ Idle.reg = 0 /\ Idle.at = 0
    /\ Idle.prev = 0 /\ Idle.fsr = 0 /\ Idle.iova = 0
  BY Bounds DEF Idle, ThType, AllPcs

\* What a thread begins with.
LEMMA KobjForm ==
    ASSUME TypeInv, NEW t \in Thread, NEW d \in Dev, RegisterKobj(t, d)
    PROVE  /\ th' \in [Thread -> ThType]
           /\ \A u \in Thread : u # t => th'[u] = th[u]
           /\ th'[t].pc = "file" /\ th'[t].dev = d /\ th'[t].reg = regs'
           /\ th'[t].at = 0 /\ th'[t].prev = 0 /\ th'[t].fsr = 0 /\ th'[t].iova = 0
<1>a. RestType /\ th \in [Thread -> ThType]
  BY TypeForm
<1> DEFINE r == [Idle EXCEPT !.pc = "file", !.dev = d, !.reg = regs']
<1>b. regs' \in 0 .. MaxReg /\ "file" \in IoctlPcs
  BY <1>a, Bounds DEF RegisterKobj, Bound, RestType, IoctlPcs
<1>1. r \in ThType
  BY <1>a, <1>b, IdleForm DEF ThType, AllPcs
<1>2. r.pc = "file" /\ r.dev = d /\ r.reg = regs' /\ r.at = 0 /\ r.prev = 0 /\ r.fsr = 0 /\ r.iova = 0
  BY <1>a, IdleForm, Bounds DEF ThType
<1>3. th' = [th EXCEPT ![t] = r]
  BY DEF RegisterKobj
<1>4. th' \in [Thread -> ThType] /\ th'[t] = r /\ \A u \in Thread : u # t => th'[u] = th[u]
  BY <1>a, <1>1, <1>3, OneMoves
<1> QED
  BY <1>2, <1>4

\* kiumd_smmu_fault_handler_deregister starts to look for its node.
LEMMA FindForm ==
    ASSUME TypeInv, NEW t \in Thread, NEW d \in Dev, DeregisterStart(t, d)
    PROVE  /\ th' \in [Thread -> ThType]
           /\ \A u \in Thread : u # t => th'[u] = th[u]
           /\ th'[t].pc = "find" /\ th'[t].dev = d /\ th'[t].reg = 0
           /\ th'[t].at = next[0] /\ th'[t].prev = 0 /\ th'[t].fsr = 0 /\ th'[t].iova = 0
<1>a. RestType /\ th \in [Thread -> ThType]
  BY TypeForm
<1> DEFINE r == [Idle EXCEPT !.pc = "find", !.dev = d, !.at = next[0]]
<1>1. r \in ThType
  BY <1>a, IdleForm, Bounds DEF RestType, ThType, AllPcs, IoctlPcs
<1>2. r.pc = "find" /\ r.dev = d /\ r.reg = 0 /\ r.at = next[0] /\ r.prev = 0 /\ r.fsr = 0 /\ r.iova = 0
  BY <1>a, IdleForm, Bounds DEF ThType
<1>3. th' = [th EXCEPT ![t] = r]
  BY DEF DeregisterStart
<1>4. th' \in [Thread -> ThType] /\ th'[t] = r /\ \A u \in Thread : u # t => th'[u] = th[u]
  BY <1>a, <1>1, <1>3, OneMoves
<1> QED
  BY <1>2, <1>4

\* kiumd_smmu_fault_handler starts, with the name it was registered with.
LEMMA FaultForm ==
    ASSUME TypeInv, NEW t \in Thread, NEW d \in Dev, Fault(t, d)
    PROVE  /\ th' \in [Thread -> ThType]
           /\ \A u \in Thread : u # t => th'[u] = th[u]
           /\ th'[t].pc = "fault" /\ th'[t].dev = d /\ th'[t].reg = handler[d]
           /\ th'[t].at = next[0] /\ th'[t].prev = 0 /\ th'[t].fsr = raised' /\ th'[t].iova = 0
<1>a. RestType /\ th \in [Thread -> ThType]
  BY TypeForm
<1> DEFINE r == [Idle EXCEPT !.pc = "fault", !.dev = d, !.reg = handler[d], !.at = next[0], !.fsr = raised']
<1>b. /\ raised' \in 0 .. MaxFault /\ "fault" \in FaultPcs
      /\ handler[d] \in 0 .. MaxReg /\ next[0] \in 0 .. MaxReg
  BY <1>a, Bounds DEF Fault, Bound, RestType, FaultPcs
<1>1. r \in ThType
  BY <1>a, <1>b, IdleForm DEF ThType, AllPcs
<1>2. r.pc = "fault" /\ r.dev = d /\ r.reg = handler[d] /\ r.at = next[0] /\ r.prev = 0 /\ r.fsr = raised' /\ r.iova = 0
  BY <1>a, IdleForm, Bounds DEF ThType
<1>3. th' = [th EXCEPT ![t] = r]
  BY DEF Fault
<1>4. th' \in [Thread -> ThType] /\ th'[t] = r /\ \A u \in Thread : u # t => th'[u] = th[u]
  BY <1>a, <1>1, <1>3, OneMoves
<1> QED
  BY <1>2, <1>4

\* fsr_iova_show starts, with the directory of its file.
LEMMA ShowForm ==
    ASSUME TypeInv, NEW t \in Thread, NEW k \in Reg, Show(t, k)
    PROVE  /\ th' \in [Thread -> ThType]
           /\ \A u \in Thread : u # t => th'[u] = th[u]
           /\ th'[t].pc = "show" /\ th'[t].dev = None /\ th'[t].reg = k
           /\ th'[t].at = next[0] /\ th'[t].prev = 0 /\ th'[t].fsr = 0 /\ th'[t].iova = 0
<1>a. RestType /\ th \in [Thread -> ThType]
  BY TypeForm
<1> DEFINE r == [Idle EXCEPT !.pc = "show", !.reg = k, !.at = next[0]]
<1>b. "show" \in ShowPcs /\ k \in 0 .. MaxReg /\ next[0] \in 0 .. MaxReg
  BY <1>a, Bounds DEF RestType, ShowPcs
<1>1. r \in ThType
  BY <1>a, <1>b, IdleForm DEF ThType, AllPcs
<1>2. r.pc = "show" /\ r.dev = None /\ r.reg = k /\ r.at = next[0] /\ r.prev = 0 /\ r.fsr = 0 /\ r.iova = 0
  BY <1>a, IdleForm, Bounds DEF ThType
<1>3. th' = [th EXCEPT ![t] = r]
  BY DEF Show
<1>4. th' \in [Thread -> ThType] /\ th'[t] = r /\ \A u \in Thread : u # t => th'[u] = th[u]
  BY <1>a, <1>1, <1>3, OneMoves
<1> QED
  BY <1>2, <1>4

\* What a reader takes from the node.
LEMMA TakeFsrForm ==
    ASSUME TypeInv, NEW t \in Thread, ShowFsr(t)
    PROVE  /\ th' \in [Thread -> ThType]
           /\ \A u \in Thread : u # t => th'[u] = th[u]
           /\ th'[t].pc = "readIova" /\ th'[t].fsr = node[th[t].at].fsr
           /\ th'[t].dev = th[t].dev /\ th'[t].reg = th[t].reg /\ th'[t].at = th[t].at
           /\ th'[t].prev = th[t].prev /\ th'[t].iova = th[t].iova
<1>a. /\ th \in [Thread -> ThType] /\ node \in [Reg -> NodeType] /\ ThreadOf(th[t])
  BY TypeForm
<1> DEFINE r == [th[t] EXCEPT !.fsr = node[th[t].at].fsr, !.pc = "readIova"]
<1>1. th[t] \in ThType /\ th[t].at \in Reg
  BY <1>a DEF ShowFsr, ThreadOf, ReadPcs
<1>2. node[th[t].at].fsr \in 0 .. MaxFault
  BY <1>a, <1>1 DEF NodeType
<1>3. r \in ThType
  BY <1>1, <1>2 DEF ThType, AllPcs, ShowPcs
<1>4. /\ r.pc = "readIova" /\ r.fsr = node[th[t].at].fsr
      /\ r.dev = th[t].dev /\ r.reg = th[t].reg /\ r.at = th[t].at /\ r.prev = th[t].prev /\ r.iova = th[t].iova
  BY <1>1 DEF ThType
<1>5. th' = [th EXCEPT ![t] = r]
  BY <1>a DEF ShowFsr
<1>6. th' \in [Thread -> ThType] /\ th'[t] = r /\ \A u \in Thread : u # t => th'[u] = th[u]
  BY <1>a, <1>3, <1>5, OneMoves
<1> QED
  BY <1>4, <1>6

\* fsr_iova_show takes the address after the status.
LEMMA TakeIovaForm ==
    ASSUME TypeInv, NEW t \in Thread, ShowIova(t)
    PROVE  /\ th' \in [Thread -> ThType]
           /\ \A u \in Thread : u # t => th'[u] = th[u]
           /\ th'[t].pc = "clear" /\ th'[t].iova = node[th[t].at].iova
           /\ th'[t].dev = th[t].dev /\ th'[t].reg = th[t].reg /\ th'[t].at = th[t].at
           /\ th'[t].prev = th[t].prev /\ th'[t].fsr = th[t].fsr
<1>a. /\ th \in [Thread -> ThType] /\ node \in [Reg -> NodeType] /\ ThreadOf(th[t])
  BY TypeForm
<1> DEFINE r == [th[t] EXCEPT !.iova = node[th[t].at].iova, !.pc = "clear"]
<1>1. th[t] \in ThType /\ th[t].at \in Reg
  BY <1>a DEF ShowIova, ThreadOf, ReadPcs
<1>2. node[th[t].at].iova \in 0 .. MaxFault
  BY <1>a, <1>1 DEF NodeType
<1>3. r \in ThType
  BY <1>1, <1>2 DEF ThType, AllPcs, ShowPcs
<1>4. /\ r.pc = "clear" /\ r.iova = node[th[t].at].iova
      /\ r.dev = th[t].dev /\ r.reg = th[t].reg /\ r.at = th[t].at /\ r.prev = th[t].prev /\ r.fsr = th[t].fsr
  BY <1>1 DEF ThType
<1>5. th' = [th EXCEPT ![t] = r]
  BY <1>a DEF ShowIova
<1>6. th' \in [Thread -> ThType] /\ th'[t] = r /\ \A u \in Thread : u # t => th'[u] = th[u]
  BY <1>a, <1>3, <1>5, OneMoves
<1> QED
  BY <1>4, <1>6

\* The handler stores the status in its node.
LEMMA StoreFsrForm ==
    ASSUME TypeInv, NEW t \in Thread, FaultFsr(t)
    PROVE  /\ node' \in [Reg -> NodeType] /\ th[t].at \in Reg
           /\ \A n \in Reg : n # th[t].at => node'[n] = node[n]
           /\ node'[th[t].at].fsr = th[t].fsr
           /\ node'[th[t].at].mem = node[th[t].at].mem /\ node'[th[t].at].obj = node[th[t].at].obj
           /\ node'[th[t].at].iova = node[th[t].at].iova /\ node'[th[t].at].flag = node[th[t].at].flag
<1>a. /\ th \in [Thread -> ThType] /\ node \in [Reg -> NodeType] /\ ThreadOf(th[t])
  BY TypeForm
<1> DEFINE r == [node[th[t].at] EXCEPT !.fsr = th[t].fsr]
<1>1. th[t].at \in Reg /\ node[th[t].at] \in NodeType /\ th[t].fsr \in 0 .. MaxFault
  BY <1>a DEF FaultFsr, ThreadOf, ThType, StorePcs
<1>2. r \in NodeType
  BY <1>1, Bounds DEF NodeType
<1>3. /\ r.fsr = th[t].fsr
      /\ r.mem = node[th[t].at].mem /\ r.obj = node[th[t].at].obj /\ r.iova = node[th[t].at].iova /\ r.flag = node[th[t].at].flag
  BY <1>1 DEF NodeType
<1>4. node' = [node EXCEPT ![th[t].at] = r]
  BY <1>a, <1>1 DEF FaultFsr
<1> QED
  BY <1>a, <1>1, <1>2, <1>3, <1>4

\* It stores the address.
LEMMA StoreIovaForm ==
    ASSUME TypeInv, NEW t \in Thread, FaultIova(t)
    PROVE  /\ node' \in [Reg -> NodeType] /\ th[t].at \in Reg
           /\ \A n \in Reg : n # th[t].at => node'[n] = node[n]
           /\ node'[th[t].at].iova = th[t].fsr
           /\ node'[th[t].at].mem = node[th[t].at].mem /\ node'[th[t].at].obj = node[th[t].at].obj
           /\ node'[th[t].at].fsr = node[th[t].at].fsr /\ node'[th[t].at].flag = node[th[t].at].flag
<1>a. /\ th \in [Thread -> ThType] /\ node \in [Reg -> NodeType] /\ ThreadOf(th[t])
  BY TypeForm
<1> DEFINE r == [node[th[t].at] EXCEPT !.iova = th[t].fsr]
<1>1. th[t].at \in Reg /\ node[th[t].at] \in NodeType /\ th[t].fsr \in 0 .. MaxFault
  BY <1>a DEF FaultIova, ThreadOf, ThType, StorePcs
<1>2. r \in NodeType
  BY <1>1, Bounds DEF NodeType
<1>3. /\ r.iova = th[t].fsr
      /\ r.mem = node[th[t].at].mem /\ r.obj = node[th[t].at].obj /\ r.fsr = node[th[t].at].fsr /\ r.flag = node[th[t].at].flag
  BY <1>1 DEF NodeType
<1>4. node' = [node EXCEPT ![th[t].at] = r]
  BY <1>a, <1>1 DEF FaultIova
<1> QED
  BY <1>a, <1>1, <1>2, <1>3, <1>4

\* It marks the node.
LEMMA StoreFlagForm ==
    ASSUME TypeInv, NEW t \in Thread, FaultFlag(t)
    PROVE  /\ node' \in [Reg -> NodeType] /\ th[t].at \in Reg
           /\ \A n \in Reg : n # th[t].at => node'[n] = node[n]
           /\ node'[th[t].at].flag = TRUE
           /\ node'[th[t].at].mem = node[th[t].at].mem /\ node'[th[t].at].obj = node[th[t].at].obj
           /\ node'[th[t].at].fsr = node[th[t].at].fsr /\ node'[th[t].at].iova = node[th[t].at].iova
<1>a. /\ th \in [Thread -> ThType] /\ node \in [Reg -> NodeType] /\ ThreadOf(th[t])
  BY TypeForm
<1> DEFINE r == [node[th[t].at] EXCEPT !.flag = TRUE]
<1>1. th[t].at \in Reg /\ node[th[t].at] \in NodeType /\ th[t].fsr \in 0 .. MaxFault
  BY <1>a DEF FaultFlag, ThreadOf, ThType, StorePcs
<1>2. r \in NodeType
  BY <1>1, Bounds DEF NodeType
<1>3. /\ r.flag = TRUE
      /\ r.mem = node[th[t].at].mem /\ r.obj = node[th[t].at].obj /\ r.fsr = node[th[t].at].fsr /\ r.iova = node[th[t].at].iova
  BY <1>1 DEF NodeType
<1>4. node' = [node EXCEPT ![th[t].at] = r]
  BY <1>a, <1>1 DEF FaultFlag
<1> QED
  BY <1>a, <1>1, <1>2, <1>3, <1>4

\* A reader resets the values of its node.
LEMMA ClearForm ==
    ASSUME TypeInv, NEW t \in Thread, ShowClear(t)
    PROVE  /\ node' \in [Reg -> NodeType] /\ th[t].at \in Reg
           /\ \A n \in Reg : n # th[t].at => node'[n] = node[n]
           /\ node'[th[t].at].fsr = 0 /\ node'[th[t].at].iova = 0
           /\ node'[th[t].at].mem = node[th[t].at].mem /\ node'[th[t].at].obj = node[th[t].at].obj
           /\ node'[th[t].at].flag = node[th[t].at].flag
<1>a. /\ th \in [Thread -> ThType] /\ node \in [Reg -> NodeType] /\ ThreadOf(th[t])
  BY TypeForm
<1> DEFINE r == [node[th[t].at] EXCEPT !.fsr = 0, !.iova = 0]
<1>1. th[t].at \in Reg /\ node[th[t].at] \in NodeType /\ th[t].fsr \in 0 .. MaxFault
  BY <1>a DEF ShowClear, ThreadOf, ThType, ReadPcs
<1>b. 0 \in 0 .. MaxFault
  BY Bounds
<1>2. r \in NodeType
  BY <1>1, <1>b DEF NodeType
<1>3. /\ r.fsr = 0 /\ r.iova = 0
      /\ r.mem = node[th[t].at].mem /\ r.obj = node[th[t].at].obj /\ r.flag = node[th[t].at].flag
  BY <1>1 DEF NodeType
<1>4. node' = [node EXCEPT ![th[t].at] = r]
  BY <1>a, <1>1 DEF ShowClear
<1> QED
  BY <1>a, <1>1, <1>2, <1>3, <1>4

\* It drops the mark.
LEMMA UnflagForm ==
    ASSUME TypeInv, NEW t \in Thread, ShowFlag(t)
    PROVE  /\ node' \in [Reg -> NodeType] /\ th[t].at \in Reg
           /\ \A n \in Reg : n # th[t].at => node'[n] = node[n]
           /\ node'[th[t].at].flag = FALSE
           /\ node'[th[t].at].mem = node[th[t].at].mem /\ node'[th[t].at].obj = node[th[t].at].obj
           /\ node'[th[t].at].fsr = node[th[t].at].fsr /\ node'[th[t].at].iova = node[th[t].at].iova
<1>a. /\ th \in [Thread -> ThType] /\ node \in [Reg -> NodeType] /\ ThreadOf(th[t])
  BY TypeForm
<1> DEFINE r == [node[th[t].at] EXCEPT !.flag = FALSE]
<1>1. th[t].at \in Reg /\ node[th[t].at] \in NodeType /\ th[t].fsr \in 0 .. MaxFault
  BY <1>a DEF ShowFlag, ThreadOf, ThType, ReadPcs
<1>2. r \in NodeType
  BY <1>1, Bounds DEF NodeType
<1>3. /\ r.flag = FALSE
      /\ r.mem = node[th[t].at].mem /\ r.obj = node[th[t].at].obj /\ r.fsr = node[th[t].at].fsr /\ r.iova = node[th[t].at].iova
  BY <1>1 DEF NodeType
<1>4. node' = [node EXCEPT ![th[t].at] = r]
  BY <1>a, <1>1 DEF ShowFlag
<1> QED
  BY <1>a, <1>1, <1>2, <1>3, <1>4

\* A removal frees its node.
LEMMA FreeForm ==
    ASSUME TypeInv, NEW t \in Thread, DeregisterFree(t)
    PROVE  /\ node' \in [Reg -> NodeType] /\ th[t].at \in Reg
           /\ \A n \in Reg : n # th[t].at => node'[n] = node[n]
           /\ node'[th[t].at].mem = "freed"
           /\ node'[th[t].at].obj = node[th[t].at].obj /\ node'[th[t].at].fsr = node[th[t].at].fsr
           /\ node'[th[t].at].iova = node[th[t].at].iova /\ node'[th[t].at].flag = node[th[t].at].flag
<1>a. /\ th \in [Thread -> ThType] /\ node \in [Reg -> NodeType] /\ ThreadOf(th[t])
  BY TypeForm
<1> DEFINE r == [node[th[t].at] EXCEPT !.mem = "freed"]
<1>1. th[t].at \in Reg /\ node[th[t].at] \in NodeType /\ th[t].fsr \in 0 .. MaxFault
  BY <1>a DEF DeregisterFree, ThreadOf, ThType, RemovePcs
<1>2. r \in NodeType
  BY <1>1, Bounds DEF NodeType
<1>3. /\ r.mem = "freed"
      /\ r.obj = node[th[t].at].obj /\ r.fsr = node[th[t].at].fsr /\ r.iova = node[th[t].at].iova /\ r.flag = node[th[t].at].flag
  BY <1>1 DEF NodeType
<1>4. node' = [node EXCEPT ![th[t].at] = r]
  BY <1>a, <1>1 DEF DeregisterFree
<1> QED
  BY <1>a, <1>1, <1>2, <1>3, <1>4

\* A registration allocates its node.
LEMMA AllocForm ==
    ASSUME TypeInv, NEW t \in Thread, RegisterAlloc(t)
    PROVE  /\ node' \in [Reg -> NodeType] /\ th[t].reg \in Reg
           /\ \A n \in Reg : n # th[t].reg => node'[n] = node[n]
           /\ node'[th[t].reg].mem = "live" /\ node'[th[t].reg].obj = device_obj
           /\ ~node'[th[t].reg].flag
<1>a. /\ th \in [Thread -> ThType] /\ node \in [Reg -> NodeType] /\ ThreadOf(th[t]) /\ RestType
  BY TypeForm
<1> DEFINE r == [NoNode EXCEPT !.mem = "live", !.obj = device_obj]
<1>1. th[t].reg \in Reg
  BY <1>a DEF RegisterAlloc, ThreadOf, RegisterPcs
<1>2. NoNode \in NodeType /\ ~NoNode.flag
  BY Bounds DEF NoNode, NodeType
<1>3. r \in NodeType
  BY <1>a, <1>2 DEF NodeType, RestType
<1>4. r.mem = "live" /\ r.obj = device_obj /\ r.flag = NoNode.flag
  BY <1>2 DEF NodeType
<1>5. node' = [node EXCEPT ![th[t].reg] = r]
  BY DEF RegisterAlloc
<1> QED
  BY <1>a, <1>1, <1>2, <1>3, <1>4, <1>5


\* No step of any function leaves the types.
LEMMA TypeKept ==
    ASSUME TypeInv, Next
    PROVE  TypeInv'
<1>a. /\ RestType /\ node \in [Reg -> NodeType] /\ th \in [Thread -> ThType]
      /\ \A u \in Thread : ThreadOf(th[u]) /\ th[u] \in ThType
  BY TypeForm
<1>b. SUFFICES RestType' /\ node' \in [Reg -> NodeType] /\ th' \in [Thread -> ThType]
                  /\ \A u \in Thread : ThreadOf(th'[u])
  BY DEF TypeInv, TypeOK, RestType, ThType, AllPcs, NodeType
<1>c. next[0] \in 0 .. MaxReg /\ \A n \in 0 .. MaxReg : next[n] \in 0 .. MaxReg
  BY <1>a, Bounds DEF RestType
<1>d. \A u \in Thread : th[u].at \in 0 .. MaxReg /\ th[u].dev \in Dev \cup {None}
  BY <1>a DEF ThType
<1>1. ASSUME NEW t \in Thread, NEW d \in Dev, RegisterKobj(t, d)
      PROVE  RestType' /\ node' \in [Reg -> NodeType] /\ th' \in [Thread -> ThType]
                 /\ \A u \in Thread : ThreadOf(th'[u])
  <2>1. th' \in [Thread -> ThType] /\ \A u \in Thread : ThreadOf(th'[u])
    <3>0. regs' \in Reg
      BY <1>1, <1>a, Bounds DEF RegisterKobj, Bound, RestType
    <3>1. ThreadOf(th'[t])
      BY <1>1, <3>0, KobjForm DEF ThreadOf, RegisterPcs, RemovePcs, StorePcs, ReadPcs,
         IoctlPcs, FaultPcs, ShowPcs
    <3> QED
      BY <1>1, <1>a, <3>1, KobjForm
  <2>2. node' \in [Reg -> NodeType]
    BY <1>1, <1>a DEF RegisterKobj
  <2>3. RestType'
    <3>1. regs' \in Reg /\ kobj' \in [Reg -> {"none", "bare", "live", "put"}]
      BY <1>1, <1>a, Bounds DEF RegisterKobj, Bound, RestType
    <3>2. dev' \in [Reg -> Dev \cup {None}]
      BY <1>1, <1>a DEF RegisterKobj, RestType
    <3> QED
      BY <1>1, <1>a, <3>1, <3>2, Bounds, SMTT(20) DEF RegisterKobj, RestType, faultVars, modeVars
  <2> QED
    BY <2>1, <2>2, <2>3
<1>2. ASSUME NEW t \in Thread, NEW d \in Dev, RegisterExists(t, d)
      PROVE  RestType' /\ node' \in [Reg -> NodeType] /\ th' \in [Thread -> ThType]
                 /\ \A u \in Thread : ThreadOf(th'[u])
  <2>1. th' \in [Thread -> ThType] /\ \A u \in Thread : ThreadOf(th'[u])
    BY <1>2, <1>a DEF RegisterExists
  <2>2. node' \in [Reg -> NodeType]
    BY <1>2, <1>a DEF RegisterExists
  <2>3. RestType'
    <3>1. device_obj' \in 0 .. MaxReg
      BY <1>2, Bounds DEF RegisterExists
    <3> QED
      BY <1>2, <1>a, <3>1 DEF RegisterExists, RestType, faultVars, modeVars
  <2> QED
    BY <2>1, <2>2, <2>3
<1>3. ASSUME NEW t \in Thread, NEW d \in Dev, DeregisterStart(t, d)
      PROVE  RestType' /\ node' \in [Reg -> NodeType] /\ th' \in [Thread -> ThType]
                 /\ \A u \in Thread : ThreadOf(th'[u])
  <2>1. th' \in [Thread -> ThType] /\ \A u \in Thread : ThreadOf(th'[u])
    <3>1. ThreadOf(th'[t])
      BY <1>3, FindForm DEF ThreadOf, RegisterPcs, RemovePcs, StorePcs, ReadPcs, IoctlPcs,
         FaultPcs, ShowPcs
    <3> QED
      BY <1>3, <1>a, <3>1, FindForm
  <2>2. node' \in [Reg -> NodeType]
    BY <1>3, <1>a DEF DeregisterStart
  <2>3. RestType'
    BY <1>3, <1>a, Bounds DEF DeregisterStart, RestType, ThreadOf, ThType, RegisterPcs,
       RemovePcs, FaultPcs, StorePcs, ReadPcs, regVars, faultVars, modeVars
  <2> QED
    BY <2>1, <2>2, <2>3
<1>4. ASSUME NEW t \in Thread, NEW d \in Dev, Fault(t, d)
      PROVE  RestType' /\ node' \in [Reg -> NodeType] /\ th' \in [Thread -> ThType]
                 /\ \A u \in Thread : ThreadOf(th'[u])
  <2>1. th' \in [Thread -> ThType] /\ \A u \in Thread : ThreadOf(th'[u])
    <3>0. handler[d] \in Reg /\ raised' \in 1 .. MaxFault
      BY <1>4, <1>a, Bounds DEF Fault, Bound, RestType
    <3>1. ThreadOf(th'[t])
      BY <1>4, <3>0, FaultForm DEF ThreadOf, RegisterPcs, RemovePcs, StorePcs, ReadPcs,
         IoctlPcs, FaultPcs, ShowPcs
    <3> QED
      BY <1>4, <1>a, <3>1, FaultForm
  <2>2. node' \in [Reg -> NodeType]
    BY <1>4, <1>a DEF Fault
  <2>3. RestType'
    <3>1. raised' \in 0 .. MaxFault
      BY <1>4, <1>a, Bounds DEF Fault, Bound, RestType
    <3> QED
      BY <1>4, <1>a, <3>1 DEF Fault, RestType, regVars, modeVars
  <2> QED
    BY <2>1, <2>2, <2>3
<1>5. ASSUME NEW t \in Thread, RegisterFile(t)
      PROVE  RestType' /\ node' \in [Reg -> NodeType] /\ th' \in [Thread -> ThType]
                 /\ \A u \in Thread : ThreadOf(th'[u])
  <2>1. th' \in [Thread -> ThType] /\ \A u \in Thread : ThreadOf(th'[u])
    <3>1. Goto(t, "alloc") /\ "alloc" \in AllPcs
      BY <1>5 DEF RegisterFile, AllPcs, IoctlPcs, FaultPcs, ShowPcs
    <3>2. /\ th' \in [Thread -> ThType] /\ \A u \in Thread : u # t => th'[u] = th[u]
          /\ th'[t].dev = th[t].dev /\ th'[t].reg = th[t].reg /\ th'[t].fsr = th[t].fsr
          /\ th'[t].pc = "alloc" /\ th'[t].at = th[t].at
      BY <1>a, <3>1, GotoForm
    <3>3. ThreadOf(th'[t])
      BY <1>5, <1>a, <1>d, <3>2, Bounds DEF RegisterFile, ThreadOf, RegisterPcs, RemovePcs,
         StorePcs, ReadPcs, IoctlPcs, FaultPcs, ShowPcs
    <3> QED
      BY <1>a, <3>2, <3>3
  <2>2. node' \in [Reg -> NodeType]
    BY <1>5, <1>a DEF RegisterFile
  <2>3. RestType'
    BY <1>5, <1>a, Bounds DEF RegisterFile, RestType, ThreadOf, ThType, RegisterPcs,
       RemovePcs, FaultPcs, StorePcs, ReadPcs, regVars, faultVars, modeVars
  <2> QED
    BY <2>1, <2>2, <2>3
<1>6. ASSUME NEW t \in Thread, RegisterFail(t)
      PROVE  RestType' /\ node' \in [Reg -> NodeType] /\ th' \in [Thread -> ThType]
                 /\ \A u \in Thread : ThreadOf(th'[u])
  <2>1. th' \in [Thread -> ThType] /\ \A u \in Thread : ThreadOf(th'[u])
    BY <1>6, <1>a, ReturnForm DEF RegisterFail, ThreadOf, RegisterPcs, RemovePcs, StorePcs,
       ReadPcs, IoctlPcs, FaultPcs, ShowPcs
  <2>2. node' \in [Reg -> NodeType]
    BY <1>6, <1>a DEF RegisterFail
  <2>3. RestType'
    BY <1>6, <1>a, Bounds DEF RegisterFail, RestType, ThreadOf, ThType, RegisterPcs,
       RemovePcs, FaultPcs, StorePcs, ReadPcs, regVars, faultVars, modeVars
  <2> QED
    BY <2>1, <2>2, <2>3
<1>7. ASSUME NEW t \in Thread, RegisterAlloc(t)
      PROVE  RestType' /\ node' \in [Reg -> NodeType] /\ th' \in [Thread -> ThType]
                 /\ \A u \in Thread : ThreadOf(th'[u])
  <2>1. th' \in [Thread -> ThType] /\ \A u \in Thread : ThreadOf(th'[u])
    <3>1. Goto(t, "link") /\ "link" \in AllPcs
      BY <1>7 DEF RegisterAlloc, AllPcs, IoctlPcs, FaultPcs, ShowPcs
    <3>2. /\ th' \in [Thread -> ThType] /\ \A u \in Thread : u # t => th'[u] = th[u]
          /\ th'[t].dev = th[t].dev /\ th'[t].reg = th[t].reg /\ th'[t].fsr = th[t].fsr
          /\ th'[t].pc = "link" /\ th'[t].at = th[t].at
      BY <1>a, <3>1, GotoForm
    <3>3. ThreadOf(th'[t])
      BY <1>7, <1>a, <1>d, <3>2, Bounds DEF RegisterAlloc, ThreadOf, RegisterPcs, RemovePcs,
         StorePcs, ReadPcs, IoctlPcs, FaultPcs, ShowPcs
    <3> QED
      BY <1>a, <3>2, <3>3
  <2>2. node' \in [Reg -> NodeType]
    BY <1>7, AllocForm
  <2>3. RestType'
    BY <1>7, <1>a, Bounds DEF RegisterAlloc, RestType, ThreadOf, ThType, RegisterPcs,
       RemovePcs, FaultPcs, StorePcs, ReadPcs, regVars, faultVars, modeVars
  <2> QED
    BY <2>1, <2>2, <2>3
<1>8. ASSUME NEW t \in Thread, RegisterWalk(t)
      PROVE  RestType' /\ node' \in [Reg -> NodeType] /\ th' \in [Thread -> ThType]
                 /\ \A u \in Thread : ThreadOf(th'[u])
  <2>1. th' \in [Thread -> ThType] /\ \A u \in Thread : ThreadOf(th'[u])
    <3>1. Visit(t, next[th[t].at]) /\ next[th[t].at] \in 0 .. MaxReg
      BY <1>8, <1>c, <1>d DEF RegisterWalk
    <3>2. /\ th' \in [Thread -> ThType] /\ \A u \in Thread : u # t => th'[u] = th[u]
          /\ th'[t].dev = th[t].dev /\ th'[t].reg = th[t].reg /\ th'[t].fsr = th[t].fsr
          /\ th'[t].pc = th[t].pc /\ th'[t].at = next[th[t].at]
      BY <1>a, <3>1, VisitForm
    <3>3. ThreadOf(th'[t])
      BY <1>8, <1>a, <1>d, <3>2, Bounds DEF RegisterWalk, ThreadOf, RegisterPcs, RemovePcs,
         StorePcs, ReadPcs, IoctlPcs, FaultPcs, ShowPcs
    <3> QED
      BY <1>a, <3>2, <3>3
  <2>2. node' \in [Reg -> NodeType]
    BY <1>8, <1>a DEF RegisterWalk
  <2>3. RestType'
    BY <1>8, <1>a, Bounds DEF RegisterWalk, RestType, ThreadOf, ThType, RegisterPcs,
       RemovePcs, FaultPcs, StorePcs, ReadPcs, regVars, faultVars, modeVars
  <2> QED
    BY <2>1, <2>2, <2>3
<1>9. ASSUME NEW t \in Thread, RegisterTail(t)
      PROVE  RestType' /\ node' \in [Reg -> NodeType] /\ th' \in [Thread -> ThType]
                 /\ \A u \in Thread : ThreadOf(th'[u])
  <2>1. th' \in [Thread -> ThType] /\ \A u \in Thread : ThreadOf(th'[u])
    <3>1. Goto(t, "append") /\ "append" \in AllPcs
      BY <1>9 DEF RegisterTail, AllPcs, IoctlPcs, FaultPcs, ShowPcs
    <3>2. /\ th' \in [Thread -> ThType] /\ \A u \in Thread : u # t => th'[u] = th[u]
          /\ th'[t].dev = th[t].dev /\ th'[t].reg = th[t].reg /\ th'[t].fsr = th[t].fsr
          /\ th'[t].pc = "append" /\ th'[t].at = th[t].at
      BY <1>a, <3>1, GotoForm
    <3>3. ThreadOf(th'[t])
      BY <1>9, <1>a, <1>d, <3>2, Bounds DEF RegisterTail, ThreadOf, RegisterPcs, RemovePcs,
         StorePcs, ReadPcs, IoctlPcs, FaultPcs, ShowPcs
    <3> QED
      BY <1>a, <3>2, <3>3
  <2>2. node' \in [Reg -> NodeType]
    BY <1>9, <1>a DEF RegisterTail
  <2>3. RestType'
    BY <1>9, <1>a, Bounds DEF RegisterTail, RestType, ThreadOf, ThType, RegisterPcs,
       RemovePcs, FaultPcs, StorePcs, ReadPcs, regVars, faultVars, modeVars
  <2> QED
    BY <2>1, <2>2, <2>3
<1>10. ASSUME NEW t \in Thread, RegisterAppend(t)
      PROVE  RestType' /\ node' \in [Reg -> NodeType] /\ th' \in [Thread -> ThType]
                 /\ \A u \in Thread : ThreadOf(th'[u])
  <2>1. th' \in [Thread -> ThType] /\ \A u \in Thread : ThreadOf(th'[u])
    <3>1. Goto(t, "handler") /\ "handler" \in AllPcs
      BY <1>10 DEF RegisterAppend, AllPcs, IoctlPcs, FaultPcs, ShowPcs
    <3>2. /\ th' \in [Thread -> ThType] /\ \A u \in Thread : u # t => th'[u] = th[u]
          /\ th'[t].dev = th[t].dev /\ th'[t].reg = th[t].reg /\ th'[t].fsr = th[t].fsr
          /\ th'[t].pc = "handler" /\ th'[t].at = th[t].at
      BY <1>a, <3>1, GotoForm
    <3>3. ThreadOf(th'[t])
      BY <1>10, <1>a, <1>d, <3>2, Bounds DEF RegisterAppend, ThreadOf, RegisterPcs,
         RemovePcs, StorePcs, ReadPcs, IoctlPcs, FaultPcs, ShowPcs
    <3> QED
      BY <1>a, <3>2, <3>3
  <2>2. node' \in [Reg -> NodeType]
    BY <1>10, <1>a DEF RegisterAppend
  <2>3. RestType'
    BY <1>10, <1>a, Bounds DEF RegisterAppend, RestType, ThreadOf, ThType, RegisterPcs,
       RemovePcs, FaultPcs, StorePcs, ReadPcs, regVars, faultVars, modeVars
  <2> QED
    BY <2>1, <2>2, <2>3
<1>11. ASSUME NEW t \in Thread, RegisterHandler(t)
      PROVE  RestType' /\ node' \in [Reg -> NodeType] /\ th' \in [Thread -> ThType]
                 /\ \A u \in Thread : ThreadOf(th'[u])
  <2>1. th' \in [Thread -> ThType] /\ \A u \in Thread : ThreadOf(th'[u])
    BY <1>11, <1>a, ReturnForm DEF RegisterHandler, ThreadOf, RegisterPcs, RemovePcs,
       StorePcs, ReadPcs, IoctlPcs, FaultPcs, ShowPcs
  <2>2. node' \in [Reg -> NodeType]
    BY <1>11, <1>a DEF RegisterHandler
  <2>3. RestType'
    BY <1>11, <1>a, Bounds DEF RegisterHandler, RestType, ThreadOf, ThType, RegisterPcs,
       RemovePcs, FaultPcs, StorePcs, ReadPcs, regVars, faultVars, modeVars
  <2> QED
    BY <2>1, <2>2, <2>3
<1>12. ASSUME NEW t \in Thread, RegisterMisuse(t)
      PROVE  RestType' /\ node' \in [Reg -> NodeType] /\ th' \in [Thread -> ThType]
                 /\ \A u \in Thread : ThreadOf(th'[u])
  <2>1. th' \in [Thread -> ThType] /\ \A u \in Thread : ThreadOf(th'[u])
    BY <1>12, <1>a, ReturnForm DEF RegisterMisuse, Misuse, ThreadOf, RegisterPcs, RemovePcs,
       StorePcs, ReadPcs, IoctlPcs, FaultPcs, ShowPcs
  <2>2. node' \in [Reg -> NodeType]
    BY <1>12, <1>a DEF RegisterMisuse, Misuse
  <2>3. RestType'
    BY <1>12, <1>a, Bounds DEF RegisterMisuse, Misuse, RestType, ThreadOf, ThType,
       RegisterPcs, RemovePcs, FaultPcs, StorePcs, ReadPcs, regVars, faultVars, modeVars
  <2> QED
    BY <2>1, <2>2, <2>3
<1>13. ASSUME NEW t \in Thread, DeregisterWalk(t)
      PROVE  RestType' /\ node' \in [Reg -> NodeType] /\ th' \in [Thread -> ThType]
                 /\ \A u \in Thread : ThreadOf(th'[u])
  <2>1. th' \in [Thread -> ThType] /\ \A u \in Thread : ThreadOf(th'[u])
    <3>1. Visit(t, next[th[t].at]) /\ next[th[t].at] \in 0 .. MaxReg
      BY <1>13, <1>c, <1>d DEF DeregisterWalk
    <3>2. /\ th' \in [Thread -> ThType] /\ \A u \in Thread : u # t => th'[u] = th[u]
          /\ th'[t].dev = th[t].dev /\ th'[t].reg = th[t].reg /\ th'[t].fsr = th[t].fsr
          /\ th'[t].pc = th[t].pc /\ th'[t].at = next[th[t].at]
      BY <1>a, <3>1, VisitForm
    <3>3. ThreadOf(th'[t])
      BY <1>13, <1>a, <1>d, <3>2, Bounds DEF DeregisterWalk, ThreadOf, RegisterPcs,
         RemovePcs, StorePcs, ReadPcs, IoctlPcs, FaultPcs, ShowPcs
    <3> QED
      BY <1>a, <3>2, <3>3
  <2>2. node' \in [Reg -> NodeType]
    BY <1>13, <1>a DEF DeregisterWalk
  <2>3. RestType'
    BY <1>13, <1>a, Bounds DEF DeregisterWalk, RestType, ThreadOf, ThType, RegisterPcs,
       RemovePcs, FaultPcs, StorePcs, ReadPcs, regVars, faultVars, modeVars
  <2> QED
    BY <2>1, <2>2, <2>3
<1>14. ASSUME NEW t \in Thread, DeregisterMissing(t)
      PROVE  RestType' /\ node' \in [Reg -> NodeType] /\ th' \in [Thread -> ThType]
                 /\ \A u \in Thread : ThreadOf(th'[u])
  <2>1. th' \in [Thread -> ThType] /\ \A u \in Thread : ThreadOf(th'[u])
    BY <1>14, <1>a, ReturnForm DEF DeregisterMissing, ThreadOf, RegisterPcs, RemovePcs,
       StorePcs, ReadPcs, IoctlPcs, FaultPcs, ShowPcs
  <2>2. node' \in [Reg -> NodeType]
    BY <1>14, <1>a DEF DeregisterMissing
  <2>3. RestType'
    BY <1>14, <1>a, Bounds DEF DeregisterMissing, RestType, ThreadOf, ThType, RegisterPcs,
       RemovePcs, FaultPcs, StorePcs, ReadPcs, regVars, faultVars, modeVars
  <2> QED
    BY <2>1, <2>2, <2>3
<1>15. ASSUME NEW t \in Thread, DeregisterUnlink(t)
      PROVE  RestType' /\ node' \in [Reg -> NodeType] /\ th' \in [Thread -> ThType]
                 /\ \A u \in Thread : ThreadOf(th'[u])
  <2>1. th' \in [Thread -> ThType] /\ \A u \in Thread : ThreadOf(th'[u])
    <3>1. Goto(t, "put") /\ "put" \in AllPcs
      BY <1>15 DEF DeregisterUnlink, AllPcs, IoctlPcs, FaultPcs, ShowPcs
    <3>2. /\ th' \in [Thread -> ThType] /\ \A u \in Thread : u # t => th'[u] = th[u]
          /\ th'[t].dev = th[t].dev /\ th'[t].reg = th[t].reg /\ th'[t].fsr = th[t].fsr
          /\ th'[t].pc = "put" /\ th'[t].at = th[t].at
      BY <1>a, <3>1, GotoForm
    <3>3. ThreadOf(th'[t])
      BY <1>15, <1>a, <1>d, <3>2, Bounds DEF DeregisterUnlink, Found, ThreadOf, RegisterPcs,
         RemovePcs, StorePcs, ReadPcs, IoctlPcs, FaultPcs, ShowPcs
    <3> QED
      BY <1>a, <3>2, <3>3
  <2>2. node' \in [Reg -> NodeType]
    BY <1>15, <1>a DEF DeregisterUnlink
  <2>3. RestType'
    <3>1. th[t].prev \in 0 .. MaxReg /\ th[t].at \in 0 .. MaxReg
      BY <1>a DEF ThType
    <3>2. next' \in [0 .. MaxReg -> 0 .. MaxReg]
      <4>1. PICK g \in 0 .. MaxReg :
                next' = [next EXCEPT ![th[t].prev] = next[g], ![th[t].at] = 0]
        BY <1>15, <1>c, <3>1 DEF DeregisterUnlink
      <4>2. next[g] \in 0 .. MaxReg /\ 0 \in 0 .. MaxReg
        BY <1>c, Bounds
      <4> QED
        BY <1>a, <3>1, <4>1, <4>2 DEF RestType
    <3> QED
      BY <1>15, <1>a, <3>2 DEF DeregisterUnlink, RestType, regVars, faultVars, modeVars
  <2> QED
    BY <2>1, <2>2, <2>3
<1>16. ASSUME NEW t \in Thread, DeregisterPut(t)
      PROVE  RestType' /\ node' \in [Reg -> NodeType] /\ th' \in [Thread -> ThType]
                 /\ \A u \in Thread : ThreadOf(th'[u])
  <2>1. th' \in [Thread -> ThType] /\ \A u \in Thread : ThreadOf(th'[u])
    <3>1. Goto(t, "free") /\ "free" \in AllPcs
      BY <1>16 DEF DeregisterPut, AllPcs, IoctlPcs, FaultPcs, ShowPcs
    <3>2. /\ th' \in [Thread -> ThType] /\ \A u \in Thread : u # t => th'[u] = th[u]
          /\ th'[t].dev = th[t].dev /\ th'[t].reg = th[t].reg /\ th'[t].fsr = th[t].fsr
          /\ th'[t].pc = "free" /\ th'[t].at = th[t].at
      BY <1>a, <3>1, GotoForm
    <3>3. ThreadOf(th'[t])
      BY <1>16, <1>a, <1>d, <3>2, Bounds DEF DeregisterPut, ThreadOf, RegisterPcs,
         RemovePcs, StorePcs, ReadPcs, IoctlPcs, FaultPcs, ShowPcs
    <3> QED
      BY <1>a, <3>2, <3>3
  <2>2. node' \in [Reg -> NodeType]
    BY <1>16, <1>a DEF DeregisterPut
  <2>3. RestType'
    BY <1>16, <1>a, Bounds DEF DeregisterPut, RestType, ThreadOf, ThType, RegisterPcs,
       RemovePcs, FaultPcs, StorePcs, ReadPcs, regVars, faultVars, modeVars
  <2> QED
    BY <2>1, <2>2, <2>3
<1>17. ASSUME NEW t \in Thread, DeregisterFree(t)
      PROVE  RestType' /\ node' \in [Reg -> NodeType] /\ th' \in [Thread -> ThType]
                 /\ \A u \in Thread : ThreadOf(th'[u])
  <2>1. th' \in [Thread -> ThType] /\ \A u \in Thread : ThreadOf(th'[u])
    BY <1>17, <1>a, ReturnForm DEF DeregisterFree, ThreadOf, RegisterPcs, RemovePcs,
       StorePcs, ReadPcs, IoctlPcs, FaultPcs, ShowPcs
  <2>2. node' \in [Reg -> NodeType]
    BY <1>17, FreeForm
  <2>3. RestType'
    BY <1>17, <1>a, Bounds DEF DeregisterFree, RestType, ThreadOf, ThType, RegisterPcs,
       RemovePcs, FaultPcs, StorePcs, ReadPcs, regVars, faultVars, modeVars
  <2> QED
    BY <2>1, <2>2, <2>3
<1>18. ASSUME NEW t \in Thread, DeregisterMisuse(t)
      PROVE  RestType' /\ node' \in [Reg -> NodeType] /\ th' \in [Thread -> ThType]
                 /\ \A u \in Thread : ThreadOf(th'[u])
  <2>1. th' \in [Thread -> ThType] /\ \A u \in Thread : ThreadOf(th'[u])
    BY <1>18, <1>a, ReturnForm DEF DeregisterMisuse, Misuse, ThreadOf, RegisterPcs,
       RemovePcs, StorePcs, ReadPcs, IoctlPcs, FaultPcs, ShowPcs
  <2>2. node' \in [Reg -> NodeType]
    BY <1>18, <1>a DEF DeregisterMisuse, Misuse
  <2>3. RestType'
    BY <1>18, <1>a, Bounds DEF DeregisterMisuse, Misuse, RestType, ThreadOf, ThType,
       RegisterPcs, RemovePcs, FaultPcs, StorePcs, ReadPcs, regVars, faultVars, modeVars
  <2> QED
    BY <2>1, <2>2, <2>3
<1>19. ASSUME NEW t \in Thread, FaultWalk(t)
      PROVE  RestType' /\ node' \in [Reg -> NodeType] /\ th' \in [Thread -> ThType]
                 /\ \A u \in Thread : ThreadOf(th'[u])
  <2>1. th' \in [Thread -> ThType] /\ \A u \in Thread : ThreadOf(th'[u])
    <3>1. Visit(t, next[th[t].at]) /\ next[th[t].at] \in 0 .. MaxReg
      BY <1>19, <1>c, <1>d DEF FaultWalk
    <3>2. /\ th' \in [Thread -> ThType] /\ \A u \in Thread : u # t => th'[u] = th[u]
          /\ th'[t].dev = th[t].dev /\ th'[t].reg = th[t].reg /\ th'[t].fsr = th[t].fsr
          /\ th'[t].pc = th[t].pc /\ th'[t].at = next[th[t].at]
      BY <1>a, <3>1, VisitForm
    <3>3. ThreadOf(th'[t])
      BY <1>19, <1>a, <1>d, <3>2, Bounds DEF FaultWalk, ThreadOf, RegisterPcs, RemovePcs,
         StorePcs, ReadPcs, IoctlPcs, FaultPcs, ShowPcs
    <3> QED
      BY <1>a, <3>2, <3>3
  <2>2. node' \in [Reg -> NodeType]
    BY <1>19, <1>a DEF FaultWalk
  <2>3. RestType'
    BY <1>19, <1>a, Bounds DEF FaultWalk, RestType, ThreadOf, ThType, RegisterPcs,
       RemovePcs, FaultPcs, StorePcs, ReadPcs, regVars, faultVars, modeVars
  <2> QED
    BY <2>1, <2>2, <2>3
<1>20. ASSUME NEW t \in Thread, FaultEnd(t)
      PROVE  RestType' /\ node' \in [Reg -> NodeType] /\ th' \in [Thread -> ThType]
                 /\ \A u \in Thread : ThreadOf(th'[u])
  <2>1. th' \in [Thread -> ThType] /\ \A u \in Thread : ThreadOf(th'[u])
    BY <1>20, <1>a, ReturnForm DEF FaultEnd, ThreadOf, RegisterPcs, RemovePcs, StorePcs,
       ReadPcs, IoctlPcs, FaultPcs, ShowPcs
  <2>2. node' \in [Reg -> NodeType]
    BY <1>20, <1>a DEF FaultEnd
  <2>3. RestType'
    BY <1>20, <1>a, Bounds DEF FaultEnd, RestType, ThreadOf, ThType, RegisterPcs, RemovePcs,
       FaultPcs, StorePcs, ReadPcs, regVars, faultVars, modeVars
  <2> QED
    BY <2>1, <2>2, <2>3
<1>21. ASSUME NEW t \in Thread, FaultMatch(t)
      PROVE  RestType' /\ node' \in [Reg -> NodeType] /\ th' \in [Thread -> ThType]
                 /\ \A u \in Thread : ThreadOf(th'[u])
  <2>1. th' \in [Thread -> ThType] /\ \A u \in Thread : ThreadOf(th'[u])
    <3>1. Goto(t, "fsr") /\ "fsr" \in AllPcs
      BY <1>21 DEF FaultMatch, AllPcs, IoctlPcs, FaultPcs, ShowPcs
    <3>2. /\ th' \in [Thread -> ThType] /\ \A u \in Thread : u # t => th'[u] = th[u]
          /\ th'[t].dev = th[t].dev /\ th'[t].reg = th[t].reg /\ th'[t].fsr = th[t].fsr
          /\ th'[t].pc = "fsr" /\ th'[t].at = th[t].at
      BY <1>a, <3>1, GotoForm
    <3>3. ThreadOf(th'[t])
      BY <1>21, <1>a, <1>d, <3>2, Bounds DEF FaultMatch, ThreadOf, RegisterPcs, RemovePcs,
         StorePcs, ReadPcs, IoctlPcs, FaultPcs, ShowPcs
    <3> QED
      BY <1>a, <3>2, <3>3
  <2>2. node' \in [Reg -> NodeType]
    BY <1>21, <1>a DEF FaultMatch
  <2>3. RestType'
    BY <1>21, <1>a, Bounds DEF FaultMatch, RestType, ThreadOf, ThType, RegisterPcs,
       RemovePcs, FaultPcs, StorePcs, ReadPcs, regVars, faultVars, modeVars
  <2> QED
    BY <2>1, <2>2, <2>3
<1>22. ASSUME NEW t \in Thread, FaultFsr(t)
      PROVE  RestType' /\ node' \in [Reg -> NodeType] /\ th' \in [Thread -> ThType]
                 /\ \A u \in Thread : ThreadOf(th'[u])
  <2>1. th' \in [Thread -> ThType] /\ \A u \in Thread : ThreadOf(th'[u])
    <3>1. Goto(t, "iova") /\ "iova" \in AllPcs
      BY <1>22 DEF FaultFsr, AllPcs, IoctlPcs, FaultPcs, ShowPcs
    <3>2. /\ th' \in [Thread -> ThType] /\ \A u \in Thread : u # t => th'[u] = th[u]
          /\ th'[t].dev = th[t].dev /\ th'[t].reg = th[t].reg /\ th'[t].fsr = th[t].fsr
          /\ th'[t].pc = "iova" /\ th'[t].at = th[t].at
      BY <1>a, <3>1, GotoForm
    <3>3. ThreadOf(th'[t])
      BY <1>22, <1>a, <1>d, <3>2, Bounds DEF FaultFsr, ThreadOf, RegisterPcs, RemovePcs,
         StorePcs, ReadPcs, IoctlPcs, FaultPcs, ShowPcs
    <3> QED
      BY <1>a, <3>2, <3>3
  <2>2. node' \in [Reg -> NodeType]
    BY <1>22, StoreFsrForm
  <2>3. RestType'
    BY <1>22, <1>a, Bounds DEF FaultFsr, RestType, ThreadOf, ThType, RegisterPcs, RemovePcs,
       FaultPcs, StorePcs, ReadPcs, regVars, faultVars, modeVars
  <2> QED
    BY <2>1, <2>2, <2>3
<1>23. ASSUME NEW t \in Thread, FaultIova(t)
      PROVE  RestType' /\ node' \in [Reg -> NodeType] /\ th' \in [Thread -> ThType]
                 /\ \A u \in Thread : ThreadOf(th'[u])
  <2>1. th' \in [Thread -> ThType] /\ \A u \in Thread : ThreadOf(th'[u])
    <3>1. Goto(t, "flag") /\ "flag" \in AllPcs
      BY <1>23 DEF FaultIova, AllPcs, IoctlPcs, FaultPcs, ShowPcs
    <3>2. /\ th' \in [Thread -> ThType] /\ \A u \in Thread : u # t => th'[u] = th[u]
          /\ th'[t].dev = th[t].dev /\ th'[t].reg = th[t].reg /\ th'[t].fsr = th[t].fsr
          /\ th'[t].pc = "flag" /\ th'[t].at = th[t].at
      BY <1>a, <3>1, GotoForm
    <3>3. ThreadOf(th'[t])
      BY <1>23, <1>a, <1>d, <3>2, Bounds DEF FaultIova, ThreadOf, RegisterPcs, RemovePcs,
         StorePcs, ReadPcs, IoctlPcs, FaultPcs, ShowPcs
    <3> QED
      BY <1>a, <3>2, <3>3
  <2>2. node' \in [Reg -> NodeType]
    BY <1>23, StoreIovaForm
  <2>3. RestType'
    BY <1>23, <1>a, Bounds DEF FaultIova, RestType, ThreadOf, ThType, RegisterPcs,
       RemovePcs, FaultPcs, StorePcs, ReadPcs, regVars, faultVars, modeVars
  <2> QED
    BY <2>1, <2>2, <2>3
<1>24. ASSUME NEW t \in Thread, FaultFlag(t)
      PROVE  RestType' /\ node' \in [Reg -> NodeType] /\ th' \in [Thread -> ThType]
                 /\ \A u \in Thread : ThreadOf(th'[u])
  <2>1. th' \in [Thread -> ThType] /\ \A u \in Thread : ThreadOf(th'[u])
    BY <1>24, <1>a, ReturnForm DEF FaultFlag, ThreadOf, RegisterPcs, RemovePcs, StorePcs,
       ReadPcs, IoctlPcs, FaultPcs, ShowPcs
  <2>2. node' \in [Reg -> NodeType]
    BY <1>24, StoreFlagForm
  <2>3. RestType'
    <3>1. th[t].fsr \in 1 .. MaxFault /\ th[t].dev \in Dev /\ th[t].at \in Reg
      BY <1>24, <1>a DEF FaultFlag, ThreadOf, FaultPcs, StorePcs
    <3>2. <<th[t].fsr, th[t].dev, th[t].at>> \in (1 .. MaxFault) \X Dev \X Reg
      BY <3>1
    <3>3. recorded' \subseteq (1 .. MaxFault) \X Dev \X Reg
      BY <1>24, <1>a, <3>2 DEF FaultFlag, RestType
    <3> QED
      BY <1>24, <1>a, <3>3 DEF FaultFlag, RestType, regVars, modeVars
  <2> QED
    BY <2>1, <2>2, <2>3
<1>25. ASSUME NEW t \in Thread, FaultMisuse(t)
      PROVE  RestType' /\ node' \in [Reg -> NodeType] /\ th' \in [Thread -> ThType]
                 /\ \A u \in Thread : ThreadOf(th'[u])
  <2>1. th' \in [Thread -> ThType] /\ \A u \in Thread : ThreadOf(th'[u])
    BY <1>25, <1>a, ReturnForm DEF FaultMisuse, Misuse, ThreadOf, RegisterPcs, RemovePcs,
       StorePcs, ReadPcs, IoctlPcs, FaultPcs, ShowPcs
  <2>2. node' \in [Reg -> NodeType]
    BY <1>25, <1>a DEF FaultMisuse, Misuse
  <2>3. RestType'
    BY <1>25, <1>a, Bounds DEF FaultMisuse, Misuse, RestType, ThreadOf, ThType, RegisterPcs,
       RemovePcs, FaultPcs, StorePcs, ReadPcs, regVars, faultVars, modeVars
  <2> QED
    BY <2>1, <2>2, <2>3
<1>26. ASSUME NEW t \in Thread, NEW k \in Reg, Show(t, k)
      PROVE  RestType' /\ node' \in [Reg -> NodeType] /\ th' \in [Thread -> ThType]
                 /\ \A u \in Thread : ThreadOf(th'[u])
  <2>1. th' \in [Thread -> ThType] /\ \A u \in Thread : ThreadOf(th'[u])
    <3>1. ThreadOf(th'[t])
      BY <1>26, <1>a, ShowForm DEF Show, ThreadOf, RegisterPcs, RemovePcs, StorePcs,
         ReadPcs, IoctlPcs, FaultPcs, ShowPcs
    <3> QED
      BY <1>26, <1>a, <3>1, ShowForm
  <2>2. node' \in [Reg -> NodeType]
    BY <1>26, <1>a DEF Show
  <2>3. RestType'
    BY <1>26, <1>a, Bounds DEF Show, RestType, ThreadOf, ThType, RegisterPcs, RemovePcs,
       FaultPcs, StorePcs, ReadPcs, regVars, faultVars, modeVars
  <2> QED
    BY <2>1, <2>2, <2>3
<1>27. ASSUME NEW t \in Thread, ShowWalk(t)
      PROVE  RestType' /\ node' \in [Reg -> NodeType] /\ th' \in [Thread -> ThType]
                 /\ \A u \in Thread : ThreadOf(th'[u])
  <2>1. th' \in [Thread -> ThType] /\ \A u \in Thread : ThreadOf(th'[u])
    <3>1. CASE Name(node[th[t].at].obj) = Name(th[t].reg)
      <4>1. Goto(t, "readFsr") /\ "readFsr" \in AllPcs
        BY <1>27, <3>1 DEF ShowWalk, AllPcs, ShowPcs
      <4>2. ThreadOf(th'[t])
        BY <1>27, <1>a, <1>d, <4>1, GotoForm, Bounds DEF ShowWalk, ThreadOf, RegisterPcs,
           RemovePcs, StorePcs, ReadPcs, IoctlPcs, FaultPcs, ShowPcs
      <4> QED
        BY <1>a, <4>1, <4>2, GotoForm
    <3>2. CASE Name(node[th[t].at].obj) # Name(th[t].reg)
      <4>1. Visit(t, next[th[t].at]) /\ next[th[t].at] \in 0 .. MaxReg
        BY <1>27, <1>c, <1>d, <3>2 DEF ShowWalk
      <4>2. ThreadOf(th'[t])
        BY <1>27, <1>a, <4>1, VisitForm DEF ShowWalk, ThreadOf, RegisterPcs, RemovePcs,
           StorePcs, ReadPcs, IoctlPcs, FaultPcs, ShowPcs
      <4> QED
        BY <1>a, <4>1, <4>2, VisitForm
    <3> QED
      BY <3>1, <3>2
  <2>2. node' \in [Reg -> NodeType]
    BY <1>27, <1>a DEF ShowWalk
  <2>3. RestType'
    BY <1>27, <1>a, Bounds DEF ShowWalk, RestType, ThreadOf, ThType, RegisterPcs, RemovePcs,
       FaultPcs, StorePcs, ReadPcs, regVars, faultVars, modeVars
  <2> QED
    BY <2>1, <2>2, <2>3
<1>28. ASSUME NEW t \in Thread, ShowEnd(t)
      PROVE  RestType' /\ node' \in [Reg -> NodeType] /\ th' \in [Thread -> ThType]
                 /\ \A u \in Thread : ThreadOf(th'[u])
  <2>1. th' \in [Thread -> ThType] /\ \A u \in Thread : ThreadOf(th'[u])
    BY <1>28, <1>a, ReturnForm DEF ShowEnd, ThreadOf, RegisterPcs, RemovePcs, StorePcs,
       ReadPcs, IoctlPcs, FaultPcs, ShowPcs
  <2>2. node' \in [Reg -> NodeType]
    BY <1>28, <1>a DEF ShowEnd
  <2>3. RestType'
    <3>1. <<0, 0>> \in (0 .. MaxFault) \X (0 .. MaxFault)
      BY Bounds
    <3>2. returned' \subseteq (0 .. MaxFault) \X (0 .. MaxFault)
      BY <1>28, <1>a, <3>1 DEF ShowEnd, RestType
    <3> QED
      BY <1>28, <1>a, <3>2 DEF ShowEnd, RestType, regVars, modeVars
  <2> QED
    BY <2>1, <2>2, <2>3
<1>29. ASSUME NEW t \in Thread, ShowFsr(t)
      PROVE  RestType' /\ node' \in [Reg -> NodeType] /\ th' \in [Thread -> ThType]
                 /\ \A u \in Thread : ThreadOf(th'[u])
  <2>1. th' \in [Thread -> ThType] /\ \A u \in Thread : ThreadOf(th'[u])
    <3>1. ThreadOf(th'[t])
      BY <1>29, <1>a, TakeFsrForm DEF ShowFsr, ThreadOf, RegisterPcs, RemovePcs, StorePcs,
         ReadPcs, IoctlPcs, FaultPcs, ShowPcs
    <3> QED
      BY <1>29, <1>a, <3>1, TakeFsrForm
  <2>2. node' \in [Reg -> NodeType]
    BY <1>29, <1>a DEF ShowFsr
  <2>3. RestType'
    BY <1>29, <1>a, Bounds DEF ShowFsr, RestType, ThreadOf, ThType, RegisterPcs, RemovePcs,
       FaultPcs, StorePcs, ReadPcs, regVars, faultVars, modeVars
  <2> QED
    BY <2>1, <2>2, <2>3
<1>30. ASSUME NEW t \in Thread, ShowIova(t)
      PROVE  RestType' /\ node' \in [Reg -> NodeType] /\ th' \in [Thread -> ThType]
                 /\ \A u \in Thread : ThreadOf(th'[u])
  <2>1. th' \in [Thread -> ThType] /\ \A u \in Thread : ThreadOf(th'[u])
    <3>1. ThreadOf(th'[t])
      BY <1>30, <1>a, TakeIovaForm DEF ShowIova, ThreadOf, RegisterPcs, RemovePcs, StorePcs,
         ReadPcs, IoctlPcs, FaultPcs, ShowPcs
    <3> QED
      BY <1>30, <1>a, <3>1, TakeIovaForm
  <2>2. node' \in [Reg -> NodeType]
    BY <1>30, <1>a DEF ShowIova
  <2>3. RestType'
    BY <1>30, <1>a, Bounds DEF ShowIova, RestType, ThreadOf, ThType, RegisterPcs, RemovePcs,
       FaultPcs, StorePcs, ReadPcs, regVars, faultVars, modeVars
  <2> QED
    BY <2>1, <2>2, <2>3
<1>31. ASSUME NEW t \in Thread, ShowClear(t)
      PROVE  RestType' /\ node' \in [Reg -> NodeType] /\ th' \in [Thread -> ThType]
                 /\ \A u \in Thread : ThreadOf(th'[u])
  <2>1. th' \in [Thread -> ThType] /\ \A u \in Thread : ThreadOf(th'[u])
    <3>1. Goto(t, "unflag") /\ "unflag" \in AllPcs
      BY <1>31 DEF ShowClear, AllPcs, IoctlPcs, FaultPcs, ShowPcs
    <3>2. /\ th' \in [Thread -> ThType] /\ \A u \in Thread : u # t => th'[u] = th[u]
          /\ th'[t].dev = th[t].dev /\ th'[t].reg = th[t].reg /\ th'[t].fsr = th[t].fsr
          /\ th'[t].pc = "unflag" /\ th'[t].at = th[t].at
      BY <1>a, <3>1, GotoForm
    <3>3. ThreadOf(th'[t])
      BY <1>31, <1>a, <1>d, <3>2, Bounds DEF ShowClear, ThreadOf, RegisterPcs, RemovePcs,
         StorePcs, ReadPcs, IoctlPcs, FaultPcs, ShowPcs
    <3> QED
      BY <1>a, <3>2, <3>3
  <2>2. node' \in [Reg -> NodeType]
    BY <1>31, ClearForm
  <2>3. RestType'
    BY <1>31, <1>a, Bounds DEF ShowClear, RestType, ThreadOf, ThType, RegisterPcs,
       RemovePcs, FaultPcs, StorePcs, ReadPcs, regVars, faultVars, modeVars
  <2> QED
    BY <2>1, <2>2, <2>3
<1>32. ASSUME NEW t \in Thread, ShowFlag(t)
      PROVE  RestType' /\ node' \in [Reg -> NodeType] /\ th' \in [Thread -> ThType]
                 /\ \A u \in Thread : ThreadOf(th'[u])
  <2>1. th' \in [Thread -> ThType] /\ \A u \in Thread : ThreadOf(th'[u])
    BY <1>32, <1>a, ReturnForm DEF ShowFlag, ThreadOf, RegisterPcs, RemovePcs, StorePcs,
       ReadPcs, IoctlPcs, FaultPcs, ShowPcs
  <2>2. node' \in [Reg -> NodeType]
    BY <1>32, UnflagForm
  <2>3. RestType'
    <3>1. <<th[t].fsr, th[t].iova>> \in (0 .. MaxFault) \X (0 .. MaxFault)
      BY <1>a DEF ThType
    <3>2. returned' \subseteq (0 .. MaxFault) \X (0 .. MaxFault)
      BY <1>32, <1>a, <3>1 DEF ShowFlag, RestType
    <3> QED
      BY <1>32, <1>a, <3>2 DEF ShowFlag, RestType, regVars, modeVars
  <2> QED
    BY <2>1, <2>2, <2>3
<1>33. ASSUME NEW t \in Thread, ShowMisuse(t)
      PROVE  RestType' /\ node' \in [Reg -> NodeType] /\ th' \in [Thread -> ThType]
                 /\ \A u \in Thread : ThreadOf(th'[u])
  <2>1. th' \in [Thread -> ThType] /\ \A u \in Thread : ThreadOf(th'[u])
    BY <1>33, <1>a, ReturnForm DEF ShowMisuse, Misuse, ThreadOf, RegisterPcs, RemovePcs,
       StorePcs, ReadPcs, IoctlPcs, FaultPcs, ShowPcs
  <2>2. node' \in [Reg -> NodeType]
    BY <1>33, <1>a DEF ShowMisuse, Misuse
  <2>3. RestType'
    BY <1>33, <1>a, Bounds DEF ShowMisuse, Misuse, RestType, ThreadOf, ThType, RegisterPcs,
       RemovePcs, FaultPcs, StorePcs, ReadPcs, regVars, faultVars, modeVars
  <2> QED
    BY <2>1, <2>2, <2>3
<1> QED
  BY <1>1, <1>2, <1>3, <1>4, <1>5, <1>6, <1>7, <1>8, <1>9, <1>10, <1>11, <1>12, <1>13,
     <1>14, <1>15, <1>16, <1>17, <1>18, <1>19, <1>20, <1>21, <1>22, <1>23, <1>24, <1>25,
     <1>26, <1>27, <1>28, <1>29, <1>30, <1>31, <1>32, <1>33 DEF Next

-----------------------------------------------------------------------------
(* The cycle of successors *)

\* Appending a node behind the last one keeps the cycle.
LEMMA CycleAppend ==
    ASSUME TypeInv, CycleInv, NEW a \in Chain, next[a] = 0, NEW k \in Reg, k \notin InList, next[k] = 0,
           next' = [next EXCEPT ![a] = k], InList' = InList \cup {k}, InList \subseteq Reg
    PROVE  CycleInv'
<1>0. Reg \subseteq 0 .. MaxReg /\ 0 \in 0 .. MaxReg /\ 0 \notin Reg
  BY Bounds
<1>a. /\ next \in [0 .. MaxReg -> 0 .. MaxReg] /\ Chain \subseteq 0 .. MaxReg
      /\ k \in 0 .. MaxReg /\ k # 0
  BY TypeForm, <1>0 DEF RestType, Chain
<1>b. Chain' = Chain \cup {k} /\ k \notin Chain
  BY <1>a DEF Chain
<1>c. /\ next'[a] = k /\ \A n \in 0 .. MaxReg : n # a => next'[n] = next[n]
  BY <1>a
<1>d. next'[k] = 0
  BY <1>a, <1>b, <1>c
<1>1. \A n \in Chain' : next'[n] \in Chain'
  BY <1>a, <1>b, <1>c, <1>d DEF CycleInv, Chain
<1>2. ASSUME NEW m \in Chain', NEW n \in Chain', next'[m] = next'[n]
      PROVE  m = n
  <2>1. CASE m = a \/ n = a
    BY <1>2, <1>a, <1>b, <1>c, <1>d, <2>1 DEF CycleInv
  <2>2. CASE m # a /\ n # a
    BY <1>2, <1>a, <1>b, <1>c, <1>d, <2>2 DEF CycleInv
  <2> QED
    BY <2>1, <2>2
<1>3. ASSUME NEW S \in SUBSET (0 .. MaxReg), 0 \in S, \A n \in S : next'[n] \in S
      PROVE  InList' \subseteq S
  <2>1. \A n \in S : next[n] \in S
    BY <1>3, <1>a, <1>c
  <2>2. InList \subseteq S
    BY <1>3, <2>1 DEF CycleInv
  <2>3. a \in S
    BY <1>3, <2>2 DEF Chain
  <2> QED
    BY <1>3, <1>c, <2>2, <2>3
<1> QED
  BY <1>1, <1>2, <1>3 DEF CycleInv

\* Taking a node out of it does, too: no node is its own successor.
LEMMA CycleUnlink ==
    ASSUME TypeInv, CycleInv, NEW a \in InList, NEW p \in Chain, next[p] = a,
           next' = [next EXCEPT ![p] = next[a], ![a] = 0], InList' = InList \ {a}, InList \subseteq Reg
    PROVE  CycleInv' /\ p # a /\ next'[a] = 0
<1>a. /\ next \in [0 .. MaxReg -> 0 .. MaxReg] /\ Chain \subseteq 0 .. MaxReg
      /\ a \in 0 .. MaxReg /\ a # 0 /\ a \in Chain
  BY TypeForm, Bounds DEF RestType, Chain
<1>b. Chain' = Chain \ {a}
  BY <1>a DEF Chain
<1>c. ASSUME p = a PROVE FALSE
  <2>1. \A n \in Chain \ {a} : next[n] \in Chain \ {a}
    BY <1>a, <1>c DEF CycleInv
  <2>2. Chain \ {a} \in SUBSET (0 .. MaxReg) /\ 0 \in Chain \ {a}
    BY <1>a DEF Chain
  <2> QED
    BY <2>1, <2>2 DEF CycleInv
<1>d. /\ next'[p] = next[a] /\ next'[a] = 0
      /\ \A n \in 0 .. MaxReg : n # p /\ n # a => next'[n] = next[n]
  BY <1>a, <1>c
<1>e. next[a] # a
  BY <1>a, <1>c DEF CycleInv
<1>1. ASSUME NEW n \in Chain' PROVE next'[n] \in Chain'
  <2>1. CASE n = p
    BY <1>a, <1>b, <1>d, <1>e, <2>1 DEF CycleInv
  <2>2. CASE n # p
    BY <1>a, <1>b, <1>d, <2>2 DEF CycleInv
  <2> QED
    BY <2>1, <2>2
<1>2. ASSUME NEW m \in Chain', NEW n \in Chain', next'[m] = next'[n]
      PROVE  m = n
  BY <1>2, <1>a, <1>b, <1>d DEF CycleInv
<1>3. ASSUME NEW S \in SUBSET (0 .. MaxReg), 0 \in S, \A n \in S : next'[n] \in S
      PROVE  InList' \subseteq S
  <2>1. ASSUME p \notin S PROVE FALSE
    <3>1. \A n \in (S \cap Chain) \ {a} : next[n] \in (S \cap Chain) \ {a}
      BY <1>3, <1>a, <1>d, <2>1 DEF CycleInv
    <3>2. (S \cap Chain) \ {a} \in SUBSET (0 .. MaxReg) /\ 0 \in (S \cap Chain) \ {a}
      BY <1>3, <1>a DEF Chain
    <3> QED
      BY <1>a, <3>1, <3>2 DEF CycleInv
  <2>2. \A n \in S \cup {a} : next[n] \in S \cup {a}
    BY <1>3, <1>a, <1>d, <2>1
  <2>3. S \cup {a} \in SUBSET (0 .. MaxReg) /\ 0 \in S \cup {a}
    BY <1>3, <1>a
  <2>4. InList \subseteq S \cup {a}
    BY <2>2, <2>3 DEF CycleInv
  <2> QED
    BY <2>4
<1> QED
  BY <1>1, <1>2, <1>3, <1>c, <1>d DEF CycleInv

\* What a walk from head meets is what the list holds.
LEMMA ListedForm == ASSUME TypeInv, CycleInv, InList \subseteq Reg PROVE Listed = InList
<1>1. InList \subseteq Listed
  BY DEF CycleInv, Listed
<1>2. Chain \in SUBSET (0 .. MaxReg) /\ 0 \in Chain
  BY Bounds DEF Chain
<1>3. Listed \subseteq Chain
  BY <1>2 DEF CycleInv, Listed
<1>4. 0 \notin Listed
  BY Bounds DEF Listed
<1> QED
  BY <1>1, <1>3, <1>4 DEF Chain

-----------------------------------------------------------------------------
(* The list and the directories *)

\* With one call in progress the sets over calls have a member at most.
LEMMA SoleAt ==
    ASSUME NEW f, NEW t \in Thread, NEW pcs, \A u \in Thread : u # t => f[u].pc \notin pcs
    PROVE  {f[u].reg : u \in {v \in Thread : f[v].pc \in pcs}} = IF f[t].pc \in pcs THEN {f[t].reg} ELSE {}
  OBVIOUS

\* With one registration or removal at a time, the sets of calls under way are those
\* of one thread.
LEMMA SoleRemoving ==
    ASSUME NEW f, NEW t \in Thread, \A u \in Thread : u # t => f[u].pc \notin RemovePcs
    PROVE  {f[u].at : u \in {v \in Thread : f[v].pc \in {"put", "free"}}}
               = IF f[t].pc \in RemovePcs THEN {f[t].at} ELSE {}
  BY DEF RemovePcs

\* The same for the definitions of the module,
LEMMA SoleCall ==
    ASSUME NEW t \in Thread, \A u \in Thread : u # t => th[u].pc \notin IoctlPcs
    PROVE  /\ At({"handler"}) = IF th[t].pc = "handler" THEN {th[t].reg} ELSE {}
           /\ At(RegisterPcs) = IF th[t].pc \in RegisterPcs THEN {th[t].reg} ELSE {}
           /\ Removing = IF th[t].pc \in RemovePcs THEN {th[t].at} ELSE {}
<1>1. \A u \in Thread : u # t => th[u].pc \notin {"handler"} /\ th[u].pc \notin RegisterPcs /\ th[u].pc \notin RemovePcs
  BY DEF IoctlPcs, RegisterPcs, RemovePcs
<1>2. At({"handler"}) = IF th[t].pc \in {"handler"} THEN {th[t].reg} ELSE {}
  BY <1>1, SoleAt DEF At
<1>3. At(RegisterPcs) = IF th[t].pc \in RegisterPcs THEN {th[t].reg} ELSE {}
  BY <1>1, SoleAt DEF At
<1>4. Removing = IF th[t].pc \in RemovePcs THEN {th[t].at} ELSE {}
  BY <1>1, SoleRemoving DEF Removing
<1> QED
  BY <1>2, <1>3, <1>4

\* and in the next state.
LEMMA SoleCallNext ==
    ASSUME NEW t \in Thread, \A u \in Thread : u # t => th'[u].pc \notin IoctlPcs
    PROVE  /\ At({"handler"})' = IF th'[t].pc = "handler" THEN {th'[t].reg} ELSE {}
           /\ At(RegisterPcs)' = IF th'[t].pc \in RegisterPcs THEN {th'[t].reg} ELSE {}
           /\ Removing' = IF th'[t].pc \in RemovePcs THEN {th'[t].at} ELSE {}
<1>1. \A u \in Thread : u # t => th'[u].pc \notin {"handler"} /\ th'[u].pc \notin RegisterPcs /\ th'[u].pc \notin RemovePcs
  BY DEF IoctlPcs, RegisterPcs, RemovePcs
<1>2. At({"handler"})' = IF th'[t].pc \in {"handler"} THEN {th'[t].reg} ELSE {}
  BY <1>1, SoleAt DEF At
<1>3. At(RegisterPcs)' = IF th'[t].pc \in RegisterPcs THEN {th'[t].reg} ELSE {}
  BY <1>1, SoleAt DEF At
<1>4. Removing' = IF th'[t].pc \in RemovePcs THEN {th'[t].at} ELSE {}
  BY <1>1, SoleRemoving DEF Removing
<1> QED
  BY <1>2, <1>3, <1>4


\* A step that leaves the list, the directories and the calls alone keeps it all.
LEMMA ListQuiet ==
    ASSUME TypeInv, TypeInv', ListIInv,
           UNCHANGED <<careful, regs, dev, kobj, next, device_obj, failed, listed>>,
           \A n \in Reg : node'[n].mem = node[n].mem /\ node'[n].obj = node[n].obj,
           \A u \in Thread : \/ th[u].pc \notin IoctlPcs /\ th'[u].pc \notin IoctlPcs
                             \/ th'[u] = th[u]
    PROVE  ListIInv'
<1>1. SUFFICES ASSUME careful
               PROVE  OneCall' /\ NumberInv' /\ OneName' /\ CycleInv' /\ CallInv' /\ KobjAccounted'
  BY DEF ListIInv
<1>2. OneCall /\ NumberInv /\ OneName /\ CycleInv /\ CallInv /\ KobjAccounted
  BY <1>1 DEF ListIInv
<1>3. /\ At({"handler"})' = At({"handler"}) /\ At(RegisterPcs)' = At(RegisterPcs)
      /\ Removing' = Removing
  BY DEF At, Removing, RegisterPcs, IoctlPcs
<1>4. InList' = InList /\ Chain' = Chain
  BY <1>3 DEF InList, Chain
<1>5. OneCall'
  BY <1>2 DEF OneCall
<1>6. NumberInv'
  <2>1. ASSUME NEW u \in Thread, th[u].pc = "free" PROVE th'[u] = th[u]
    BY <2>1 DEF IoctlPcs
  <2> QED
    BY <1>2, <1>4, <2>1 DEF NumberInv, NumberOf
<1>7. OneName'
  BY <1>2 DEF OneName
<1>8. CycleInv'
  BY <1>2, <1>4 DEF CycleInv
<1>9. CallInv'
  <2> SUFFICES ASSUME NEW u \in Thread PROVE RegisterOf(th[u])' /\ RemoveOf(th[u])'
    BY DEF CallInv
  <2>1. CASE th'[u].pc \notin IoctlPcs
    BY <2>1 DEF RegisterOf, RemoveOf, RegisterPcs, RemovePcs, IoctlPcs
  <2>2. CASE th'[u] = th[u]
    <3>1. RegisterOf(th[u]) /\ RemoveOf(th[u])
      BY <1>2 DEF CallInv
    <3>2. th'[u].pc \in RegisterPcs => th'[u].reg \in Reg
      BY <2>2, TypeForm DEF ThreadOf
    <3>3. th'[u].pc \in RemovePcs => th'[u].at \in Reg
      BY <2>2, TypeForm DEF ThreadOf
    <3> QED
      BY <1>4, <2>2, <3>1, <3>2, <3>3 DEF RegisterOf, RemoveOf
  <2> QED
    BY <2>1, <2>2
<1>10. KobjAccounted'
  BY <1>1, <1>2, <1>3 DEF KobjAccounted, RegisterPcs
<1> QED
  BY <1>5, <1>6, <1>7, <1>8, <1>9, <1>10


\* A new directory gets the next number.
LEMMA RegisterKobjKept ==
    ASSUME TypeInv, TypeInv', ListIInv, careful, NEW t \in Thread, NEW d \in Dev, RegisterKobj(t, d)
    PROVE  ListIInv'
<1>a. OneCall /\ NumberInv /\ OneName /\ CycleInv /\ CallInv /\ KobjAccounted
  BY DEF ListIInv
<1>b. /\ RestType /\ node \in [Reg -> NodeType] /\ th \in [Thread -> ThType]
      /\ ThreadOf(th[t]) /\ th[t] \in ThType
  BY TypeForm
<1>c. \A u \in Thread : u # t => th[u].pc \notin IoctlPcs
  BY <1>a DEF RegisterKobj, CanIoctl
<1>d. /\ \A u \in Thread : u # t => th'[u] = th[u]
      /\ th'[t].pc = "file" /\ th'[t].dev = d /\ th'[t].reg = regs' /\ th'[t].at = 0 /\ th'[t].prev = 0
  BY KobjForm, TypeForm
<1>e. /\ At({"handler"}) = {} /\ At(RegisterPcs) = {} /\ Removing = {}
      /\ At({"handler"})' = {} /\ At(RegisterPcs)' = {regs'} /\ Removing' = {}
  <2>1. \A u \in Thread : u # t => th'[u].pc \notin IoctlPcs
    BY <1>c, <1>d
  <2> QED
    BY <1>c, <1>d, <2>1, SoleCall, SoleCallNext DEF RegisterKobj, CanIoctl, CanStart,
       RegisterPcs, RemovePcs
<1>f. InList' = InList /\ Chain' = InList' \cup {0} /\ InList \subseteq Reg
  BY <1>b, <1>e DEF RegisterKobj, InList, Chain, RestType, ThreadOf, RegisterPcs, modeVars
<1>g. th[t].pc \in IoctlPcs => RegisterOf(th[t]) /\ RemoveOf(th[t])
  BY <1>a DEF CallInv
<1>h. /\ regs' = regs + 1 /\ regs' \in Reg /\ dev'[regs'] = d /\ kobj'[regs'] = "bare"
      /\ \A n \in Reg : n # regs' => dev'[n] = dev[n] /\ kobj'[n] = kobj[n]
  BY <1>b, Bounds DEF RegisterKobj, Bound, RestType
<1>i. kobj[regs'] = "none" /\ regs' \notin failed \cup listed /\ node[regs'].mem = "none"
  <2>1. NumberOf(regs') /\ regs' > regs
    BY <1>a, <1>b, <1>h DEF NumberInv, RestType
  <2>2. node[regs'].mem \in {"none", "live", "freed"}
    BY <1>b, <1>h DEF NodeType
  <2> QED
    BY <2>1, <2>2 DEF NumberOf
<1>j. /\ UNCHANGED <<node, next, failed, listed, careful>> /\ device_obj' = regs'
      /\ \A n \in Reg : ~(kobj[n] \in {"bare", "live"} /\ dev[n] = d)
  BY DEF RegisterKobj, Exists, modeVars
<1>1. OneCall'
  BY <1>c, <1>d DEF OneCall
<1>2. NumberInv'
  <2> SUFFICES ASSUME NEW n \in Reg PROVE NumberOf(n)'
    BY DEF NumberInv
  <2>1. NumberOf(n)
    BY <1>a DEF NumberInv
  <2>2. th[t].pc # "free" => ~(node[n].mem = "live" /\ kobj[n] = "put")
    BY <1>c, <2>1 DEF NumberOf, IoctlPcs
  <2> QED
    <3>1. CASE n = regs'
      BY <1>b, <1>f, <1>h, <1>i, <1>j, <2>1, <3>1 DEF NumberOf, RestType
    <3>2. CASE n # regs'
      <4>1. th[t].pc # "free"
        BY DEF RegisterKobj, CanIoctl, CanStart
      <4>2. n > regs' => n > regs
        BY <1>b, <1>h DEF RestType, Reg
      <4>3. n <= regs' => n <= regs
        BY <1>b, <1>h, <3>2 DEF RestType, Reg
      <4> QED
        BY <1>f, <1>h, <1>j, <2>1, <2>2, <3>2, <4>1, <4>2, <4>3 DEF NumberOf
    <3> QED
      BY <3>1, <3>2
<1>3. OneName'
  <2> SUFFICES ASSUME NEW m \in Reg, NEW n \in Reg, kobj'[m] \in {"bare", "live"},
                      kobj'[n] \in {"bare", "live"}, dev'[m] = dev'[n]
               PROVE  m = n
    BY DEF OneName
  <2> QED
    BY <1>a, <1>h, <1>j DEF OneName
<1>4. CycleInv'
  BY <1>a, <1>f DEF RegisterKobj, CycleInv, Chain
<1>5. CallInv'
  <2>1. ASSUME NEW u \in Thread, u # t PROVE RegisterOf(th[u])' /\ RemoveOf(th[u])'
    BY <1>c, <1>d, <2>1 DEF RegisterOf, RemoveOf, RegisterPcs, RemovePcs, IoctlPcs
  <2>2. RegisterOf(th[t])'
    <3>1. th'[t].reg = regs' /\ th'[t].dev = d /\ th'[t].at = 0 /\ th'[t].pc = "file"
      BY <1>d
    <3>2. 0 \in Chain'
      BY <1>f
    <3> QED
      BY <1>h, <1>i, <1>j, <3>1, <3>2 DEF RegisterOf
  <2>3. RemoveOf(th[t])'
    BY <1>a, <1>b, <1>d, <1>f, <1>g, Bounds DEF RegisterKobj, RemoveOf, RestType, RemovePcs,
       IoctlPcs, Chain, modeVars
  <2> QED
    BY <2>1, <2>2, <2>3 DEF CallInv
<1>6. KobjAccounted'
  <2>1. {n \in Reg : kobj'[n] \in {"bare", "live"}} = {n \in Reg : kobj[n] \in {"bare", "live"}} \cup {regs'}
    BY <1>h
  <2>2. {n \in Removing : kobj[n] = "put"} = {} /\ {n \in Removing' : kobj'[n] = "put"} = {}
    BY <1>e
  <2> QED
    BY <1>a, <1>e, <1>j, <2>1, <2>2 DEF KobjAccounted, RegisterPcs
<1> QED
  BY <1>1, <1>2, <1>3, <1>4, <1>5, <1>6 DEF ListIInv


\* A name that is taken is refused.
LEMMA RegisterExistsKept ==
    ASSUME TypeInv, TypeInv', ListIInv, careful, NEW t \in Thread, NEW d \in Dev, RegisterExists(t, d)
    PROVE  ListIInv'
<1>a. OneCall /\ NumberInv /\ OneName /\ CycleInv /\ CallInv /\ KobjAccounted
  BY DEF ListIInv
<1>b. /\ RestType /\ node \in [Reg -> NodeType] /\ th \in [Thread -> ThType]
      /\ ThreadOf(th[t]) /\ th[t] \in ThType
  BY TypeForm
<1>c. \A u \in Thread : u # t => th[u].pc \notin IoctlPcs
  BY <1>a DEF RegisterExists, CanIoctl
<1>d. /\ \A u \in Thread : u # t => th'[u] = th[u]
      /\ th'[t].pc = th[t].pc /\ th'[t].dev = th[t].dev /\ th'[t].reg = th[t].reg /\ th'[t].at = th[t].at /\ th'[t].prev = th[t].prev
  BY TypeForm DEF RegisterExists
<1>e. /\ At({"handler"}) = {} /\ At(RegisterPcs) = {} /\ Removing = {}
      /\ At({"handler"})' = {} /\ At(RegisterPcs)' = {} /\ Removing' = {}
  <2>1. \A u \in Thread : u # t => th'[u].pc \notin IoctlPcs
    BY <1>c, <1>d
  <2> QED
    BY <1>c, <1>d, <2>1, SoleCall, SoleCallNext DEF RegisterExists, CanIoctl, CanStart,
       RegisterPcs, RemovePcs
<1>f. InList' = InList /\ Chain' = InList' \cup {0} /\ InList \subseteq Reg
  BY <1>b, <1>e DEF RegisterExists, InList, Chain, RestType, ThreadOf, RegisterPcs, modeVars
<1>g. th[t].pc \in IoctlPcs => RegisterOf(th[t]) /\ RemoveOf(th[t])
  BY <1>a DEF CallInv
<1>1. OneCall'
  BY <1>c, <1>d DEF OneCall
<1>2. NumberInv'
  <2> SUFFICES ASSUME NEW n \in Reg PROVE NumberOf(n)'
    BY DEF NumberInv
  <2>1. NumberOf(n)
    BY <1>a DEF NumberInv
  <2>2. th[t].pc # "free" => ~(node[n].mem = "live" /\ kobj[n] = "put")
    BY <1>c, <2>1 DEF NumberOf, IoctlPcs
  <2> QED
    BY <1>b, <1>d, <1>f, <1>g, <2>1, <2>2, Bounds DEF RegisterExists, CanIoctl, CanStart,
       NumberOf, RegisterOf, RemoveOf, RestType, IoctlPcs, RegisterPcs, RemovePcs, modeVars
<1>3. OneName'
  BY <1>a DEF RegisterExists, OneName, modeVars
<1>4. CycleInv'
  BY <1>a, <1>f DEF RegisterExists, CycleInv, Chain
<1>5. CallInv'
  <2>1. ASSUME NEW u \in Thread, u # t PROVE RegisterOf(th[u])' /\ RemoveOf(th[u])'
    BY <1>c, <1>d, <2>1 DEF RegisterOf, RemoveOf, RegisterPcs, RemovePcs, IoctlPcs
  <2>2. RegisterOf(th[t])'
    BY <1>d DEF RegisterExists, CanIoctl, CanStart, RegisterOf, RegisterPcs
  <2>3. RemoveOf(th[t])'
    BY <1>a, <1>b, <1>d, <1>f, <1>g, Bounds DEF RegisterExists, RemoveOf, RestType,
       RemovePcs, IoctlPcs, Chain, modeVars
  <2> QED
    BY <2>1, <2>2, <2>3 DEF CallInv
<1>6. KobjAccounted'
  BY <1>a, <1>b, <1>e, <1>g, Bounds DEF RegisterExists, KobjAccounted, RegisterPcs,
     RegisterOf, RemoveOf, IoctlPcs, modeVars
<1> QED
  BY <1>1, <1>2, <1>3, <1>4, <1>5, <1>6 DEF ListIInv


\* The directory gets its file.
LEMMA RegisterFileKept ==
    ASSUME TypeInv, TypeInv', ListIInv, careful, NEW t \in Thread, RegisterFile(t)
    PROVE  ListIInv'
<1>a. OneCall /\ NumberInv /\ OneName /\ CycleInv /\ CallInv /\ KobjAccounted
  BY DEF ListIInv
<1>b. /\ RestType /\ node \in [Reg -> NodeType] /\ th \in [Thread -> ThType]
      /\ ThreadOf(th[t]) /\ th[t] \in ThType
  BY TypeForm
<1>c. \A u \in Thread : u # t => th[u].pc \notin IoctlPcs
  BY <1>a DEF RegisterFile, OneCall, IoctlPcs
<1>d. /\ \A u \in Thread : u # t => th'[u] = th[u]
      /\ th'[t].pc = "alloc" /\ th'[t].dev = th[t].dev /\ th'[t].reg = th[t].reg /\ th'[t].at = th[t].at /\ th'[t].prev = th[t].prev
  <2>1. Goto(t, "alloc") /\ "alloc" \in AllPcs
    BY DEF RegisterFile, AllPcs, IoctlPcs
  <2> QED
    BY <1>b, <2>1, GotoForm
<1>e. /\ At({"handler"}) = {} /\ At(RegisterPcs) = {th[t].reg} /\ Removing = {}
      /\ At({"handler"})' = {} /\ At(RegisterPcs)' = {th[t].reg} /\ Removing' = {}
  <2>1. \A u \in Thread : u # t => th'[u].pc \notin IoctlPcs
    BY <1>c, <1>d
  <2> QED
    BY <1>c, <1>d, <2>1, SoleCall, SoleCallNext DEF RegisterFile, RegisterPcs, RemovePcs
<1>f. InList' = InList /\ Chain' = InList' \cup {0} /\ InList \subseteq Reg
  BY <1>b, <1>e DEF RegisterFile, InList, Chain, RestType, ThreadOf, RegisterPcs, modeVars
<1>g. th[t].pc \in IoctlPcs => RegisterOf(th[t]) /\ RemoveOf(th[t])
  BY <1>a DEF CallInv
<1>1. OneCall'
  BY <1>c, <1>d DEF OneCall
<1>2. NumberInv'
  <2> SUFFICES ASSUME NEW n \in Reg PROVE NumberOf(n)'
    BY DEF NumberInv
  <2>1. NumberOf(n)
    BY <1>a DEF NumberInv
  <2>2. th[t].pc # "free" => ~(node[n].mem = "live" /\ kobj[n] = "put")
    BY <1>c, <2>1 DEF NumberOf, IoctlPcs
  <2> QED
    BY <1>b, <1>d, <1>f, <1>g, <2>1, <2>2, Bounds DEF RegisterFile, NumberOf, RegisterOf,
       RemoveOf, RestType, IoctlPcs, RegisterPcs, RemovePcs, modeVars
<1>3. OneName'
  BY <1>a DEF RegisterFile, OneName, modeVars
<1>4. CycleInv'
  BY <1>a, <1>f DEF RegisterFile, CycleInv, Chain
<1>5. CallInv'
  <2>1. ASSUME NEW u \in Thread, u # t PROVE RegisterOf(th[u])' /\ RemoveOf(th[u])'
    BY <1>c, <1>d, <2>1 DEF RegisterOf, RemoveOf, RegisterPcs, RemovePcs, IoctlPcs
  <2>2. RegisterOf(th[t])'
    <3>1. th[t].pc = "file" /\ th[t].reg \in Reg /\ kobj \in [Reg -> {"none", "bare", "live", "put"}]
      BY <1>b DEF RegisterFile, ThreadOf, RegisterPcs, RestType
    <3>2. RegisterOf(th[t])
      BY <1>g, <3>1 DEF IoctlPcs
    <3>3. /\ kobj'[th[t].reg] = "live" /\ Chain' = Chain
          /\ UNCHANGED <<dev, device_obj, listed, failed, node, next>>
      BY <1>f, <3>1, <3>2 DEF RegisterFile, RegisterOf, RegisterPcs, Chain
    <3> QED
      BY <1>d, <3>1, <3>2, <3>3 DEF RegisterOf, RegisterPcs
  <2>3. RemoveOf(th[t])'
    BY <1>a, <1>b, <1>d, <1>f, <1>g, Bounds DEF RegisterFile, RemoveOf, RestType, RemovePcs,
       IoctlPcs, Chain, modeVars
  <2> QED
    BY <2>1, <2>2, <2>3 DEF CallInv
<1>6. KobjAccounted'
  BY <1>a, <1>b, <1>e, <1>g, Bounds DEF RegisterFile, KobjAccounted, RegisterPcs,
     RegisterOf, RemoveOf, IoctlPcs, modeVars
<1> QED
  BY <1>1, <1>2, <1>3, <1>4, <1>5, <1>6 DEF ListIInv


\* A registration that fails leaves its directory.
LEMMA RegisterFailKept ==
    ASSUME TypeInv, TypeInv', ListIInv, careful, NEW t \in Thread, RegisterFail(t)
    PROVE  ListIInv'
<1>a. OneCall /\ NumberInv /\ OneName /\ CycleInv /\ CallInv /\ KobjAccounted
  BY DEF ListIInv
<1>b. /\ RestType /\ node \in [Reg -> NodeType] /\ th \in [Thread -> ThType]
      /\ ThreadOf(th[t]) /\ th[t] \in ThType
  BY TypeForm
<1>c. \A u \in Thread : u # t => th[u].pc \notin IoctlPcs
  BY <1>a DEF RegisterFail, OneCall, IoctlPcs
<1>d. /\ \A u \in Thread : u # t => th'[u] = th[u]
      /\ th'[t].pc = "idle"
  BY <1>b, ReturnForm DEF RegisterFail
<1>e. /\ At({"handler"}) = {} /\ At(RegisterPcs) = {th[t].reg} /\ Removing = {}
      /\ At({"handler"})' = {} /\ At(RegisterPcs)' = {} /\ Removing' = {}
  <2>1. \A u \in Thread : u # t => th'[u].pc \notin IoctlPcs
    BY <1>c, <1>d
  <2> QED
    BY <1>c, <1>d, <2>1, SoleCall, SoleCallNext DEF RegisterFail, RegisterPcs, RemovePcs
<1>f. InList' = InList /\ Chain' = InList' \cup {0} /\ InList \subseteq Reg
  BY <1>b, <1>e DEF RegisterFail, InList, Chain, RestType, ThreadOf, RegisterPcs, modeVars
<1>g. th[t].pc \in IoctlPcs => RegisterOf(th[t]) /\ RemoveOf(th[t])
  BY <1>a DEF CallInv
<1>1. OneCall'
  BY <1>c, <1>d DEF OneCall
<1>2. NumberInv'
  <2> SUFFICES ASSUME NEW n \in Reg PROVE NumberOf(n)'
    BY DEF NumberInv
  <2>1. NumberOf(n)
    BY <1>a DEF NumberInv
  <2>2. th[t].pc # "free" => ~(node[n].mem = "live" /\ kobj[n] = "put")
    BY <1>c, <2>1 DEF NumberOf, IoctlPcs
  <2> QED
    BY <1>b, <1>d, <1>f, <1>g, <2>1, <2>2, Bounds DEF RegisterFail, NumberOf, RegisterOf,
       RemoveOf, RestType, IoctlPcs, RegisterPcs, RemovePcs, modeVars
<1>3. OneName'
  BY <1>a DEF RegisterFail, OneName, modeVars
<1>4. CycleInv'
  BY <1>a, <1>f DEF RegisterFail, CycleInv, Chain
<1>5. CallInv'
  <2>1. ASSUME NEW u \in Thread, u # t PROVE RegisterOf(th[u])' /\ RemoveOf(th[u])'
    BY <1>c, <1>d, <2>1 DEF RegisterOf, RemoveOf, RegisterPcs, RemovePcs, IoctlPcs
  <2>2. RegisterOf(th[t])'
    BY <1>a, <1>b, <1>d, <1>f, <1>g, Bounds DEF RegisterFail, RegisterOf, RestType,
       RegisterPcs, IoctlPcs, Chain, modeVars
  <2>3. RemoveOf(th[t])'
    BY <1>a, <1>b, <1>d, <1>f, <1>g, Bounds DEF RegisterFail, RemoveOf, RestType, RemovePcs,
       IoctlPcs, Chain, modeVars
  <2> QED
    BY <2>1, <2>2, <2>3 DEF CallInv
<1>6. KobjAccounted'
  BY <1>a, <1>b, <1>e, <1>g, Bounds DEF RegisterFail, KobjAccounted, RegisterPcs,
     RegisterOf, RemoveOf, IoctlPcs, modeVars
<1> QED
  BY <1>1, <1>2, <1>3, <1>4, <1>5, <1>6 DEF ListIInv


\* The node comes into being outside the list.
LEMMA RegisterAllocKept ==
    ASSUME TypeInv, TypeInv', ListIInv, careful, NEW t \in Thread, RegisterAlloc(t)
    PROVE  ListIInv'
<1>a. OneCall /\ NumberInv /\ OneName /\ CycleInv /\ CallInv /\ KobjAccounted
  BY DEF ListIInv
<1>b. /\ RestType /\ node \in [Reg -> NodeType] /\ th \in [Thread -> ThType]
      /\ ThreadOf(th[t]) /\ th[t] \in ThType
  BY TypeForm
<1>c. \A u \in Thread : u # t => th[u].pc \notin IoctlPcs
  BY <1>a DEF RegisterAlloc, OneCall, IoctlPcs
<1>d. /\ \A u \in Thread : u # t => th'[u] = th[u]
      /\ th'[t].pc = "link" /\ th'[t].dev = th[t].dev /\ th'[t].reg = th[t].reg /\ th'[t].at = th[t].at /\ th'[t].prev = th[t].prev
  <2>1. Goto(t, "link") /\ "link" \in AllPcs
    BY DEF RegisterAlloc, AllPcs, IoctlPcs
  <2> QED
    BY <1>b, <2>1, GotoForm
<1>e. /\ At({"handler"}) = {} /\ At(RegisterPcs) = {th[t].reg} /\ Removing = {}
      /\ At({"handler"})' = {} /\ At(RegisterPcs)' = {th[t].reg} /\ Removing' = {}
  <2>1. \A u \in Thread : u # t => th'[u].pc \notin IoctlPcs
    BY <1>c, <1>d
  <2> QED
    BY <1>c, <1>d, <2>1, SoleCall, SoleCallNext DEF RegisterAlloc, RegisterPcs, RemovePcs
<1>f. InList' = InList /\ Chain' = InList' \cup {0} /\ InList \subseteq Reg
  BY <1>b, <1>e DEF RegisterAlloc, InList, Chain, RestType, ThreadOf, RegisterPcs, regVars,
     modeVars
<1>g. th[t].pc \in IoctlPcs => RegisterOf(th[t]) /\ RemoveOf(th[t])
  BY <1>a DEF CallInv
<1>1. OneCall'
  BY <1>c, <1>d DEF OneCall
<1>2. NumberInv'
  <2> SUFFICES ASSUME NEW n \in Reg PROVE NumberOf(n)'
    BY DEF NumberInv
  <2>1. NumberOf(n)
    BY <1>a DEF NumberInv
  <2>2. th[t].pc # "free" => ~(node[n].mem = "live" /\ kobj[n] = "put")
    BY <1>c, <2>1 DEF NumberOf, IoctlPcs
  <2> QED
    BY <1>b, <1>d, <1>f, <1>g, <2>1, <2>2, Bounds DEF RegisterAlloc, NumberOf, RegisterOf,
       RemoveOf, RestType, IoctlPcs, RegisterPcs, RemovePcs, regVars, modeVars
<1>3. OneName'
  BY <1>a DEF RegisterAlloc, OneName, regVars, modeVars
<1>4. CycleInv'
  BY <1>a, <1>f DEF RegisterAlloc, CycleInv, Chain
<1>5. CallInv'
  <2>1. ASSUME NEW u \in Thread, u # t PROVE RegisterOf(th[u])' /\ RemoveOf(th[u])'
    BY <1>c, <1>d, <2>1 DEF RegisterOf, RemoveOf, RegisterPcs, RemovePcs, IoctlPcs
  <2>2. RegisterOf(th[t])'
    <3>1. th[t].pc = "alloc" /\ th[t].reg \in Reg
      BY <1>b DEF RegisterAlloc, ThreadOf, RegisterPcs
    <3>2. RegisterOf(th[t])
      BY <1>g, <3>1 DEF IoctlPcs
    <3>3. node'[th[t].reg].mem = "live"
      BY <1>b, <3>1, AllocForm
    <3>4. Chain' = Chain /\ UNCHANGED <<dev, kobj, device_obj, listed, failed, next>>
      BY <1>f DEF RegisterAlloc, regVars, Chain
    <3> QED
      BY <1>d, <3>1, <3>2, <3>3, <3>4 DEF RegisterOf, RegisterPcs
  <2>3. RemoveOf(th[t])'
    BY <1>a, <1>b, <1>d, <1>f, <1>g, Bounds DEF RegisterAlloc, RemoveOf, RestType,
       RemovePcs, IoctlPcs, Chain, regVars, modeVars
  <2> QED
    BY <2>1, <2>2, <2>3 DEF CallInv
<1>6. KobjAccounted'
  BY <1>a, <1>b, <1>e, <1>g, Bounds DEF RegisterAlloc, KobjAccounted, RegisterPcs,
     RegisterOf, RemoveOf, IoctlPcs, regVars, modeVars
<1> QED
  BY <1>1, <1>2, <1>3, <1>4, <1>5, <1>6 DEF ListIInv


\* The walk stays on the list.
LEMMA RegisterWalkKept ==
    ASSUME TypeInv, TypeInv', ListIInv, careful, NEW t \in Thread, RegisterWalk(t)
    PROVE  ListIInv'
<1>a. OneCall /\ NumberInv /\ OneName /\ CycleInv /\ CallInv /\ KobjAccounted
  BY DEF ListIInv
<1>b. /\ RestType /\ node \in [Reg -> NodeType] /\ th \in [Thread -> ThType]
      /\ ThreadOf(th[t]) /\ th[t] \in ThType
  BY TypeForm
<1>c. \A u \in Thread : u # t => th[u].pc \notin IoctlPcs
  BY <1>a DEF RegisterWalk, OneCall, IoctlPcs
<1>d. /\ \A u \in Thread : u # t => th'[u] = th[u]
      /\ th'[t].pc = th[t].pc /\ th'[t].dev = th[t].dev /\ th'[t].reg = th[t].reg /\ th'[t].at = next[th[t].at] /\ th'[t].prev = th[t].at
  <2>1. Visit(t, next[th[t].at]) /\ next[th[t].at] \in 0 .. MaxReg
    BY <1>b, Bounds DEF RegisterWalk, ThType, RestType
  <2> QED
    BY <1>b, <2>1, VisitForm
<1>e. /\ At({"handler"}) = {} /\ At(RegisterPcs) = {th[t].reg} /\ Removing = {}
      /\ At({"handler"})' = {} /\ At(RegisterPcs)' = {th[t].reg} /\ Removing' = {}
  <2>1. \A u \in Thread : u # t => th'[u].pc \notin IoctlPcs
    BY <1>c, <1>d
  <2> QED
    BY <1>c, <1>d, <2>1, SoleCall, SoleCallNext DEF RegisterWalk, RegisterPcs, RemovePcs
<1>f. InList' = InList /\ Chain' = InList' \cup {0} /\ InList \subseteq Reg
  BY <1>b, <1>e DEF RegisterWalk, InList, Chain, RestType, ThreadOf, RegisterPcs, regVars,
     modeVars
<1>g. th[t].pc \in IoctlPcs => RegisterOf(th[t]) /\ RemoveOf(th[t])
  BY <1>a DEF CallInv
<1>h. /\ \A n \in Chain : next[n] \in Chain
      /\ 0 \in Chain /\ 0 \notin Reg /\ 0 \in 0 .. MaxReg
  BY <1>a, Bounds DEF CycleInv, Chain
<1>1. OneCall'
  BY <1>c, <1>d DEF OneCall
<1>2. NumberInv'
  <2> SUFFICES ASSUME NEW n \in Reg PROVE NumberOf(n)'
    BY DEF NumberInv
  <2>1. NumberOf(n)
    BY <1>a DEF NumberInv
  <2>2. th[t].pc # "free" => ~(node[n].mem = "live" /\ kobj[n] = "put")
    BY <1>c, <2>1 DEF NumberOf, IoctlPcs
  <2> QED
    BY <1>b, <1>d, <1>f, <1>g, <2>1, <2>2, Bounds DEF RegisterWalk, NumberOf, RegisterOf,
       RemoveOf, RestType, IoctlPcs, RegisterPcs, RemovePcs, regVars, modeVars
<1>3. OneName'
  BY <1>a DEF RegisterWalk, OneName, regVars, modeVars
<1>4. CycleInv'
  BY <1>a, <1>f DEF RegisterWalk, CycleInv, Chain
<1>5. CallInv'
  <2>1. ASSUME NEW u \in Thread, u # t PROVE RegisterOf(th[u])' /\ RemoveOf(th[u])'
    BY <1>c, <1>d, <2>1 DEF RegisterOf, RemoveOf, RegisterPcs, RemovePcs, IoctlPcs
  <2>2. RegisterOf(th[t])'
    BY <1>b, <1>d, <1>f, <1>g, <1>h DEF RegisterWalk, RegisterOf, RegisterPcs, IoctlPcs, Chain, regVars
  <2>3. RemoveOf(th[t])'
    BY <1>a, <1>b, <1>d, <1>f, <1>g, Bounds DEF RegisterWalk, RemoveOf, RestType, RemovePcs,
       IoctlPcs, Chain, regVars, modeVars
  <2> QED
    BY <2>1, <2>2, <2>3 DEF CallInv
<1>6. KobjAccounted'
  BY <1>a, <1>b, <1>e, <1>g, Bounds DEF RegisterWalk, KobjAccounted, RegisterPcs,
     RegisterOf, RemoveOf, IoctlPcs, regVars, modeVars
<1> QED
  BY <1>1, <1>2, <1>3, <1>4, <1>5, <1>6 DEF ListIInv


\* It ends at the last node.
LEMMA RegisterTailKept ==
    ASSUME TypeInv, TypeInv', ListIInv, careful, NEW t \in Thread, RegisterTail(t)
    PROVE  ListIInv'
<1>a. OneCall /\ NumberInv /\ OneName /\ CycleInv /\ CallInv /\ KobjAccounted
  BY DEF ListIInv
<1>b. /\ RestType /\ node \in [Reg -> NodeType] /\ th \in [Thread -> ThType]
      /\ ThreadOf(th[t]) /\ th[t] \in ThType
  BY TypeForm
<1>c. \A u \in Thread : u # t => th[u].pc \notin IoctlPcs
  BY <1>a DEF RegisterTail, OneCall, IoctlPcs
<1>d. /\ \A u \in Thread : u # t => th'[u] = th[u]
      /\ th'[t].pc = "append" /\ th'[t].dev = th[t].dev /\ th'[t].reg = th[t].reg /\ th'[t].at = th[t].at /\ th'[t].prev = th[t].prev
  <2>1. Goto(t, "append") /\ "append" \in AllPcs
    BY DEF RegisterTail, AllPcs, IoctlPcs
  <2> QED
    BY <1>b, <2>1, GotoForm
<1>e. /\ At({"handler"}) = {} /\ At(RegisterPcs) = {th[t].reg} /\ Removing = {}
      /\ At({"handler"})' = {} /\ At(RegisterPcs)' = {th[t].reg} /\ Removing' = {}
  <2>1. \A u \in Thread : u # t => th'[u].pc \notin IoctlPcs
    BY <1>c, <1>d
  <2> QED
    BY <1>c, <1>d, <2>1, SoleCall, SoleCallNext DEF RegisterTail, RegisterPcs, RemovePcs
<1>f. InList' = InList /\ Chain' = InList' \cup {0} /\ InList \subseteq Reg
  BY <1>b, <1>e DEF RegisterTail, InList, Chain, RestType, ThreadOf, RegisterPcs, regVars,
     modeVars
<1>g. th[t].pc \in IoctlPcs => RegisterOf(th[t]) /\ RemoveOf(th[t])
  BY <1>a DEF CallInv
<1>1. OneCall'
  BY <1>c, <1>d DEF OneCall
<1>2. NumberInv'
  <2> SUFFICES ASSUME NEW n \in Reg PROVE NumberOf(n)'
    BY DEF NumberInv
  <2>1. NumberOf(n)
    BY <1>a DEF NumberInv
  <2>2. th[t].pc # "free" => ~(node[n].mem = "live" /\ kobj[n] = "put")
    BY <1>c, <2>1 DEF NumberOf, IoctlPcs
  <2> QED
    BY <1>b, <1>d, <1>f, <1>g, <2>1, <2>2, Bounds DEF RegisterTail, NumberOf, RegisterOf,
       RemoveOf, RestType, IoctlPcs, RegisterPcs, RemovePcs, regVars, modeVars
<1>3. OneName'
  BY <1>a DEF RegisterTail, OneName, regVars, modeVars
<1>4. CycleInv'
  BY <1>a, <1>f DEF RegisterTail, CycleInv, Chain
<1>5. CallInv'
  <2>1. ASSUME NEW u \in Thread, u # t PROVE RegisterOf(th[u])' /\ RemoveOf(th[u])'
    BY <1>c, <1>d, <2>1 DEF RegisterOf, RemoveOf, RegisterPcs, RemovePcs, IoctlPcs
  <2>2. RegisterOf(th[t])'
    BY <1>a, <1>b, <1>d, <1>f, <1>g, Bounds DEF RegisterTail, RegisterOf, RestType,
       RegisterPcs, IoctlPcs, Chain, regVars, modeVars
  <2>3. RemoveOf(th[t])'
    BY <1>a, <1>b, <1>d, <1>f, <1>g, Bounds DEF RegisterTail, RemoveOf, RestType, RemovePcs,
       IoctlPcs, Chain, regVars, modeVars
  <2> QED
    BY <2>1, <2>2, <2>3 DEF CallInv
<1>6. KobjAccounted'
  BY <1>a, <1>b, <1>e, <1>g, Bounds DEF RegisterTail, KobjAccounted, RegisterPcs,
     RegisterOf, RemoveOf, IoctlPcs, regVars, modeVars
<1> QED
  BY <1>1, <1>2, <1>3, <1>4, <1>5, <1>6 DEF ListIInv


\* The node is appended there.
LEMMA RegisterAppendKept ==
    ASSUME TypeInv, TypeInv', ListIInv, careful, NEW t \in Thread, RegisterAppend(t)
    PROVE  ListIInv'
<1>a. OneCall /\ NumberInv /\ OneName /\ CycleInv /\ CallInv /\ KobjAccounted
  BY DEF ListIInv
<1>b. /\ RestType /\ node \in [Reg -> NodeType] /\ th \in [Thread -> ThType]
      /\ ThreadOf(th[t]) /\ th[t] \in ThType
  BY TypeForm
<1>c. \A u \in Thread : u # t => th[u].pc \notin IoctlPcs
  BY <1>a DEF RegisterAppend, OneCall, IoctlPcs
<1>d. /\ \A u \in Thread : u # t => th'[u] = th[u]
      /\ th'[t].pc = "handler" /\ th'[t].dev = th[t].dev /\ th'[t].reg = th[t].reg /\ th'[t].at = th[t].at /\ th'[t].prev = th[t].prev
  <2>1. Goto(t, "handler") /\ "handler" \in AllPcs
    BY DEF RegisterAppend, AllPcs, IoctlPcs
  <2> QED
    BY <1>b, <2>1, GotoForm
<1>e. /\ At({"handler"}) = {} /\ At(RegisterPcs) = {th[t].reg} /\ Removing = {}
      /\ At({"handler"})' = {th[t].reg} /\ At(RegisterPcs)' = {th[t].reg} /\ Removing' = {}
  <2>1. \A u \in Thread : u # t => th'[u].pc \notin IoctlPcs
    BY <1>c, <1>d
  <2> QED
    BY <1>c, <1>d, <2>1, SoleCall, SoleCallNext DEF RegisterAppend, RegisterPcs, RemovePcs
<1>f. InList' = InList \cup {th[t].reg} /\ Chain' = InList' \cup {0} /\ InList \subseteq Reg
  BY <1>b, <1>e DEF RegisterAppend, InList, Chain, RestType, ThreadOf, RegisterPcs, regVars,
     modeVars
<1>g. th[t].pc \in IoctlPcs => RegisterOf(th[t]) /\ RemoveOf(th[t])
  BY <1>a DEF CallInv
<1>h. /\ \A n \in Chain : next[n] \in Chain
      /\ 0 \in Chain /\ 0 \notin Reg /\ 0 \in 0 .. MaxReg
  BY <1>a, Bounds DEF CycleInv, Chain
<1>i. /\ th[t].at \in Chain /\ next[th[t].at] = 0 /\ th[t].reg \in Reg /\ th[t].reg \notin InList
      /\ next[th[t].reg] = 0 /\ node[th[t].reg].mem = "live" /\ kobj[th[t].reg] = "live"
  <2>1. th[t].pc = "append" /\ th[t].reg \in Reg
    BY <1>b DEF RegisterAppend, ThreadOf, RegisterPcs
  <2>2. RegisterOf(th[t])
    BY <1>g, <2>1 DEF IoctlPcs
  <2>3. th[t].reg \notin InList
    BY <1>e, <2>1, <2>2 DEF RegisterOf, RegisterPcs, InList
  <2>4. NumberOf(th[t].reg)
    BY <1>a, <2>1 DEF NumberInv
  <2> QED
    BY <2>1, <2>2, <2>3, <2>4 DEF RegisterOf, RegisterPcs, NumberOf
<1>j. next' = [next EXCEPT ![th[t].at] = th[t].reg] /\ next \in [0 .. MaxReg -> 0 .. MaxReg]
  BY <1>b DEF RegisterAppend, RestType
<1>1. OneCall'
  BY <1>c, <1>d DEF OneCall
<1>2. NumberInv'
  <2> SUFFICES ASSUME NEW n \in Reg PROVE NumberOf(n)'
    BY DEF NumberInv
  <2>1. NumberOf(n)
    BY <1>a DEF NumberInv
  <2>2. th[t].pc # "free" => ~(node[n].mem = "live" /\ kobj[n] = "put")
    BY <1>c, <2>1 DEF NumberOf, IoctlPcs
  <2> QED
    <3>1. n \notin InList' => next'[n] = 0
      BY <1>f, <1>h, <1>i, <1>j, <2>1, Bounds DEF NumberOf, Chain
    <3>2. th[t].pc # "free" /\ n \in Reg /\ UNCHANGED <<regs, dev, kobj, node, failed, listed>>
      BY DEF RegisterAppend, regVars
    <3> QED
      BY <2>1, <2>2, <3>1, <3>2 DEF NumberOf
<1>3. OneName'
  BY <1>a DEF RegisterAppend, OneName, regVars, modeVars
<1>4. CycleInv'
  <2>1. InList' = InList \cup {th[t].reg}
    BY <1>f
  <2> QED
    BY <1>a, <1>f, <1>i, <1>j, <2>1, CycleAppend
<1>5. CallInv'
  <2>1. ASSUME NEW u \in Thread, u # t PROVE RegisterOf(th[u])' /\ RemoveOf(th[u])'
    BY <1>c, <1>d, <2>1 DEF RegisterOf, RemoveOf, RegisterPcs, RemovePcs, IoctlPcs
  <2>2. RegisterOf(th[t])'
    BY <1>a, <1>b, <1>d, <1>f, <1>g, Bounds DEF RegisterAppend, RegisterOf, RestType,
       RegisterPcs, IoctlPcs, Chain, regVars, modeVars
  <2>3. RemoveOf(th[t])'
    BY <1>a, <1>b, <1>d, <1>f, <1>g, Bounds DEF RegisterAppend, RemoveOf, RestType,
       RemovePcs, IoctlPcs, Chain, regVars, modeVars
  <2> QED
    BY <2>1, <2>2, <2>3 DEF CallInv
<1>6. KobjAccounted'
  BY <1>a, <1>b, <1>e, <1>g, Bounds DEF RegisterAppend, KobjAccounted, RegisterPcs,
     RegisterOf, RemoveOf, IoctlPcs, regVars, modeVars
<1> QED
  BY <1>1, <1>2, <1>3, <1>4, <1>5, <1>6 DEF ListIInv


\* The registration returns.
LEMMA RegisterHandlerKept ==
    ASSUME TypeInv, TypeInv', ListIInv, careful, NEW t \in Thread, RegisterHandler(t)
    PROVE  ListIInv'
<1>a. OneCall /\ NumberInv /\ OneName /\ CycleInv /\ CallInv /\ KobjAccounted
  BY DEF ListIInv
<1>b. /\ RestType /\ node \in [Reg -> NodeType] /\ th \in [Thread -> ThType]
      /\ ThreadOf(th[t]) /\ th[t] \in ThType
  BY TypeForm
<1>c. \A u \in Thread : u # t => th[u].pc \notin IoctlPcs
  BY <1>a DEF RegisterHandler, OneCall, IoctlPcs
<1>d. /\ \A u \in Thread : u # t => th'[u] = th[u]
      /\ th'[t].pc = "idle"
  BY <1>b, ReturnForm DEF RegisterHandler
<1>e. /\ At({"handler"}) = {th[t].reg} /\ At(RegisterPcs) = {th[t].reg} /\ Removing = {}
      /\ At({"handler"})' = {} /\ At(RegisterPcs)' = {} /\ Removing' = {}
  <2>1. \A u \in Thread : u # t => th'[u].pc \notin IoctlPcs
    BY <1>c, <1>d
  <2> QED
    BY <1>c, <1>d, <2>1, SoleCall, SoleCallNext DEF RegisterHandler, RegisterPcs, RemovePcs
<1>f. InList' = InList /\ Chain' = InList' \cup {0} /\ InList \subseteq Reg
  BY <1>b, <1>e DEF RegisterHandler, InList, Chain, RestType, ThreadOf, RegisterPcs,
     modeVars
<1>g. th[t].pc \in IoctlPcs => RegisterOf(th[t]) /\ RemoveOf(th[t])
  BY <1>a DEF CallInv
<1>1. OneCall'
  BY <1>c, <1>d DEF OneCall
<1>2. NumberInv'
  <2> SUFFICES ASSUME NEW n \in Reg PROVE NumberOf(n)'
    BY DEF NumberInv
  <2>1. NumberOf(n)
    BY <1>a DEF NumberInv
  <2>2. th[t].pc # "free" => ~(node[n].mem = "live" /\ kobj[n] = "put")
    BY <1>c, <2>1 DEF NumberOf, IoctlPcs
  <2> QED
    BY <1>b, <1>d, <1>f, <1>g, <2>1, <2>2, Bounds DEF RegisterHandler, NumberOf, RegisterOf,
       RemoveOf, RestType, IoctlPcs, RegisterPcs, RemovePcs, modeVars
<1>3. OneName'
  BY <1>a DEF RegisterHandler, OneName, modeVars
<1>4. CycleInv'
  BY <1>a, <1>f DEF RegisterHandler, CycleInv, Chain
<1>5. CallInv'
  <2>1. ASSUME NEW u \in Thread, u # t PROVE RegisterOf(th[u])' /\ RemoveOf(th[u])'
    BY <1>c, <1>d, <2>1 DEF RegisterOf, RemoveOf, RegisterPcs, RemovePcs, IoctlPcs
  <2>2. RegisterOf(th[t])'
    BY <1>a, <1>b, <1>d, <1>f, <1>g, Bounds DEF RegisterHandler, RegisterOf, RestType,
       RegisterPcs, IoctlPcs, Chain, modeVars
  <2>3. RemoveOf(th[t])'
    BY <1>a, <1>b, <1>d, <1>f, <1>g, Bounds DEF RegisterHandler, RemoveOf, RestType,
       RemovePcs, IoctlPcs, Chain, modeVars
  <2> QED
    BY <2>1, <2>2, <2>3 DEF CallInv
<1>6. KobjAccounted'
  BY <1>a, <1>b, <1>e, <1>g, Bounds DEF RegisterHandler, KobjAccounted, RegisterPcs,
     RegisterOf, RemoveOf, IoctlPcs, modeVars
<1> QED
  BY <1>1, <1>2, <1>3, <1>4, <1>5, <1>6 DEF ListIInv


\* A removal begins at head.
LEMMA DeregisterStartKept ==
    ASSUME TypeInv, TypeInv', ListIInv, careful, NEW t \in Thread, NEW d \in Dev, DeregisterStart(t, d)
    PROVE  ListIInv'
<1>a. OneCall /\ NumberInv /\ OneName /\ CycleInv /\ CallInv /\ KobjAccounted
  BY DEF ListIInv
<1>b. /\ RestType /\ node \in [Reg -> NodeType] /\ th \in [Thread -> ThType]
      /\ ThreadOf(th[t]) /\ th[t] \in ThType
  BY TypeForm
<1>c. \A u \in Thread : u # t => th[u].pc \notin IoctlPcs
  BY <1>a DEF DeregisterStart, CanIoctl
<1>d. /\ \A u \in Thread : u # t => th'[u] = th[u]
      /\ th'[t].pc = "find" /\ th'[t].dev = d /\ th'[t].reg = 0 /\ th'[t].at = next[0] /\ th'[t].prev = 0
  BY FindForm, TypeForm
<1>e. /\ At({"handler"}) = {} /\ At(RegisterPcs) = {} /\ Removing = {}
      /\ At({"handler"})' = {} /\ At(RegisterPcs)' = {} /\ Removing' = {}
  <2>1. \A u \in Thread : u # t => th'[u].pc \notin IoctlPcs
    BY <1>c, <1>d
  <2> QED
    BY <1>c, <1>d, <2>1, SoleCall, SoleCallNext DEF DeregisterStart, CanIoctl, CanStart,
       RegisterPcs, RemovePcs
<1>f. InList' = InList /\ Chain' = InList' \cup {0} /\ InList \subseteq Reg
  BY <1>b, <1>e DEF DeregisterStart, InList, Chain, RestType, ThreadOf, RegisterPcs,
     regVars, modeVars
<1>g. th[t].pc \in IoctlPcs => RegisterOf(th[t]) /\ RemoveOf(th[t])
  BY <1>a DEF CallInv
<1>h. /\ \A n \in Chain : next[n] \in Chain
      /\ 0 \in Chain /\ 0 \notin Reg /\ 0 \in 0 .. MaxReg
  BY <1>a, Bounds DEF CycleInv, Chain
<1>1. OneCall'
  BY <1>c, <1>d DEF OneCall
<1>2. NumberInv'
  <2> SUFFICES ASSUME NEW n \in Reg PROVE NumberOf(n)'
    BY DEF NumberInv
  <2>1. NumberOf(n)
    BY <1>a DEF NumberInv
  <2>2. th[t].pc # "free" => ~(node[n].mem = "live" /\ kobj[n] = "put")
    BY <1>c, <2>1 DEF NumberOf, IoctlPcs
  <2> QED
    BY <1>b, <1>d, <1>f, <1>g, <2>1, <2>2, Bounds DEF DeregisterStart, CanIoctl, CanStart,
       NumberOf, RegisterOf, RemoveOf, RestType, IoctlPcs, RegisterPcs, RemovePcs, regVars,
       modeVars
<1>3. OneName'
  BY <1>a DEF DeregisterStart, OneName, regVars, modeVars
<1>4. CycleInv'
  BY <1>a, <1>f DEF DeregisterStart, CycleInv, Chain
<1>5. CallInv'
  <2>1. ASSUME NEW u \in Thread, u # t PROVE RegisterOf(th[u])' /\ RemoveOf(th[u])'
    BY <1>c, <1>d, <2>1 DEF RegisterOf, RemoveOf, RegisterPcs, RemovePcs, IoctlPcs
  <2>2. RegisterOf(th[t])'
    BY <1>a, <1>b, <1>d, <1>f, <1>g, Bounds DEF DeregisterStart, RegisterOf, RestType,
       RegisterPcs, IoctlPcs, Chain, regVars, modeVars
  <2>3. RemoveOf(th[t])'
    BY <1>d, <1>f, <1>h DEF DeregisterStart, RemoveOf, RemovePcs, Chain
  <2> QED
    BY <2>1, <2>2, <2>3 DEF CallInv
<1>6. KobjAccounted'
  BY <1>a, <1>b, <1>e, <1>g, Bounds DEF DeregisterStart, KobjAccounted, RegisterPcs,
     RegisterOf, RemoveOf, IoctlPcs, regVars, modeVars
<1> QED
  BY <1>1, <1>2, <1>3, <1>4, <1>5, <1>6 DEF ListIInv


\* It goes on to the next node.
LEMMA DeregisterWalkKept ==
    ASSUME TypeInv, TypeInv', ListIInv, careful, NEW t \in Thread, DeregisterWalk(t)
    PROVE  ListIInv'
<1>a. OneCall /\ NumberInv /\ OneName /\ CycleInv /\ CallInv /\ KobjAccounted
  BY DEF ListIInv
<1>b. /\ RestType /\ node \in [Reg -> NodeType] /\ th \in [Thread -> ThType]
      /\ ThreadOf(th[t]) /\ th[t] \in ThType
  BY TypeForm
<1>c. \A u \in Thread : u # t => th[u].pc \notin IoctlPcs
  BY <1>a DEF DeregisterWalk, OneCall, IoctlPcs
<1>d. /\ \A u \in Thread : u # t => th'[u] = th[u]
      /\ th'[t].pc = th[t].pc /\ th'[t].dev = th[t].dev /\ th'[t].reg = th[t].reg /\ th'[t].at = next[th[t].at] /\ th'[t].prev = th[t].at
  <2>1. Visit(t, next[th[t].at]) /\ next[th[t].at] \in 0 .. MaxReg
    BY <1>b, Bounds DEF DeregisterWalk, ThType, RestType
  <2> QED
    BY <1>b, <2>1, VisitForm
<1>e. /\ At({"handler"}) = {} /\ At(RegisterPcs) = {} /\ Removing = {}
      /\ At({"handler"})' = {} /\ At(RegisterPcs)' = {} /\ Removing' = {}
  <2>1. \A u \in Thread : u # t => th'[u].pc \notin IoctlPcs
    BY <1>c, <1>d
  <2> QED
    BY <1>c, <1>d, <2>1, SoleCall, SoleCallNext DEF DeregisterWalk, RegisterPcs, RemovePcs
<1>f. InList' = InList /\ Chain' = InList' \cup {0} /\ InList \subseteq Reg
  BY <1>b, <1>e DEF DeregisterWalk, InList, Chain, RestType, ThreadOf, RegisterPcs, regVars,
     modeVars
<1>g. th[t].pc \in IoctlPcs => RegisterOf(th[t]) /\ RemoveOf(th[t])
  BY <1>a DEF CallInv
<1>h. /\ \A n \in Chain : next[n] \in Chain
      /\ 0 \in Chain /\ 0 \notin Reg /\ 0 \in 0 .. MaxReg
  BY <1>a, Bounds DEF CycleInv, Chain
<1>1. OneCall'
  BY <1>c, <1>d DEF OneCall
<1>2. NumberInv'
  <2> SUFFICES ASSUME NEW n \in Reg PROVE NumberOf(n)'
    BY DEF NumberInv
  <2>1. NumberOf(n)
    BY <1>a DEF NumberInv
  <2>2. th[t].pc # "free" => ~(node[n].mem = "live" /\ kobj[n] = "put")
    BY <1>c, <2>1 DEF NumberOf, IoctlPcs
  <2> QED
    BY <1>b, <1>d, <1>f, <1>g, <2>1, <2>2, Bounds DEF DeregisterWalk, NumberOf, RegisterOf,
       RemoveOf, RestType, IoctlPcs, RegisterPcs, RemovePcs, regVars, modeVars
<1>3. OneName'
  BY <1>a DEF DeregisterWalk, OneName, regVars, modeVars
<1>4. CycleInv'
  BY <1>a, <1>f DEF DeregisterWalk, CycleInv, Chain
<1>5. CallInv'
  <2>1. ASSUME NEW u \in Thread, u # t PROVE RegisterOf(th[u])' /\ RemoveOf(th[u])'
    BY <1>c, <1>d, <2>1 DEF RegisterOf, RemoveOf, RegisterPcs, RemovePcs, IoctlPcs
  <2>2. RegisterOf(th[t])'
    BY <1>a, <1>b, <1>d, <1>f, <1>g, Bounds DEF DeregisterWalk, RegisterOf, RestType,
       RegisterPcs, IoctlPcs, Chain, regVars, modeVars
  <2>3. RemoveOf(th[t])'
    BY <1>b, <1>d, <1>f, <1>g, <1>h DEF DeregisterWalk, RemoveOf, RemovePcs, IoctlPcs, Chain, regVars
  <2> QED
    BY <2>1, <2>2, <2>3 DEF CallInv
<1>6. KobjAccounted'
  BY <1>a, <1>b, <1>e, <1>g, Bounds DEF DeregisterWalk, KobjAccounted, RegisterPcs,
     RegisterOf, RemoveOf, IoctlPcs, regVars, modeVars
<1> QED
  BY <1>1, <1>2, <1>3, <1>4, <1>5, <1>6 DEF ListIInv


\* A device that is not registered has no node.
LEMMA DeregisterMissingKept ==
    ASSUME TypeInv, TypeInv', ListIInv, careful, NEW t \in Thread, DeregisterMissing(t)
    PROVE  ListIInv'
<1>a. OneCall /\ NumberInv /\ OneName /\ CycleInv /\ CallInv /\ KobjAccounted
  BY DEF ListIInv
<1>b. /\ RestType /\ node \in [Reg -> NodeType] /\ th \in [Thread -> ThType]
      /\ ThreadOf(th[t]) /\ th[t] \in ThType
  BY TypeForm
<1>c. \A u \in Thread : u # t => th[u].pc \notin IoctlPcs
  BY <1>a DEF DeregisterMissing, OneCall, IoctlPcs
<1>d. /\ \A u \in Thread : u # t => th'[u] = th[u]
      /\ th'[t].pc = "idle"
  BY <1>b, ReturnForm DEF DeregisterMissing
<1>e. /\ At({"handler"}) = {} /\ At(RegisterPcs) = {} /\ Removing = {}
      /\ At({"handler"})' = {} /\ At(RegisterPcs)' = {} /\ Removing' = {}
  <2>1. \A u \in Thread : u # t => th'[u].pc \notin IoctlPcs
    BY <1>c, <1>d
  <2> QED
    BY <1>c, <1>d, <2>1, SoleCall, SoleCallNext DEF DeregisterMissing, RegisterPcs,
       RemovePcs
<1>f. InList' = InList /\ Chain' = InList' \cup {0} /\ InList \subseteq Reg
  BY <1>b, <1>e DEF DeregisterMissing, InList, Chain, RestType, ThreadOf, RegisterPcs,
     regVars, modeVars
<1>g. th[t].pc \in IoctlPcs => RegisterOf(th[t]) /\ RemoveOf(th[t])
  BY <1>a DEF CallInv
<1>1. OneCall'
  BY <1>c, <1>d DEF OneCall
<1>2. NumberInv'
  <2> SUFFICES ASSUME NEW n \in Reg PROVE NumberOf(n)'
    BY DEF NumberInv
  <2>1. NumberOf(n)
    BY <1>a DEF NumberInv
  <2>2. th[t].pc # "free" => ~(node[n].mem = "live" /\ kobj[n] = "put")
    BY <1>c, <2>1 DEF NumberOf, IoctlPcs
  <2> QED
    BY <1>b, <1>d, <1>f, <1>g, <2>1, <2>2, Bounds DEF DeregisterMissing, NumberOf,
       RegisterOf, RemoveOf, RestType, IoctlPcs, RegisterPcs, RemovePcs, regVars, modeVars
<1>3. OneName'
  BY <1>a DEF DeregisterMissing, OneName, regVars, modeVars
<1>4. CycleInv'
  BY <1>a, <1>f DEF DeregisterMissing, CycleInv, Chain
<1>5. CallInv'
  <2>1. ASSUME NEW u \in Thread, u # t PROVE RegisterOf(th[u])' /\ RemoveOf(th[u])'
    BY <1>c, <1>d, <2>1 DEF RegisterOf, RemoveOf, RegisterPcs, RemovePcs, IoctlPcs
  <2>2. RegisterOf(th[t])'
    BY <1>a, <1>b, <1>d, <1>f, <1>g, Bounds DEF DeregisterMissing, RegisterOf, RestType,
       RegisterPcs, IoctlPcs, Chain, regVars, modeVars
  <2>3. RemoveOf(th[t])'
    BY <1>a, <1>b, <1>d, <1>f, <1>g, Bounds DEF DeregisterMissing, RemoveOf, RestType,
       RemovePcs, IoctlPcs, Chain, regVars, modeVars
  <2> QED
    BY <2>1, <2>2, <2>3 DEF CallInv
<1>6. KobjAccounted'
  BY <1>a, <1>b, <1>e, <1>g, Bounds DEF DeregisterMissing, KobjAccounted, RegisterPcs,
     RegisterOf, RemoveOf, IoctlPcs, regVars, modeVars
<1> QED
  BY <1>1, <1>2, <1>3, <1>4, <1>5, <1>6 DEF ListIInv


\* The node of the device is taken out of the list.
LEMMA DeregisterUnlinkKept ==
    ASSUME TypeInv, TypeInv', ListIInv, careful, NEW t \in Thread, DeregisterUnlink(t)
    PROVE  ListIInv'
<1>a. OneCall /\ NumberInv /\ OneName /\ CycleInv /\ CallInv /\ KobjAccounted
  BY DEF ListIInv
<1>b. /\ RestType /\ node \in [Reg -> NodeType] /\ th \in [Thread -> ThType]
      /\ ThreadOf(th[t]) /\ th[t] \in ThType
  BY TypeForm
<1>c. \A u \in Thread : u # t => th[u].pc \notin IoctlPcs
  BY <1>a DEF DeregisterUnlink, Found, OneCall, IoctlPcs
<1>d. /\ \A u \in Thread : u # t => th'[u] = th[u]
      /\ th'[t].pc = "put" /\ th'[t].dev = th[t].dev /\ th'[t].reg = th[t].reg /\ th'[t].at = th[t].at /\ th'[t].prev = th[t].prev
  <2>1. Goto(t, "put") /\ "put" \in AllPcs
    BY DEF DeregisterUnlink, AllPcs, IoctlPcs
  <2> QED
    BY <1>b, <2>1, GotoForm
<1>e. /\ At({"handler"}) = {} /\ At(RegisterPcs) = {} /\ Removing = {}
      /\ At({"handler"})' = {} /\ At(RegisterPcs)' = {} /\ Removing' = {th[t].at}
  <2>1. \A u \in Thread : u # t => th'[u].pc \notin IoctlPcs
    BY <1>c, <1>d
  <2> QED
    BY <1>c, <1>d, <2>1, SoleCall, SoleCallNext DEF DeregisterUnlink, Found, RegisterPcs,
       RemovePcs
<1>f. InList' = InList \ {th[t].at} /\ Chain' = InList' \cup {0} /\ InList \subseteq Reg
  BY <1>b, <1>e DEF DeregisterUnlink, InList, Chain, RestType, ThreadOf, RegisterPcs,
     regVars, modeVars
<1>g. th[t].pc \in IoctlPcs => RegisterOf(th[t]) /\ RemoveOf(th[t])
  BY <1>a DEF CallInv
<1>h. /\ \A n \in Chain : next[n] \in Chain
      /\ 0 \in Chain /\ 0 \notin Reg /\ 0 \in 0 .. MaxReg
  BY <1>a, Bounds DEF CycleInv, Chain
<1>i. /\ th[t].pc = "find" /\ th[t].at \in InList /\ th[t].prev \in Chain /\ next[th[t].prev] = th[t].at
      /\ th[t].at \in listed /\ kobj[th[t].at] = "live"
      /\ next' = [next EXCEPT ![th[t].prev] = next[th[t].at], ![th[t].at] = 0]
  <2>1. th[t].pc = "find" /\ th[t].at # 0 /\ Readable(th[t].at)
    BY DEF DeregisterUnlink, Found
  <2>2. th[t].at \in Chain /\ th[t].prev \in Chain /\ next[th[t].prev] = th[t].at
    BY <1>g, <2>1 DEF RemoveOf, IoctlPcs
  <2>3. th[t].at \in InList /\ th[t].at \in Reg
    BY <1>f, <2>1, <2>2 DEF Chain
  <2>4. th[t].at \in listed
    BY <1>e, <2>3 DEF InList
  <2>5. kobj[th[t].at] = "live"
    BY <1>a, <2>1, <2>3 DEF NumberInv, NumberOf, Readable
  <2> DEFINE gone == IF th[t].prev = 0 THEN next[0] ELSE th[t].at
  <2>6. gone = th[t].at
    BY <2>2
  <2>7. next' = [next EXCEPT ![th[t].prev] = next[gone], ![th[t].at] = 0]
    BY DEF DeregisterUnlink
  <2> HIDE DEF gone
  <2> QED
    BY <2>1, <2>2, <2>3, <2>4, <2>5, <2>6, <2>7
<1>j. CycleInv' /\ next'[th[t].at] = 0
  <2>1. InList' = InList \ {th[t].at}
    BY <1>f
  <2> QED
    BY <1>a, <1>f, <1>i, <2>1, CycleUnlink
<1>1. OneCall'
  BY <1>c, <1>d DEF OneCall
<1>2. NumberInv'
  <2> SUFFICES ASSUME NEW n \in Reg PROVE NumberOf(n)'
    BY DEF NumberInv
  <2>1. NumberOf(n)
    BY <1>a DEF NumberInv
  <2>2. th[t].pc # "free" => ~(node[n].mem = "live" /\ kobj[n] = "put")
    BY <1>c, <2>1 DEF NumberOf, IoctlPcs
  <2> QED
    <3>1. n \notin InList' => next'[n] = 0
      <4>1. CASE n = th[t].at
        BY <1>j, <4>1
      <4>2. CASE n # th[t].at
        <5>1. next \in [0 .. MaxReg -> 0 .. MaxReg] /\ n \in 0 .. MaxReg /\ n # 0
          BY <1>b, Bounds DEF RestType
        <5>2. n \notin InList' => n # th[t].prev /\ next[n] = 0
          BY <1>f, <1>i, <2>1, <4>2, <5>1 DEF NumberOf, Chain
        <5> QED
          BY <1>i, <4>2, <5>1, <5>2
      <4> QED
        BY <4>1, <4>2
    <3>2. th[t].pc # "free" /\ UNCHANGED <<regs, dev, kobj, node, failed, listed>>
      BY <1>i DEF DeregisterUnlink, regVars
    <3> QED
      BY <2>1, <2>2, <3>1, <3>2 DEF NumberOf
<1>3. OneName'
  BY <1>a DEF DeregisterUnlink, OneName, regVars, modeVars
<1>4. CycleInv'
  BY <1>j
<1>5. CallInv'
  <2>1. ASSUME NEW u \in Thread, u # t PROVE RegisterOf(th[u])' /\ RemoveOf(th[u])'
    BY <1>c, <1>d, <2>1 DEF RegisterOf, RemoveOf, RegisterPcs, RemovePcs, IoctlPcs
  <2>2. RegisterOf(th[t])'
    BY <1>a, <1>b, <1>d, <1>f, <1>g, Bounds DEF DeregisterUnlink, RegisterOf, RestType,
       RegisterPcs, IoctlPcs, Chain, regVars, modeVars
  <2>3. RemoveOf(th[t])'
    <3>1. UNCHANGED <<kobj, listed>>
      BY DEF DeregisterUnlink, regVars
    <3> QED
      BY <1>d, <1>i, <3>1 DEF RemoveOf, RemovePcs
  <2> QED
    BY <2>1, <2>2, <2>3 DEF CallInv
<1>6. KobjAccounted'
  BY <1>a, <1>b, <1>e, <1>g, Bounds DEF DeregisterUnlink, KobjAccounted, RegisterPcs,
     RegisterOf, RemoveOf, IoctlPcs, regVars, modeVars
<1> QED
  BY <1>1, <1>2, <1>3, <1>4, <1>5, <1>6 DEF ListIInv


\* The directory goes, and its name is free again.
LEMMA DeregisterPutKept ==
    ASSUME TypeInv, TypeInv', ListIInv, careful, NEW t \in Thread, DeregisterPut(t)
    PROVE  ListIInv'
<1>a. OneCall /\ NumberInv /\ OneName /\ CycleInv /\ CallInv /\ KobjAccounted
  BY DEF ListIInv
<1>b. /\ RestType /\ node \in [Reg -> NodeType] /\ th \in [Thread -> ThType]
      /\ ThreadOf(th[t]) /\ th[t] \in ThType
  BY TypeForm
<1>c. \A u \in Thread : u # t => th[u].pc \notin IoctlPcs
  BY <1>a DEF DeregisterPut, OneCall, IoctlPcs
<1>d. /\ \A u \in Thread : u # t => th'[u] = th[u]
      /\ th'[t].pc = "free" /\ th'[t].dev = th[t].dev /\ th'[t].reg = th[t].reg /\ th'[t].at = th[t].at /\ th'[t].prev = th[t].prev
  <2>1. Goto(t, "free") /\ "free" \in AllPcs
    BY DEF DeregisterPut, AllPcs, IoctlPcs
  <2> QED
    BY <1>b, <2>1, GotoForm
<1>e. /\ At({"handler"}) = {} /\ At(RegisterPcs) = {} /\ Removing = {th[t].at}
      /\ At({"handler"})' = {} /\ At(RegisterPcs)' = {} /\ Removing' = {th[t].at}
  <2>1. \A u \in Thread : u # t => th'[u].pc \notin IoctlPcs
    BY <1>c, <1>d
  <2> QED
    BY <1>c, <1>d, <2>1, SoleCall, SoleCallNext DEF DeregisterPut, RegisterPcs, RemovePcs
<1>f. InList' = InList /\ Chain' = InList' \cup {0} /\ InList \subseteq Reg
  BY <1>b, <1>e DEF DeregisterPut, InList, Chain, RestType, ThreadOf, RegisterPcs, modeVars
<1>g. th[t].pc \in IoctlPcs => RegisterOf(th[t]) /\ RemoveOf(th[t])
  BY <1>a DEF CallInv
<1>h. /\ th[t].pc = "put" /\ th[t].at \in Reg /\ th[t].at \in listed /\ kobj[th[t].at] = "live"
      /\ node[th[t].at].obj = th[t].at /\ th[t].at \notin failed
  <2>1. th[t].pc = "put" /\ Readable(th[t].at) /\ th[t].at \in Reg
    BY <1>b DEF DeregisterPut, ThreadOf, RemovePcs
  <2>2. RemoveOf(th[t])
    BY <1>g, <2>1 DEF IoctlPcs
  <2>3. NumberOf(th[t].at)
    BY <1>a, <2>1 DEF NumberInv
  <2> QED
    BY <2>1, <2>2, <2>3 DEF RemoveOf, RemovePcs, NumberOf, Readable
<1>i. /\ kobj'[th[t].at] = "put" /\ \A n \in Reg : n # th[t].at => kobj'[n] = kobj[n]
      /\ UNCHANGED <<careful, regs, dev, device_obj, failed, listed, node, next>>
  <2>1. kobj' = [kobj EXCEPT ![th[t].at] = "put"]
    BY <1>h DEF DeregisterPut
  <2> QED
    BY <1>b, <1>h, <2>1 DEF DeregisterPut, RestType, modeVars
<1>1. OneCall'
  BY <1>c, <1>d DEF OneCall
<1>2. NumberInv'
  <2> SUFFICES ASSUME NEW n \in Reg PROVE NumberOf(n)'
    BY DEF NumberInv
  <2>1. NumberOf(n)
    BY <1>a DEF NumberInv
  <2>2. th[t].pc # "free" => ~(node[n].mem = "live" /\ kobj[n] = "put")
    BY <1>c, <2>1 DEF NumberOf, IoctlPcs
  <2> QED
    <3>1. CASE n = th[t].at
      BY <1>d, <1>f, <1>h, <1>i, <2>1, <3>1 DEF NumberOf
    <3>2. CASE n # th[t].at
      BY <1>f, <1>h, <1>i, <2>1, <2>2, <3>2 DEF NumberOf
    <3> QED
      BY <3>1, <3>2
<1>3. OneName'
  BY <1>a, <1>h, <1>i DEF OneName
<1>4. CycleInv'
  BY <1>a, <1>f DEF DeregisterPut, CycleInv, Chain
<1>5. CallInv'
  <2>1. ASSUME NEW u \in Thread, u # t PROVE RegisterOf(th[u])' /\ RemoveOf(th[u])'
    BY <1>c, <1>d, <2>1 DEF RegisterOf, RemoveOf, RegisterPcs, RemovePcs, IoctlPcs
  <2>2. RegisterOf(th[t])'
    BY <1>a, <1>b, <1>d, <1>f, <1>g, Bounds DEF DeregisterPut, RegisterOf, RestType,
       RegisterPcs, IoctlPcs, Chain, modeVars
  <2>3. RemoveOf(th[t])'
    <3>1. \A k \in Reg : kobj'[k] \in {"bare", "live"} => dev'[k] # dev'[th[t].at]
      BY <1>a, <1>h, <1>i DEF OneName
    <3> QED
      BY <1>d, <1>h, <1>i, <3>1 DEF RemoveOf, RemovePcs
  <2> QED
    BY <2>1, <2>2, <2>3 DEF CallInv
<1>6. KobjAccounted'
  <2>1. {n \in Reg : kobj'[n] \in {"bare", "live"}} = {n \in Reg : kobj[n] \in {"bare", "live"}} \ {th[t].at}
    BY <1>h, <1>i
  <2>2. {n \in Removing : kobj[n] = "put"} = {} /\ {n \in Removing' : kobj'[n] = "put"} = {th[t].at}
    BY <1>e, <1>h, <1>i
  <2> QED
    BY <1>a, <1>e, <1>h, <1>i, <2>1, <2>2 DEF KobjAccounted, RegisterPcs
<1> QED
  BY <1>1, <1>2, <1>3, <1>4, <1>5, <1>6 DEF ListIInv


\* The node is freed.
LEMMA DeregisterFreeKept ==
    ASSUME TypeInv, TypeInv', ListIInv, careful, NEW t \in Thread, DeregisterFree(t)
    PROVE  ListIInv'
<1>a. OneCall /\ NumberInv /\ OneName /\ CycleInv /\ CallInv /\ KobjAccounted
  BY DEF ListIInv
<1>b. /\ RestType /\ node \in [Reg -> NodeType] /\ th \in [Thread -> ThType]
      /\ ThreadOf(th[t]) /\ th[t] \in ThType
  BY TypeForm
<1>c. \A u \in Thread : u # t => th[u].pc \notin IoctlPcs
  BY <1>a DEF DeregisterFree, OneCall, IoctlPcs
<1>d. /\ \A u \in Thread : u # t => th'[u] = th[u]
      /\ th'[t].pc = "idle"
  BY <1>b, ReturnForm DEF DeregisterFree
<1>e. /\ At({"handler"}) = {} /\ At(RegisterPcs) = {} /\ Removing = {th[t].at}
      /\ At({"handler"})' = {} /\ At(RegisterPcs)' = {} /\ Removing' = {}
  <2>1. \A u \in Thread : u # t => th'[u].pc \notin IoctlPcs
    BY <1>c, <1>d
  <2> QED
    BY <1>c, <1>d, <2>1, SoleCall, SoleCallNext DEF DeregisterFree, RegisterPcs, RemovePcs
<1>f. InList' = InList /\ Chain' = InList' \cup {0} /\ InList \subseteq Reg
  BY <1>b, <1>e DEF DeregisterFree, InList, Chain, RestType, ThreadOf, RegisterPcs, modeVars
<1>g. th[t].pc \in IoctlPcs => RegisterOf(th[t]) /\ RemoveOf(th[t])
  BY <1>a DEF CallInv
<1>h. /\ th[t].pc = "free" /\ th[t].at \in Reg /\ kobj[th[t].at] = "put"
      /\ node[th[t].at].mem = "live"
  <2>1. th[t].pc = "free" /\ th[t].at \in Reg
    BY <1>b DEF DeregisterFree, ThreadOf, RemovePcs
  <2> QED
    BY <1>a, <1>g, <2>1 DEF RemoveOf, RemovePcs, IoctlPcs, NumberInv, NumberOf
<1>i. /\ node'[th[t].at].mem = "freed" /\ node'[th[t].at].obj = node[th[t].at].obj
      /\ \A n \in Reg : n # th[t].at => node'[n] = node[n]
      /\ listed' = listed \ {th[t].at} /\ UNCHANGED <<regs, dev, kobj, failed, next>>
  BY <1>b, <1>h, FreeForm DEF DeregisterFree, NodeType
<1>1. OneCall'
  BY <1>c, <1>d DEF OneCall
<1>2. NumberInv'
  <2> SUFFICES ASSUME NEW n \in Reg PROVE NumberOf(n)'
    BY DEF NumberInv
  <2>1. NumberOf(n)
    BY <1>a DEF NumberInv
  <2> QED
    <3>1. CASE n = th[t].at
      BY <1>e, <1>f, <1>h, <1>i, <2>1, <3>1 DEF NumberOf
    <3>2. CASE n # th[t].at
      <4>1. ~(node[n].mem = "live" /\ kobj[n] = "put")
        BY <1>c, <2>1, <3>2 DEF NumberOf, IoctlPcs
      <4> QED
        BY <1>f, <1>i, <2>1, <3>2, <4>1 DEF NumberOf
    <3> QED
      BY <3>1, <3>2
<1>3. OneName'
  BY <1>a DEF DeregisterFree, OneName, modeVars
<1>4. CycleInv'
  BY <1>a, <1>f DEF DeregisterFree, CycleInv, Chain
<1>5. CallInv'
  <2>1. ASSUME NEW u \in Thread, u # t PROVE RegisterOf(th[u])' /\ RemoveOf(th[u])'
    BY <1>c, <1>d, <2>1 DEF RegisterOf, RemoveOf, RegisterPcs, RemovePcs, IoctlPcs
  <2>2. RegisterOf(th[t])'
    BY <1>a, <1>b, <1>d, <1>f, <1>g, Bounds DEF DeregisterFree, RegisterOf, RestType,
       RegisterPcs, IoctlPcs, Chain, modeVars
  <2>3. RemoveOf(th[t])'
    BY <1>a, <1>b, <1>d, <1>f, <1>g, Bounds DEF DeregisterFree, RemoveOf, RestType,
       RemovePcs, IoctlPcs, Chain, modeVars
  <2> QED
    BY <2>1, <2>2, <2>3 DEF CallInv
<1>6. KobjAccounted'
  BY <1>a, <1>b, <1>e, <1>g, Bounds DEF DeregisterFree, KobjAccounted, RegisterPcs,
     RegisterOf, RemoveOf, IoctlPcs, modeVars
<1> QED
  BY <1>1, <1>2, <1>3, <1>4, <1>5, <1>6 DEF ListIInv



-----------------------------------------------------------------------------
(* The faults *)

\* A node that exists has the directory of its registration.
LEMMA NodeName ==
    ASSUME TypeInv, ListIInv, careful, NEW n \in Reg
    PROVE  /\ node[n].mem # "none" => node[n].obj = n /\ kobj[n] \in {"live", "put"}
           /\ Readable(n) => node[n].mem = "live" /\ node[n].obj = n /\ kobj[n] = "live"
<1>1. NumberOf(n)
  BY DEF ListIInv, NumberInv
<1> QED
  BY <1>1 DEF NumberOf, Readable

\* A reader that has found its node may read it.
LEMMA ReaderHolds ==
    ASSUME TypeInv, ListIInv, FaultIInv, careful, NEW t \in Thread, th[t].pc \in ReadPcs
    PROVE  /\ Readable(th[t].at) /\ th[t].at \in Reg /\ th[t].reg = th[t].at
           /\ node[th[t].at].mem = "live" /\ node[th[t].at].flag /\ node[th[t].at].obj = th[t].at
<1>1. ReaderOf(th[t]) /\ th[t].at \in Reg /\ th[t].pc \in ShowPcs
  BY TypeForm DEF FaultIInv, ThreadOf, ReadPcs, ShowPcs
<1>2. node[th[t].at].obj = th[t].at
  BY <1>1, NodeName DEF ReaderOf
<1> QED
  BY <1>1, <1>2, Bounds DEF ReaderOf, Readable

\* A call of an ioctl leaves the faults alone: it changes no node that is in
\* use, frees one only when its directory is gone, and removes no directory
\* that is being read.
LEMMA FaultQuiet ==
    ASSUME TypeInv, ListIInv, FaultIInv, careful, TokenInv', UNCHANGED <<careful, recorded, returned>>,
           \A u \in Thread : \/ th[u].pc \in IoctlPcs \cup {"idle"} /\ th'[u].pc \in IoctlPcs \cup {"idle"}
                             \/ th'[u] = th[u],
           \A n \in Reg : kobj[n] # "none" => kobj'[n] # "none" /\ dev'[n] = dev[n],
           \A u \in Thread : th[u].pc \in ShowPcs => kobj'[th[u].reg] = kobj[th[u].reg],
           \A n \in Reg : node[n].mem # "none" =>
               /\ node'[n].obj = node[n].obj /\ node'[n].fsr = node[n].fsr
               /\ node'[n].iova = node[n].iova /\ node'[n].flag = node[n].flag
               /\ \/ node'[n].mem = node[n].mem
                  \/ node'[n].mem = "freed" /\ kobj[n] = "put"
    PROVE  FaultIInv'
<1>a. /\ OneFault /\ OneReader /\ StoredInv /\ FaultReported
      /\ \A u \in Thread : FaultOf(th[u]) /\ ReaderOf(th[u])
  BY DEF FaultIInv
<1>b. RestType /\ \A u \in Thread : ThreadOf(th[u])
  BY TypeForm
<1>c. \A r \in recorded : r[3] \in Reg
  BY <1>b DEF RestType
<1>d. \A u \in Thread : \/ th'[u].pc \notin FaultPcs /\ th'[u].pc \notin ShowPcs
                                /\ th[u].pc \notin FaultPcs /\ th[u].pc \notin ShowPcs
                        \/ th'[u] = th[u]
  BY DEF IoctlPcs, FaultPcs, ShowPcs
<1>1. OneFault'
  BY <1>a, <1>d DEF OneFault
<1>2. OneReader'
  BY <1>a, <1>d DEF OneReader
<1>3. StoredInv'
  BY <1>a, <1>c DEF StoredInv
<1>4. ASSUME NEW u \in Thread PROVE FaultOf(th[u])'
  <2>1. CASE th'[u].pc \notin FaultPcs
    BY <2>1 DEF FaultOf, FaultPcs, StorePcs
  <2>2. CASE th'[u].pc \in FaultPcs /\ th'[u] = th[u]
    <3>1. FaultOf(th[u]) /\ th[u].pc \in FaultPcs /\ th[u].reg \in Reg
      BY <1>a, <1>b, <2>2 DEF ThreadOf
    <3>2. th[u].pc \in StorePcs => th[u].at \in Reg
      BY <1>b DEF ThreadOf
    <3>3. kobj'[th[u].reg] # "none" /\ dev'[th[u].reg] = th[u].dev
      BY <3>1 DEF FaultOf
    <3>4. ASSUME th[u].pc \in StorePcs
          PROVE  /\ node[th[u].at].mem # "none" /\ dev'[th[u].at] = th[u].dev
                 /\ node'[th[u].at].fsr = node[th[u].at].fsr /\ node'[th[u].at].mem # "none"
                 /\ node'[th[u].at].iova = node[th[u].at].iova /\ ~node'[th[u].at].flag
      <4>1. node[th[u].at].mem # "none" /\ dev[th[u].at] = th[u].dev /\ ~node[th[u].at].flag
        BY <3>1, <3>4 DEF FaultOf
      <4>2. kobj[th[u].at] # "none"
        BY <3>2, <3>4, <4>1, NodeName
      <4> QED
        BY <3>2, <3>4, <4>1, <4>2
    <3>5. th[u].pc \in {"iova", "flag"} => th[u].pc \in StorePcs
      BY DEF StorePcs
    <3> QED
      BY <2>2, <3>1, <3>3, <3>4, <3>5 DEF FaultOf
  <2> QED
    BY <1>d, <2>1, <2>2
<1>5. ASSUME NEW u \in Thread PROVE ReaderOf(th[u])'
  <2>1. CASE th'[u].pc \notin ShowPcs
    BY <2>1 DEF ReaderOf, ShowPcs, ReadPcs
  <2>2. CASE th'[u].pc \in ShowPcs /\ th'[u] = th[u]
    <3>1. ReaderOf(th[u]) /\ th[u].pc \in ShowPcs /\ th[u].reg \in Reg
      BY <1>a, <1>b, <2>2 DEF ThreadOf
    <3>2. kobj'[th[u].reg] = "live" /\ kobj[th[u].reg] = "live" /\ node[th[u].reg].mem = "live"
      BY <3>1 DEF ReaderOf
    <3>3. /\ node'[th[u].reg].mem = "live" /\ node'[th[u].reg].flag = node[th[u].reg].flag
          /\ node'[th[u].reg].fsr = node[th[u].reg].fsr /\ node'[th[u].reg].iova = node[th[u].reg].iova
      BY <3>1, <3>2
    <3> QED
      BY <2>2, <3>1, <3>2, <3>3 DEF ReaderOf
  <2> QED
    BY <1>d, <2>1, <2>2
<1>6. FaultReported'
  <2> SUFFICES ASSUME NEW r \in recorded
               PROVE  /\ dev'[node'[r[3]].obj] = r[2]
                      /\ \/ node'[r[3]].flag /\ node'[r[3]].fsr = r[1] /\ node'[r[3]].iova = r[1]
                         \/ <<r[1], r[1]>> \in returned'
                         \/ \E t \in Thread : /\ th'[t].pc \in {"clear", "unflag"} /\ th'[t].at = r[3]
                                              /\ th'[t].fsr = r[1] /\ th'[t].iova = r[1]
                         \/ node'[r[3]].mem = "freed"
    BY DEF FaultReported
  <2>1. r[3] \in Reg /\ node[r[3]].mem # "none"
    BY <1>a, <1>c DEF StoredInv
  <2>2. node[r[3]].obj = r[3] /\ kobj[r[3]] # "none"
    BY <2>1, NodeName
  <2>3. dev'[node'[r[3]].obj] = r[2]
    <3>1. dev[node[r[3]].obj] = r[2]
      BY <1>a DEF FaultReported
    <3>2. dev'[r[3]] = dev[r[3]] /\ node'[r[3]].obj = r[3]
      BY <2>1, <2>2
    <3> QED
      BY <2>2, <3>1, <3>2
  <2>4. CASE \E t \in Thread : /\ th[t].pc \in {"clear", "unflag"} /\ th[t].at = r[3]
                               /\ th[t].fsr = r[1] /\ th[t].iova = r[1]
    <3> PICK t \in Thread : /\ th[t].pc \in {"clear", "unflag"} /\ th[t].at = r[3]
                            /\ th[t].fsr = r[1] /\ th[t].iova = r[1]
      BY <2>4
    <3>1. th'[t] = th[t]
      BY <1>d DEF ShowPcs
    <3> QED
      BY <2>3, <3>1
  <2>5. CASE node[r[3]].flag /\ node[r[3]].fsr = r[1] /\ node[r[3]].iova = r[1]
    BY <2>1, <2>3, <2>5
  <2>6. CASE <<r[1], r[1]>> \in returned \/ node[r[3]].mem = "freed"
    BY <2>1, <2>3, <2>6
  <2> QED
    BY <1>a, <2>4, <2>5, <2>6 DEF FaultReported
<1> QED
  BY <1>1, <1>2, <1>3, <1>4, <1>5, <1>6 DEF FaultIInv

\* A step of a handler or a reader that changes no node moves one thread.
LEMMA FaultMoves ==
    ASSUME TypeInv, FaultIInv, careful, NEW t \in Thread,
           UNCHANGED <<careful, dev, kobj, node, handler, recorded>>, returned \subseteq returned',
           \A u \in Thread : u # t => th'[u] = th[u],
           FaultOf(th[t])', ReaderOf(th[t])',
           \A u \in Thread : u # t /\ th[u].pc \in FaultPcs /\ th'[t].pc \in FaultPcs
                                 => th[u].dev # th'[t].dev,
           \A u \in Thread : u # t /\ th[u].pc \in ShowPcs /\ th'[t].pc \in ShowPcs
                                 => th[u].reg # th'[t].reg,
           th[t].pc \in {"clear", "unflag"} =>
               /\ th'[t].pc \in {"clear", "unflag"} /\ th'[t].at = th[t].at
               /\ th'[t].fsr = th[t].fsr /\ th'[t].iova = th[t].iova
    PROVE  FaultIInv'
<1>a. /\ TokenInv /\ OneFault /\ OneReader /\ StoredInv /\ FaultReported
      /\ \A u \in Thread : FaultOf(th[u]) /\ ReaderOf(th[u])
  BY DEF FaultIInv
<1>1. TokenInv' /\ StoredInv'
  BY <1>a DEF TokenInv, StoredInv
<1>2. OneFault'
  BY <1>a DEF OneFault
<1>3. OneReader'
  BY <1>a DEF OneReader
<1>4. ASSUME NEW u \in Thread PROVE FaultOf(th[u])' /\ ReaderOf(th[u])'
  <2>1. CASE u # t
    BY <1>a, <2>1 DEF FaultOf, ReaderOf
  <2> QED
    BY <2>1
<1>5. FaultReported'
  <2> SUFFICES ASSUME NEW r \in recorded
               PROVE  /\ dev[node[r[3]].obj] = r[2]
                      /\ \/ node[r[3]].flag /\ node[r[3]].fsr = r[1] /\ node[r[3]].iova = r[1]
                         \/ <<r[1], r[1]>> \in returned'
                         \/ \E u \in Thread : /\ th'[u].pc \in {"clear", "unflag"} /\ th'[u].at = r[3]
                                              /\ th'[u].fsr = r[1] /\ th'[u].iova = r[1]
                         \/ node[r[3]].mem = "freed"
    BY DEF FaultReported
  <2>1. CASE \E u \in Thread : /\ th[u].pc \in {"clear", "unflag"} /\ th[u].at = r[3]
                               /\ th[u].fsr = r[1] /\ th[u].iova = r[1]
    <3> PICK u \in Thread : /\ th[u].pc \in {"clear", "unflag"} /\ th[u].at = r[3]
                            /\ th[u].fsr = r[1] /\ th[u].iova = r[1]
      BY <2>1
    <3>1. /\ th'[u].pc \in {"clear", "unflag"} /\ th'[u].at = r[3]
          /\ th'[u].fsr = r[1] /\ th'[u].iova = r[1]
      OBVIOUS
    <3> QED
      BY <1>a, <3>1 DEF FaultReported
  <2> QED
    BY <1>a, <2>1 DEF FaultReported
<1> QED
  BY <1>1, <1>2, <1>3, <1>4, <1>5 DEF FaultIInv

\* The other threads when one writes a node: none of them is storing a fault
\* there or has read a value that changes.
LEMMA NodeWrite ==
    ASSUME TypeInv, FaultIInv, careful, NEW t \in Thread, NEW a \in Reg,
           UNCHANGED <<careful, dev, kobj, handler>>,
           \A n \in Reg : n # a => node'[n] = node[n],
           node'[a].mem = node[a].mem, node'[a].obj = node[a].obj, node[a].mem # "none",
           \A u \in Thread : u # t => th'[u] = th[u],
           th'[t].pc \in FaultPcs => th[t].pc \in FaultPcs /\ th'[t].dev = th[t].dev,
           th'[t].pc \in ShowPcs => th[t].pc \in ShowPcs /\ th'[t].reg = th[t].reg,
           \A u \in Thread : u # t /\ th[u].pc \in StorePcs => th[u].at # a,
           \A u \in Thread : u # t /\ th[u].pc \in ShowPcs => th[u].reg # a,
           FaultOf(th[t])', ReaderOf(th[t])',
           \A r \in recorded' \ recorded : r[3] = a
    PROVE  /\ TokenInv' /\ OneFault' /\ OneReader' /\ StoredInv'
           /\ \A u \in Thread : FaultOf(th[u])' /\ ReaderOf(th[u])'
<1>a. /\ TokenInv /\ OneFault /\ OneReader /\ StoredInv
      /\ \A u \in Thread : FaultOf(th[u]) /\ ReaderOf(th[u])
  BY DEF FaultIInv
<1>b. \A u \in Thread : ThreadOf(th[u])
  BY TypeForm
<1>1. TokenInv' /\ OneFault' /\ OneReader'
  BY <1>a DEF TokenInv, OneFault, OneReader
<1>2. StoredInv'
  <2> SUFFICES ASSUME NEW r \in recorded' PROVE node'[r[3]].mem # "none"
    BY DEF StoredInv
  <2>1. r \in recorded => r[3] \in Reg
    BY TypeForm DEF RestType
  <2>2. r \in recorded => node[r[3]].mem # "none"
    BY <1>a DEF StoredInv
  <2> QED
    BY <2>1, <2>2
<1>3. ASSUME NEW u \in Thread, u # t PROVE FaultOf(th[u])'
  <2>1. FaultOf(th[u]) /\ th'[u] = th[u]
    BY <1>a, <1>3
  <2>2. th[u].pc \in StorePcs => node'[th[u].at] = node[th[u].at]
    BY <1>b, <1>3 DEF ThreadOf
  <2>3. th[u].pc \in {"iova", "flag"} => th[u].pc \in StorePcs
    BY DEF StorePcs
  <2> QED
    BY <2>1, <2>2, <2>3 DEF FaultOf
<1>4. ASSUME NEW u \in Thread, u # t PROVE ReaderOf(th[u])'
  <2>1. ReaderOf(th[u]) /\ th'[u] = th[u]
    BY <1>a, <1>4
  <2>2. th[u].pc \in ShowPcs => node'[th[u].reg] = node[th[u].reg]
    BY <1>b, <1>4 DEF ThreadOf
  <2>3. th[u].pc \in {"readIova", "clear", "unflag"} => th[u].pc \in ShowPcs
    BY DEF ShowPcs
  <2> QED
    BY <2>1, <2>2, <2>3 DEF ReaderOf
<1> QED
  BY <1>1, <1>2, <1>3, <1>4


-----------------------------------------------------------------------------
(* The steps of the fault handler and of readers *)

\* A fault of a device starts its handler, with a token of that device.
LEMMA FaultKept ==
    ASSUME TypeInv, TypeInv', ListIInv, FaultIInv, careful,
           NEW t \in Thread, NEW d \in Dev, Fault(t, d)
    PROVE  ListIInv' /\ FaultIInv'
<1>a. /\ TokenInv /\ OneFault /\ OneReader /\ FaultReported
      /\ \A u \in Thread : FaultOf(th[u]) /\ ReaderOf(th[u])
  BY DEF FaultIInv
<1>b. /\ RestType /\ node \in [Reg -> NodeType] /\ th \in [Thread -> ThType]
      /\ ThreadOf(th[t]) /\ th[t] \in ThType
  BY TypeForm
<1>c. /\ \A u \in Thread : u # t => th'[u] = th[u]
      /\ th'[t].pc = "fault" /\ th'[t].dev = d /\ th'[t].reg = handler[d]
  BY FaultForm
<1>1. ListIInv'
  <2>1. UNCHANGED <<careful, regs, dev, kobj, next, device_obj, failed, listed>>
    BY DEF Fault, regVars, modeVars
  <2>2. \A n \in Reg : node'[n].mem = node[n].mem /\ node'[n].obj = node[n].obj
    BY DEF Fault
  <2>3. th[t].pc \notin IoctlPcs /\ th'[t].pc \notin IoctlPcs
    BY <1>c DEF Fault, IoctlPcs, CanStart
  <2> QED
    BY <1>c, <2>1, <2>2, <2>3, ListQuiet
<1>2. FaultIInv'
  <2>1. UNCHANGED <<careful, dev, kobj, node, handler, recorded>> /\ returned \subseteq returned'
    BY DEF Fault, regVars, faultVars, modeVars
  <2>2. FaultOf(th[t])'
    <3>1. kobj[handler[d]] # "none" /\ dev[handler[d]] = d
      BY <1>a DEF Fault, TokenInv
    <3> QED
      BY <1>c, <2>1, <3>1 DEF FaultOf, StorePcs
  <2>3. ReaderOf(th[t])'
    BY <1>c DEF ReaderOf, ShowPcs, ReadPcs
  <2>4. \A u \in Thread : u # t /\ th[u].pc \in FaultPcs /\ th'[t].pc \in FaultPcs
                            => th[u].dev # th'[t].dev
    BY <1>c DEF Fault
  <2>5. \A u \in Thread : u # t /\ th[u].pc \in ShowPcs /\ th'[t].pc \in ShowPcs
                            => th[u].reg # th'[t].reg
    BY <1>c DEF ShowPcs
  <2>6. th[t].pc \in {"clear", "unflag"} =>
            /\ th'[t].pc \in {"clear", "unflag"} /\ th'[t].at = th[t].at
            /\ th'[t].fsr = th[t].fsr /\ th'[t].iova = th[t].iova
    BY DEF Fault, CanStart
  <2> QED
    BY <1>c, <2>1, <2>2, <2>3, <2>4, <2>5, <2>6, FaultMoves
<1> QED
  BY <1>1, <1>2


\* The handler walks on.
LEMMA FaultWalkKept ==
    ASSUME TypeInv, TypeInv', ListIInv, FaultIInv, careful,
           NEW t \in Thread, FaultWalk(t)
    PROVE  ListIInv' /\ FaultIInv'
<1>a. /\ TokenInv /\ OneFault /\ OneReader /\ FaultReported
      /\ \A u \in Thread : FaultOf(th[u]) /\ ReaderOf(th[u])
  BY DEF FaultIInv
<1>b. /\ RestType /\ node \in [Reg -> NodeType] /\ th \in [Thread -> ThType]
      /\ ThreadOf(th[t]) /\ th[t] \in ThType
  BY TypeForm
<1>c. /\ \A u \in Thread : u # t => th'[u] = th[u]
      /\ th'[t].pc = "fault" /\ th'[t].dev = th[t].dev /\ th'[t].reg = th[t].reg
  <2>1. Visit(t, next[th[t].at]) /\ next[th[t].at] \in 0 .. MaxReg /\ th[t].pc = "fault"
    BY <1>b DEF FaultWalk, ThType, RestType
  <2> QED
    BY <1>b, <2>1, VisitForm
<1>1. ListIInv'
  <2>1. UNCHANGED <<careful, regs, dev, kobj, next, device_obj, failed, listed>>
    BY DEF FaultWalk, regVars, modeVars
  <2>2. \A n \in Reg : node'[n].mem = node[n].mem /\ node'[n].obj = node[n].obj
    BY DEF FaultWalk
  <2>3. th[t].pc \notin IoctlPcs /\ th'[t].pc \notin IoctlPcs
    BY <1>c DEF FaultWalk, IoctlPcs
  <2> QED
    BY <1>c, <2>1, <2>2, <2>3, ListQuiet
<1>2. FaultIInv'
  <2>1. UNCHANGED <<careful, dev, kobj, node, handler, recorded>> /\ returned \subseteq returned'
    BY DEF FaultWalk, regVars, faultVars, modeVars
  <2>2. FaultOf(th[t])'
    <3>1. kobj[th[t].reg] # "none" /\ dev[th[t].reg] = th[t].dev
      BY <1>a DEF FaultWalk, FaultOf, FaultPcs
    <3> QED
      BY <1>c, <2>1, <3>1 DEF FaultOf, StorePcs
  <2>3. ReaderOf(th[t])'
    BY <1>c DEF ReaderOf, ShowPcs, ReadPcs
  <2>4. \A u \in Thread : u # t /\ th[u].pc \in FaultPcs /\ th'[t].pc \in FaultPcs
                            => th[u].dev # th'[t].dev
    BY <1>a, <1>c DEF FaultWalk, OneFault, FaultPcs
  <2>5. \A u \in Thread : u # t /\ th[u].pc \in ShowPcs /\ th'[t].pc \in ShowPcs
                            => th[u].reg # th'[t].reg
    BY <1>c DEF ShowPcs
  <2>6. th[t].pc \in {"clear", "unflag"} =>
            /\ th'[t].pc \in {"clear", "unflag"} /\ th'[t].at = th[t].at
            /\ th'[t].fsr = th[t].fsr /\ th'[t].iova = th[t].iova
    BY DEF FaultWalk
  <2> QED
    BY <1>c, <2>1, <2>2, <2>3, <2>4, <2>5, <2>6, FaultMoves
<1> QED
  BY <1>1, <1>2


\* It finds no node.
LEMMA FaultEndKept ==
    ASSUME TypeInv, TypeInv', ListIInv, FaultIInv, careful,
           NEW t \in Thread, FaultEnd(t)
    PROVE  ListIInv' /\ FaultIInv'
<1>a. /\ TokenInv /\ OneFault /\ OneReader /\ FaultReported
      /\ \A u \in Thread : FaultOf(th[u]) /\ ReaderOf(th[u])
  BY DEF FaultIInv
<1>b. /\ RestType /\ node \in [Reg -> NodeType] /\ th \in [Thread -> ThType]
      /\ ThreadOf(th[t]) /\ th[t] \in ThType
  BY TypeForm
<1>c. th'[t].pc = "idle" /\ \A u \in Thread : u # t => th'[u] = th[u]
  BY <1>b, ReturnForm DEF FaultEnd
<1>1. ListIInv'
  <2>1. UNCHANGED <<careful, regs, dev, kobj, next, device_obj, failed, listed>>
    BY DEF FaultEnd, regVars, modeVars
  <2>2. \A n \in Reg : node'[n].mem = node[n].mem /\ node'[n].obj = node[n].obj
    BY DEF FaultEnd
  <2>3. th[t].pc \notin IoctlPcs /\ th'[t].pc \notin IoctlPcs
    BY <1>c DEF FaultEnd, IoctlPcs
  <2> QED
    BY <1>c, <2>1, <2>2, <2>3, ListQuiet
<1>2. FaultIInv'
  <2>1. UNCHANGED <<careful, dev, kobj, node, handler, recorded>> /\ returned \subseteq returned'
    BY DEF FaultEnd, regVars, faultVars, modeVars
  <2>2. FaultOf(th[t])'
    BY <1>c DEF FaultOf, FaultPcs, StorePcs
  <2>3. ReaderOf(th[t])'
    BY <1>c DEF ReaderOf, ShowPcs, ReadPcs
  <2>4. \A u \in Thread : u # t /\ th[u].pc \in FaultPcs /\ th'[t].pc \in FaultPcs
                            => th[u].dev # th'[t].dev
    BY <1>c DEF FaultPcs
  <2>5. \A u \in Thread : u # t /\ th[u].pc \in ShowPcs /\ th'[t].pc \in ShowPcs
                            => th[u].reg # th'[t].reg
    BY <1>c DEF ShowPcs
  <2>6. th[t].pc \in {"clear", "unflag"} =>
            /\ th'[t].pc \in {"clear", "unflag"} /\ th'[t].at = th[t].at
            /\ th'[t].fsr = th[t].fsr /\ th'[t].iova = th[t].iova
    BY DEF FaultEnd
  <2> QED
    BY <1>c, <2>1, <2>2, <2>3, <2>4, <2>5, <2>6, FaultMoves
<1> QED
  BY <1>1, <1>2


\* It finds a node of its device that has no fault yet.
LEMMA FaultMatchKept ==
    ASSUME TypeInv, TypeInv', ListIInv, FaultIInv, careful,
           NEW t \in Thread, FaultMatch(t)
    PROVE  ListIInv' /\ FaultIInv'
<1>a. /\ TokenInv /\ OneFault /\ OneReader /\ FaultReported
      /\ \A u \in Thread : FaultOf(th[u]) /\ ReaderOf(th[u])
  BY DEF FaultIInv
<1>b. /\ RestType /\ node \in [Reg -> NodeType] /\ th \in [Thread -> ThType]
      /\ ThreadOf(th[t]) /\ th[t] \in ThType
  BY TypeForm
<1>c. /\ \A u \in Thread : u # t => th'[u] = th[u]
      /\ th'[t].pc = "fsr" /\ th'[t].dev = th[t].dev /\ th'[t].reg = th[t].reg
      /\ th'[t].at = th[t].at /\ th'[t].fsr = th[t].fsr /\ th'[t].iova = th[t].iova
  <2>1. Goto(t, "fsr") /\ "fsr" \in AllPcs
    BY DEF FaultMatch, AllPcs, FaultPcs, ShowPcs
  <2> QED
    BY <1>b, <2>1, GotoForm
<1>1. ListIInv'
  <2>1. UNCHANGED <<careful, regs, dev, kobj, next, device_obj, failed, listed>>
    BY DEF FaultMatch, regVars, modeVars
  <2>2. \A n \in Reg : node'[n].mem = node[n].mem /\ node'[n].obj = node[n].obj
    BY DEF FaultMatch
  <2>3. th[t].pc \notin IoctlPcs /\ th'[t].pc \notin IoctlPcs
    BY <1>c DEF FaultMatch, IoctlPcs
  <2> QED
    BY <1>c, <2>1, <2>2, <2>3, ListQuiet
<1>2. FaultIInv'
  <2>1. UNCHANGED <<careful, dev, kobj, node, handler, recorded>> /\ returned \subseteq returned'
    BY DEF FaultMatch, regVars, faultVars, modeVars
  <2>2. FaultOf(th[t])'
    <3>1. kobj[th[t].reg] # "none" /\ dev[th[t].reg] = th[t].dev
      BY <1>a DEF FaultMatch, FaultOf, FaultPcs
    <3>2. th[t].at \in Reg
      BY <1>b, Bounds DEF FaultMatch, ThType
    <3>3. node[th[t].at].mem = "live" /\ node[th[t].at].obj = th[t].at
      BY <3>2, NodeName DEF FaultMatch, Comparable
    <3>4. dev[th[t].at] = th[t].dev /\ ~node[th[t].at].flag
      BY <3>1, <3>3 DEF FaultMatch, Matches, Name
    <3> QED
      BY <1>c, <2>1, <3>1, <3>3, <3>4 DEF FaultOf
  <2>3. ReaderOf(th[t])'
    BY <1>c DEF ReaderOf, ShowPcs, ReadPcs
  <2>4. \A u \in Thread : u # t /\ th[u].pc \in FaultPcs /\ th'[t].pc \in FaultPcs
                            => th[u].dev # th'[t].dev
    BY <1>a, <1>c DEF FaultMatch, OneFault, FaultPcs
  <2>5. \A u \in Thread : u # t /\ th[u].pc \in ShowPcs /\ th'[t].pc \in ShowPcs
                            => th[u].reg # th'[t].reg
    BY <1>c DEF ShowPcs
  <2>6. th[t].pc \in {"clear", "unflag"} =>
            /\ th'[t].pc \in {"clear", "unflag"} /\ th'[t].at = th[t].at
            /\ th'[t].fsr = th[t].fsr /\ th'[t].iova = th[t].iova
    BY DEF FaultMatch
  <2> QED
    BY <1>c, <2>1, <2>2, <2>3, <2>4, <2>5, <2>6, FaultMoves
<1> QED
  BY <1>1, <1>2


\* It gives up when memory it needs is gone.
LEMMA FaultMisuseKept ==
    ASSUME TypeInv, TypeInv', ListIInv, FaultIInv, careful,
           NEW t \in Thread, FaultMisuse(t)
    PROVE  ListIInv' /\ FaultIInv'
<1>a. /\ TokenInv /\ OneFault /\ OneReader /\ FaultReported
      /\ \A u \in Thread : FaultOf(th[u]) /\ ReaderOf(th[u])
  BY DEF FaultIInv
<1>b. /\ RestType /\ node \in [Reg -> NodeType] /\ th \in [Thread -> ThType]
      /\ ThreadOf(th[t]) /\ th[t] \in ThType
  BY TypeForm
<1>c. th'[t].pc = "idle" /\ \A u \in Thread : u # t => th'[u] = th[u]
  BY <1>b, ReturnForm DEF FaultMisuse, Misuse
<1>1. ListIInv'
  <2>1. UNCHANGED <<careful, regs, dev, kobj, next, device_obj, failed, listed>>
    BY DEF FaultMisuse, Misuse, regVars, modeVars
  <2>2. \A n \in Reg : node'[n].mem = node[n].mem /\ node'[n].obj = node[n].obj
    BY DEF FaultMisuse, Misuse
  <2>3. th[t].pc \notin IoctlPcs /\ th'[t].pc \notin IoctlPcs
    BY <1>c DEF FaultMisuse, IoctlPcs
  <2> QED
    BY <1>c, <2>1, <2>2, <2>3, ListQuiet
<1>2. FaultIInv'
  <2>1. UNCHANGED <<careful, dev, kobj, node, handler, recorded>> /\ returned \subseteq returned'
    BY DEF FaultMisuse, Misuse, regVars, faultVars, modeVars
  <2>2. FaultOf(th[t])'
    BY <1>c DEF FaultOf, FaultPcs, StorePcs
  <2>3. ReaderOf(th[t])'
    BY <1>c DEF ReaderOf, ShowPcs, ReadPcs
  <2>4. \A u \in Thread : u # t /\ th[u].pc \in FaultPcs /\ th'[t].pc \in FaultPcs
                            => th[u].dev # th'[t].dev
    BY <1>c DEF FaultPcs
  <2>5. \A u \in Thread : u # t /\ th[u].pc \in ShowPcs /\ th'[t].pc \in ShowPcs
                            => th[u].reg # th'[t].reg
    BY <1>c DEF ShowPcs
  <2>6. th[t].pc \in {"clear", "unflag"} =>
            /\ th'[t].pc \in {"clear", "unflag"} /\ th'[t].at = th[t].at
            /\ th'[t].fsr = th[t].fsr /\ th'[t].iova = th[t].iova
    BY DEF FaultMisuse
  <2> QED
    BY <1>c, <2>1, <2>2, <2>3, <2>4, <2>5, <2>6, FaultMoves
<1> QED
  BY <1>1, <1>2


\* A reader starts when it has been told of a fault.
LEMMA ShowKept ==
    ASSUME TypeInv, TypeInv', ListIInv, FaultIInv, careful,
           NEW t \in Thread, NEW k \in Reg, Show(t, k)
    PROVE  ListIInv' /\ FaultIInv'
<1>a. /\ TokenInv /\ OneFault /\ OneReader /\ FaultReported
      /\ \A u \in Thread : FaultOf(th[u]) /\ ReaderOf(th[u])
  BY DEF FaultIInv
<1>b. /\ RestType /\ node \in [Reg -> NodeType] /\ th \in [Thread -> ThType]
      /\ ThreadOf(th[t]) /\ th[t] \in ThType
  BY TypeForm
<1>c. /\ \A u \in Thread : u # t => th'[u] = th[u]
      /\ th'[t].pc = "show" /\ th'[t].reg = k
  BY ShowForm
<1>1. ListIInv'
  <2>1. UNCHANGED <<careful, regs, dev, kobj, next, device_obj, failed, listed>>
    BY DEF Show, regVars, modeVars
  <2>2. \A n \in Reg : node'[n].mem = node[n].mem /\ node'[n].obj = node[n].obj
    BY DEF Show
  <2>3. th[t].pc \notin IoctlPcs /\ th'[t].pc \notin IoctlPcs
    BY <1>c DEF Show, IoctlPcs, CanStart
  <2> QED
    BY <1>c, <2>1, <2>2, <2>3, ListQuiet
<1>2. FaultIInv'
  <2>1. UNCHANGED <<careful, dev, kobj, node, handler, recorded>> /\ returned \subseteq returned'
    BY DEF Show, regVars, faultVars, modeVars
  <2>2. FaultOf(th[t])'
    BY <1>c DEF FaultOf, FaultPcs, StorePcs
  <2>3. ReaderOf(th[t])'
    <3>1. kobj[k] = "live" /\ Notified(k)
      BY DEF Show
    <3> PICK n \in Reg : node[n].mem = "live" /\ node[n].flag /\ Name(node[n].obj) = Name(k)
      BY <3>1 DEF Notified
    <3>2. dev[n] = dev[k] /\ kobj[n] \in {"live", "put"}
      BY NodeName DEF Name
    <3>3. CASE kobj[n] = "put"
      <4>1. NumberOf(n) /\ \A u \in Thread : RemoveOf(th[u])
        BY DEF ListIInv, NumberInv, CallInv
      <4> PICK u \in Thread : th[u].pc = "free" /\ th[u].at = n
        BY <3>3, <4>1 DEF NumberOf
      <4> QED
        BY <3>1, <3>2, <4>1 DEF RemoveOf
    <3>4. CASE kobj[n] = "live"
      <4>1. n = k
        BY <3>1, <3>2, <3>4 DEF ListIInv, OneName
      <4> QED
        BY <1>c, <2>1, <3>1, <4>1 DEF ReaderOf, ReadPcs
    <3> QED
      BY <3>2, <3>3, <3>4
  <2>4. \A u \in Thread : u # t /\ th[u].pc \in FaultPcs /\ th'[t].pc \in FaultPcs
                            => th[u].dev # th'[t].dev
    BY <1>c DEF FaultPcs
  <2>5. \A u \in Thread : u # t /\ th[u].pc \in ShowPcs /\ th'[t].pc \in ShowPcs
                            => th[u].reg # th'[t].reg
    BY <1>c DEF Show
  <2>6. th[t].pc \in {"clear", "unflag"} =>
            /\ th'[t].pc \in {"clear", "unflag"} /\ th'[t].at = th[t].at
            /\ th'[t].fsr = th[t].fsr /\ th'[t].iova = th[t].iova
    BY DEF Show, CanStart
  <2> QED
    BY <1>c, <2>1, <2>2, <2>3, <2>4, <2>5, <2>6, FaultMoves
<1> QED
  BY <1>1, <1>2


\* A reader finds the node of its device, or goes on.
LEMMA ShowWalkKept ==
    ASSUME TypeInv, TypeInv', ListIInv, FaultIInv, careful,
           NEW t \in Thread, ShowWalk(t)
    PROVE  ListIInv' /\ FaultIInv'
<1>a. /\ TokenInv /\ OneFault /\ OneReader /\ FaultReported
      /\ \A u \in Thread : FaultOf(th[u]) /\ ReaderOf(th[u])
  BY DEF FaultIInv
<1>b. /\ RestType /\ node \in [Reg -> NodeType] /\ th \in [Thread -> ThType]
      /\ ThreadOf(th[t]) /\ th[t] \in ThType
  BY TypeForm
<1>c. /\ \A u \in Thread : u # t => th'[u] = th[u]
      /\ th[t].pc = "show" /\ th'[t].reg = th[t].reg
      /\ \/ th'[t].pc = "show"
         \/ th'[t].pc = "readFsr" /\ th'[t].at = th[t].at /\ dev[node[th[t].at].obj] = dev[th[t].reg]
  <2>1. CASE Name(node[th[t].at].obj) = Name(th[t].reg)
    <3>1. Goto(t, "readFsr") /\ "readFsr" \in AllPcs /\ th[t].pc = "show"
      BY <2>1 DEF ShowWalk, AllPcs, ShowPcs
    <3> QED
      BY <1>b, <2>1, <3>1, GotoForm DEF Name
  <2>2. CASE Name(node[th[t].at].obj) # Name(th[t].reg)
    <3>1. Visit(t, next[th[t].at]) /\ next[th[t].at] \in 0 .. MaxReg /\ th[t].pc = "show"
      BY <1>b, <2>2 DEF ShowWalk, ThType, RestType
    <3> QED
      BY <1>b, <3>1, VisitForm
  <2> QED
    BY <2>1, <2>2
<1>1. ListIInv'
  <2>1. UNCHANGED <<careful, regs, dev, kobj, next, device_obj, failed, listed>>
    BY DEF ShowWalk, regVars, modeVars
  <2>2. \A n \in Reg : node'[n].mem = node[n].mem /\ node'[n].obj = node[n].obj
    BY DEF ShowWalk
  <2>3. th[t].pc \notin IoctlPcs /\ th'[t].pc \notin IoctlPcs
    BY <1>c DEF ShowWalk, IoctlPcs
  <2> QED
    BY <1>c, <2>1, <2>2, <2>3, ListQuiet
<1>2. FaultIInv'
  <2>1. UNCHANGED <<careful, dev, kobj, node, handler, recorded>> /\ returned \subseteq returned'
    BY DEF ShowWalk, regVars, faultVars, modeVars
  <2>2. FaultOf(th[t])'
    BY <1>c DEF FaultOf, FaultPcs, StorePcs
  <2>3. ReaderOf(th[t])'
    <3>1. ReaderOf(th[t]) /\ th[t].pc \in ShowPcs /\ th[t].reg \in Reg
      BY <1>a, <1>b, <1>c DEF ShowPcs, ThreadOf
    <3>2. CASE th'[t].pc = "show"
      BY <1>c, <2>1, <3>1, <3>2 DEF ReaderOf, ReadPcs
    <3>3. CASE th'[t].pc = "readFsr" /\ th'[t].at = th[t].at /\ dev[node[th[t].at].obj] = dev[th[t].reg]
      <4>1. th[t].at \in Reg
        BY <1>b, Bounds DEF ShowWalk, ThType
      <4>2. node[th[t].at].obj = th[t].at /\ kobj[th[t].at] = "live"
        BY <4>1, NodeName DEF ShowWalk
      <4>3. th[t].at = th[t].reg
        BY <3>1, <3>3, <4>1, <4>2 DEF ListIInv, OneName, ReaderOf
      <4> QED
        BY <1>c, <2>1, <3>1, <3>3, <4>3 DEF ReaderOf
    <3> QED
      BY <1>c, <3>2, <3>3
  <2>4. \A u \in Thread : u # t /\ th[u].pc \in FaultPcs /\ th'[t].pc \in FaultPcs
                            => th[u].dev # th'[t].dev
    BY <1>c DEF FaultPcs
  <2>5. \A u \in Thread : u # t /\ th[u].pc \in ShowPcs /\ th'[t].pc \in ShowPcs
                            => th[u].reg # th'[t].reg
    BY <1>a, <1>c DEF ShowWalk, OneReader, ShowPcs
  <2>6. th[t].pc \in {"clear", "unflag"} =>
            /\ th'[t].pc \in {"clear", "unflag"} /\ th'[t].at = th[t].at
            /\ th'[t].fsr = th[t].fsr /\ th'[t].iova = th[t].iova
    BY DEF ShowWalk
  <2> QED
    BY <1>c, <2>1, <2>2, <2>3, <2>4, <2>5, <2>6, FaultMoves
<1> QED
  BY <1>1, <1>2


\* A reader finds no node.
LEMMA ShowEndKept ==
    ASSUME TypeInv, TypeInv', ListIInv, FaultIInv, careful,
           NEW t \in Thread, ShowEnd(t)
    PROVE  ListIInv' /\ FaultIInv'
<1>a. /\ TokenInv /\ OneFault /\ OneReader /\ FaultReported
      /\ \A u \in Thread : FaultOf(th[u]) /\ ReaderOf(th[u])
  BY DEF FaultIInv
<1>b. /\ RestType /\ node \in [Reg -> NodeType] /\ th \in [Thread -> ThType]
      /\ ThreadOf(th[t]) /\ th[t] \in ThType
  BY TypeForm
<1>c. th'[t].pc = "idle" /\ \A u \in Thread : u # t => th'[u] = th[u]
  BY <1>b, ReturnForm DEF ShowEnd
<1>1. ListIInv'
  <2>1. UNCHANGED <<careful, regs, dev, kobj, next, device_obj, failed, listed>>
    BY DEF ShowEnd, regVars, modeVars
  <2>2. \A n \in Reg : node'[n].mem = node[n].mem /\ node'[n].obj = node[n].obj
    BY DEF ShowEnd
  <2>3. th[t].pc \notin IoctlPcs /\ th'[t].pc \notin IoctlPcs
    BY <1>c DEF ShowEnd, IoctlPcs
  <2> QED
    BY <1>c, <2>1, <2>2, <2>3, ListQuiet
<1>2. FaultIInv'
  <2>1. UNCHANGED <<careful, dev, kobj, node, handler, recorded>> /\ returned \subseteq returned'
    BY DEF ShowEnd, regVars, faultVars, modeVars
  <2>2. FaultOf(th[t])'
    BY <1>c DEF FaultOf, FaultPcs, StorePcs
  <2>3. ReaderOf(th[t])'
    BY <1>c DEF ReaderOf, ShowPcs, ReadPcs
  <2>4. \A u \in Thread : u # t /\ th[u].pc \in FaultPcs /\ th'[t].pc \in FaultPcs
                            => th[u].dev # th'[t].dev
    BY <1>c DEF FaultPcs
  <2>5. \A u \in Thread : u # t /\ th[u].pc \in ShowPcs /\ th'[t].pc \in ShowPcs
                            => th[u].reg # th'[t].reg
    BY <1>c DEF ShowPcs
  <2>6. th[t].pc \in {"clear", "unflag"} =>
            /\ th'[t].pc \in {"clear", "unflag"} /\ th'[t].at = th[t].at
            /\ th'[t].fsr = th[t].fsr /\ th'[t].iova = th[t].iova
    BY DEF ShowEnd
  <2> QED
    BY <1>c, <2>1, <2>2, <2>3, <2>4, <2>5, <2>6, FaultMoves
<1> QED
  BY <1>1, <1>2


\* A reader takes the status.
LEMMA ShowFsrKept ==
    ASSUME TypeInv, TypeInv', ListIInv, FaultIInv, careful,
           NEW t \in Thread, ShowFsr(t)
    PROVE  ListIInv' /\ FaultIInv'
<1>a. /\ TokenInv /\ OneFault /\ OneReader /\ FaultReported
      /\ \A u \in Thread : FaultOf(th[u]) /\ ReaderOf(th[u])
  BY DEF FaultIInv
<1>b. /\ RestType /\ node \in [Reg -> NodeType] /\ th \in [Thread -> ThType]
      /\ ThreadOf(th[t]) /\ th[t] \in ThType
  BY TypeForm
<1>c. /\ \A u \in Thread : u # t => th'[u] = th[u]
      /\ th'[t].pc = "readIova" /\ th'[t].reg = th[t].reg /\ th'[t].at = th[t].at
      /\ th'[t].fsr = node[th[t].at].fsr
  BY TakeFsrForm
<1>d. /\ Readable(th[t].at) /\ th[t].at \in Reg /\ th[t].reg = th[t].at
      /\ node[th[t].at].mem = "live" /\ node[th[t].at].flag /\ node[th[t].at].obj = th[t].at
  <2>1. th[t].pc \in ReadPcs
    BY DEF ShowFsr, ReadPcs
  <2> QED
    BY <2>1, ReaderHolds
<1>e. ReaderOf(th[t]) /\ th[t].pc \in ShowPcs
  BY <1>a DEF ShowFsr, ShowPcs
<1>1. ListIInv'
  <2>1. UNCHANGED <<careful, regs, dev, kobj, next, device_obj, failed, listed>>
    BY DEF ShowFsr, regVars, modeVars
  <2>2. \A n \in Reg : node'[n].mem = node[n].mem /\ node'[n].obj = node[n].obj
    BY DEF ShowFsr
  <2>3. th[t].pc \notin IoctlPcs /\ th'[t].pc \notin IoctlPcs
    BY <1>c DEF ShowFsr, IoctlPcs
  <2> QED
    BY <1>c, <2>1, <2>2, <2>3, ListQuiet
<1>2. FaultIInv'
  <2>1. UNCHANGED <<careful, dev, kobj, node, handler, recorded>> /\ returned \subseteq returned'
    BY DEF ShowFsr, regVars, faultVars, modeVars
  <2>2. FaultOf(th[t])'
    BY <1>c DEF FaultOf, FaultPcs, StorePcs
  <2>3. ReaderOf(th[t])'
    BY <1>c, <1>d, <1>e, <2>1 DEF ReaderOf
  <2>4. \A u \in Thread : u # t /\ th[u].pc \in FaultPcs /\ th'[t].pc \in FaultPcs
                            => th[u].dev # th'[t].dev
    BY <1>c DEF FaultPcs
  <2>5. \A u \in Thread : u # t /\ th[u].pc \in ShowPcs /\ th'[t].pc \in ShowPcs
                            => th[u].reg # th'[t].reg
    BY <1>a, <1>c DEF ShowFsr, OneReader, ShowPcs
  <2>6. th[t].pc \in {"clear", "unflag"} =>
            /\ th'[t].pc \in {"clear", "unflag"} /\ th'[t].at = th[t].at
            /\ th'[t].fsr = th[t].fsr /\ th'[t].iova = th[t].iova
    BY DEF ShowFsr
  <2> QED
    BY <1>c, <2>1, <2>2, <2>3, <2>4, <2>5, <2>6, FaultMoves
<1> QED
  BY <1>1, <1>2


\* A reader takes the address.
LEMMA ShowIovaKept ==
    ASSUME TypeInv, TypeInv', ListIInv, FaultIInv, careful,
           NEW t \in Thread, ShowIova(t)
    PROVE  ListIInv' /\ FaultIInv'
<1>a. /\ TokenInv /\ OneFault /\ OneReader /\ FaultReported
      /\ \A u \in Thread : FaultOf(th[u]) /\ ReaderOf(th[u])
  BY DEF FaultIInv
<1>b. /\ RestType /\ node \in [Reg -> NodeType] /\ th \in [Thread -> ThType]
      /\ ThreadOf(th[t]) /\ th[t] \in ThType
  BY TypeForm
<1>c. /\ \A u \in Thread : u # t => th'[u] = th[u]
      /\ th'[t].pc = "clear" /\ th'[t].reg = th[t].reg /\ th'[t].at = th[t].at
      /\ th'[t].fsr = th[t].fsr /\ th'[t].iova = node[th[t].at].iova
  BY TakeIovaForm
<1>d. /\ Readable(th[t].at) /\ th[t].at \in Reg /\ th[t].reg = th[t].at
      /\ node[th[t].at].mem = "live" /\ node[th[t].at].flag /\ node[th[t].at].obj = th[t].at
  <2>1. th[t].pc \in ReadPcs
    BY DEF ShowIova, ReadPcs
  <2> QED
    BY <2>1, ReaderHolds
<1>e. ReaderOf(th[t]) /\ th[t].pc \in ShowPcs
  BY <1>a DEF ShowIova, ShowPcs
<1>1. ListIInv'
  <2>1. UNCHANGED <<careful, regs, dev, kobj, next, device_obj, failed, listed>>
    BY DEF ShowIova, regVars, modeVars
  <2>2. \A n \in Reg : node'[n].mem = node[n].mem /\ node'[n].obj = node[n].obj
    BY DEF ShowIova
  <2>3. th[t].pc \notin IoctlPcs /\ th'[t].pc \notin IoctlPcs
    BY <1>c DEF ShowIova, IoctlPcs
  <2> QED
    BY <1>c, <2>1, <2>2, <2>3, ListQuiet
<1>2. FaultIInv'
  <2>1. UNCHANGED <<careful, dev, kobj, node, handler, recorded>> /\ returned \subseteq returned'
    BY DEF ShowIova, regVars, faultVars, modeVars
  <2>2. FaultOf(th[t])'
    BY <1>c DEF FaultOf, FaultPcs, StorePcs
  <2>3. ReaderOf(th[t])'
    <3>1. th[t].fsr = node[th[t].reg].fsr
      BY <1>e DEF ShowIova, ReaderOf
    <3> QED
      BY <1>c, <1>d, <1>e, <2>1, <3>1 DEF ReaderOf
  <2>4. \A u \in Thread : u # t /\ th[u].pc \in FaultPcs /\ th'[t].pc \in FaultPcs
                            => th[u].dev # th'[t].dev
    BY <1>c DEF FaultPcs
  <2>5. \A u \in Thread : u # t /\ th[u].pc \in ShowPcs /\ th'[t].pc \in ShowPcs
                            => th[u].reg # th'[t].reg
    BY <1>a, <1>c DEF ShowIova, OneReader, ShowPcs
  <2>6. th[t].pc \in {"clear", "unflag"} =>
            /\ th'[t].pc \in {"clear", "unflag"} /\ th'[t].at = th[t].at
            /\ th'[t].fsr = th[t].fsr /\ th'[t].iova = th[t].iova
    BY DEF ShowIova
  <2> QED
    BY <1>c, <2>1, <2>2, <2>3, <2>4, <2>5, <2>6, FaultMoves
<1> QED
  BY <1>1, <1>2


\* Only a reader that still looks for its node can meet memory that is gone.
LEMMA ShowMisuseKept ==
    ASSUME TypeInv, TypeInv', ListIInv, FaultIInv, careful,
           NEW t \in Thread, ShowMisuse(t)
    PROVE  ListIInv' /\ FaultIInv'
<1>a. /\ TokenInv /\ OneFault /\ OneReader /\ FaultReported
      /\ \A u \in Thread : FaultOf(th[u]) /\ ReaderOf(th[u])
  BY DEF FaultIInv
<1>b. /\ RestType /\ node \in [Reg -> NodeType] /\ th \in [Thread -> ThType]
      /\ ThreadOf(th[t]) /\ th[t] \in ThType
  BY TypeForm
<1>c. th'[t].pc = "idle" /\ \A u \in Thread : u # t => th'[u] = th[u]
  BY <1>b, ReturnForm DEF ShowMisuse, Misuse
<1>1. ListIInv'
  <2>1. UNCHANGED <<careful, regs, dev, kobj, next, device_obj, failed, listed>>
    BY DEF ShowMisuse, Misuse, regVars, modeVars
  <2>2. \A n \in Reg : node'[n].mem = node[n].mem /\ node'[n].obj = node[n].obj
    BY DEF ShowMisuse, Misuse
  <2>3. th[t].pc \notin IoctlPcs /\ th'[t].pc \notin IoctlPcs
    BY <1>c DEF ShowMisuse, IoctlPcs, ShowPcs
  <2> QED
    BY <1>c, <2>1, <2>2, <2>3, ListQuiet
<1>2. FaultIInv'
  <2>1. UNCHANGED <<careful, dev, kobj, node, handler, recorded>> /\ returned \subseteq returned'
    BY DEF ShowMisuse, Misuse, regVars, faultVars, modeVars
  <2>2. FaultOf(th[t])'
    BY <1>c DEF FaultOf, FaultPcs, StorePcs
  <2>3. ReaderOf(th[t])'
    BY <1>c DEF ReaderOf, ShowPcs, ReadPcs
  <2>4. \A u \in Thread : u # t /\ th[u].pc \in FaultPcs /\ th'[t].pc \in FaultPcs
                            => th[u].dev # th'[t].dev
    BY <1>c DEF FaultPcs
  <2>5. \A u \in Thread : u # t /\ th[u].pc \in ShowPcs /\ th'[t].pc \in ShowPcs
                            => th[u].reg # th'[t].reg
    BY <1>c DEF ShowPcs
  <2>6. th[t].pc \in {"clear", "unflag"} =>
            /\ th'[t].pc \in {"clear", "unflag"} /\ th'[t].at = th[t].at
            /\ th'[t].fsr = th[t].fsr /\ th'[t].iova = th[t].iova
    BY ReaderHolds DEF ShowMisuse, ReadPcs
  <2> QED
    BY <1>c, <2>1, <2>2, <2>3, <2>4, <2>5, <2>6, FaultMoves
<1> QED
  BY <1>1, <1>2


\* The handler stores the status.
LEMMA FaultFsrKept ==
    ASSUME TypeInv, TypeInv', ListIInv, FaultIInv, careful,
           NEW t \in Thread, FaultFsr(t)
    PROVE  ListIInv' /\ FaultIInv'
<1>a. /\ TokenInv /\ OneFault /\ OneReader /\ FaultReported
      /\ \A u \in Thread : FaultOf(th[u]) /\ ReaderOf(th[u])
  BY DEF FaultIInv
<1>b. /\ RestType /\ node \in [Reg -> NodeType] /\ th \in [Thread -> ThType]
      /\ ThreadOf(th[t]) /\ th[t] \in ThType
  BY TypeForm
<1>c. /\ \A u \in Thread : u # t => th'[u] = th[u]
      /\ th'[t].pc = "iova" /\ th'[t].dev = th[t].dev /\ th'[t].reg = th[t].reg
      /\ th'[t].at = th[t].at /\ th'[t].fsr = th[t].fsr /\ th'[t].iova = th[t].iova
  <2>1. Goto(t, "iova") /\ "iova" \in AllPcs
    BY DEF FaultFsr, AllPcs, FaultPcs, ShowPcs
  <2> QED
    BY <1>b, <2>1, GotoForm
<1>d. /\ th[t].pc = "fsr" /\ th[t].at \in Reg /\ node[th[t].at].mem # "none" /\ dev[th[t].at] = th[t].dev
      /\ ~node[th[t].at].flag /\ FaultOf(th[t]) /\ kobj[th[t].reg] # "none" /\ dev[th[t].reg] = th[t].dev
  BY <1>a, <1>b DEF FaultFsr, FaultOf, ThreadOf, FaultPcs, StorePcs
<1>e. /\ \A u \in Thread : u # t /\ th[u].pc \in StorePcs => th[u].at # th[t].at
      /\ \A u \in Thread : u # t /\ th[u].pc \in ShowPcs => th[u].reg # th[t].at
  BY <1>a, <1>d DEF OneFault, FaultOf, ReaderOf, FaultPcs, StorePcs
<1>1. ListIInv'
  <2>1. UNCHANGED <<careful, regs, dev, kobj, next, device_obj, failed, listed>>
    BY DEF FaultFsr, regVars, modeVars
  <2>2. \A n \in Reg : node'[n].mem = node[n].mem /\ node'[n].obj = node[n].obj
    BY StoreFsrForm
  <2>3. th[t].pc \notin IoctlPcs /\ th'[t].pc \notin IoctlPcs
    BY <1>c DEF FaultFsr, IoctlPcs
  <2> QED
    BY <1>c, <2>1, <2>2, <2>3, ListQuiet
<1>2. FaultIInv'
  <2>1. UNCHANGED <<careful, dev, kobj, handler>>
    BY DEF FaultFsr, regVars, modeVars
  <2>2. FaultOf(th[t])'
    BY <1>c, <1>d, <2>1, StoreFsrForm DEF FaultOf
  <2>3. ReaderOf(th[t])'
    BY <1>c DEF ReaderOf, ShowPcs, ReadPcs
  <2>4. \A r \in recorded' \ recorded : r[3] = th[t].at
    BY DEF FaultFsr, faultVars
  <2>5. /\ TokenInv' /\ OneFault' /\ OneReader' /\ StoredInv'
        /\ \A u \in Thread : FaultOf(th[u])' /\ ReaderOf(th[u])'
    <3>1. /\ th'[t].pc \in FaultPcs => th[t].pc \in FaultPcs /\ th'[t].dev = th[t].dev
          /\ th'[t].pc \in ShowPcs => th[t].pc \in ShowPcs /\ th'[t].reg = th[t].reg
      BY <1>c DEF FaultFsr, FaultPcs, ShowPcs
    <3>2. /\ \A n \in Reg : n # th[t].at => node'[n] = node[n]
          /\ node'[th[t].at].mem = node[th[t].at].mem /\ node'[th[t].at].obj = node[th[t].at].obj
      BY StoreFsrForm
    <3>3. node[th[t].at].mem # "none"
      BY <1>d
    <3> QED
      BY <1>c, <1>d, <1>e, <2>1, <2>2, <2>3, <2>4, <3>1, <3>2, <3>3, NodeWrite
  <2>6. FaultReported'
    <3> SUFFICES ASSUME NEW r \in recorded'
                 PROVE  /\ dev'[node'[r[3]].obj] = r[2]
                        /\ \/ node'[r[3]].flag /\ node'[r[3]].fsr = r[1] /\ node'[r[3]].iova = r[1]
                           \/ <<r[1], r[1]>> \in returned'
                           \/ \E u \in Thread : /\ th'[u].pc \in {"clear", "unflag"} /\ th'[u].at = r[3]
                                                /\ th'[u].fsr = r[1] /\ th'[u].iova = r[1]
                           \/ node'[r[3]].mem = "freed"
      BY DEF FaultReported
    <3>1. CASE r \in recorded
      <4>1. r[3] \in Reg /\ r[1] \in 1 .. MaxFault
        BY <1>b, <3>1 DEF RestType
      <4>2. node'[r[3]].mem = node[r[3]].mem /\ node'[r[3]].obj = node[r[3]].obj
        BY <4>1, StoreFsrForm
      <4>3. dev'[node'[r[3]].obj] = r[2]
        BY <1>a, <2>1, <3>1, <4>2 DEF FaultReported
      <4>4. returned \subseteq returned'
        BY DEF FaultFsr, faultVars
      <4>5. CASE node[r[3]].flag /\ node[r[3]].fsr = r[1] /\ node[r[3]].iova = r[1]
        BY <1>d, <4>1, <4>3, <4>5, StoreFsrForm
      <4>6. CASE \E u \in Thread : /\ th[u].pc \in {"clear", "unflag"} /\ th[u].at = r[3]
                                   /\ th[u].fsr = r[1] /\ th[u].iova = r[1]
        <5> PICK u \in Thread : /\ th[u].pc \in {"clear", "unflag"} /\ th[u].at = r[3]
                                /\ th[u].fsr = r[1] /\ th[u].iova = r[1]
          BY <4>6
        <5>1. u # t
          BY <1>d
        <5> QED
          BY <1>c, <4>3, <5>1
      <4>7. CASE <<r[1], r[1]>> \in returned \/ node[r[3]].mem = "freed"
        BY <4>2, <4>3, <4>4, <4>7
      <4> QED
        BY <1>a, <3>1, <4>5, <4>6, <4>7 DEF FaultReported
    <3> QED
      BY <3>1 DEF FaultFsr, faultVars
  <2> QED
    BY <2>1, <2>5, <2>6 DEF FaultIInv
<1> QED
  BY <1>1, <1>2


\* The handler stores the address.
LEMMA FaultIovaKept ==
    ASSUME TypeInv, TypeInv', ListIInv, FaultIInv, careful,
           NEW t \in Thread, FaultIova(t)
    PROVE  ListIInv' /\ FaultIInv'
<1>a. /\ TokenInv /\ OneFault /\ OneReader /\ FaultReported
      /\ \A u \in Thread : FaultOf(th[u]) /\ ReaderOf(th[u])
  BY DEF FaultIInv
<1>b. /\ RestType /\ node \in [Reg -> NodeType] /\ th \in [Thread -> ThType]
      /\ ThreadOf(th[t]) /\ th[t] \in ThType
  BY TypeForm
<1>c. /\ \A u \in Thread : u # t => th'[u] = th[u]
      /\ th'[t].pc = "flag" /\ th'[t].dev = th[t].dev /\ th'[t].reg = th[t].reg
      /\ th'[t].at = th[t].at /\ th'[t].fsr = th[t].fsr /\ th'[t].iova = th[t].iova
  <2>1. Goto(t, "flag") /\ "flag" \in AllPcs
    BY DEF FaultIova, AllPcs, FaultPcs, ShowPcs
  <2> QED
    BY <1>b, <2>1, GotoForm
<1>d. /\ th[t].pc = "iova" /\ th[t].at \in Reg /\ node[th[t].at].mem # "none" /\ dev[th[t].at] = th[t].dev
      /\ ~node[th[t].at].flag /\ FaultOf(th[t]) /\ kobj[th[t].reg] # "none" /\ dev[th[t].reg] = th[t].dev
  BY <1>a, <1>b DEF FaultIova, FaultOf, ThreadOf, FaultPcs, StorePcs
<1>e. /\ \A u \in Thread : u # t /\ th[u].pc \in StorePcs => th[u].at # th[t].at
      /\ \A u \in Thread : u # t /\ th[u].pc \in ShowPcs => th[u].reg # th[t].at
  BY <1>a, <1>d DEF OneFault, FaultOf, ReaderOf, FaultPcs, StorePcs
<1>1. ListIInv'
  <2>1. UNCHANGED <<careful, regs, dev, kobj, next, device_obj, failed, listed>>
    BY DEF FaultIova, regVars, modeVars
  <2>2. \A n \in Reg : node'[n].mem = node[n].mem /\ node'[n].obj = node[n].obj
    BY StoreIovaForm
  <2>3. th[t].pc \notin IoctlPcs /\ th'[t].pc \notin IoctlPcs
    BY <1>c DEF FaultIova, IoctlPcs
  <2> QED
    BY <1>c, <2>1, <2>2, <2>3, ListQuiet
<1>2. FaultIInv'
  <2>1. UNCHANGED <<careful, dev, kobj, handler>>
    BY DEF FaultIova, regVars, modeVars
  <2>2. FaultOf(th[t])'
    BY <1>c, <1>d, <2>1, StoreIovaForm DEF FaultOf
  <2>3. ReaderOf(th[t])'
    BY <1>c DEF ReaderOf, ShowPcs, ReadPcs
  <2>4. \A r \in recorded' \ recorded : r[3] = th[t].at
    BY DEF FaultIova, faultVars
  <2>5. /\ TokenInv' /\ OneFault' /\ OneReader' /\ StoredInv'
        /\ \A u \in Thread : FaultOf(th[u])' /\ ReaderOf(th[u])'
    <3>1. /\ th'[t].pc \in FaultPcs => th[t].pc \in FaultPcs /\ th'[t].dev = th[t].dev
          /\ th'[t].pc \in ShowPcs => th[t].pc \in ShowPcs /\ th'[t].reg = th[t].reg
      BY <1>c DEF FaultIova, FaultPcs, ShowPcs
    <3>2. /\ \A n \in Reg : n # th[t].at => node'[n] = node[n]
          /\ node'[th[t].at].mem = node[th[t].at].mem /\ node'[th[t].at].obj = node[th[t].at].obj
      BY StoreIovaForm
    <3>3. node[th[t].at].mem # "none"
      BY <1>d
    <3> QED
      BY <1>c, <1>d, <1>e, <2>1, <2>2, <2>3, <2>4, <3>1, <3>2, <3>3, NodeWrite
  <2>6. FaultReported'
    <3> SUFFICES ASSUME NEW r \in recorded'
                 PROVE  /\ dev'[node'[r[3]].obj] = r[2]
                        /\ \/ node'[r[3]].flag /\ node'[r[3]].fsr = r[1] /\ node'[r[3]].iova = r[1]
                           \/ <<r[1], r[1]>> \in returned'
                           \/ \E u \in Thread : /\ th'[u].pc \in {"clear", "unflag"} /\ th'[u].at = r[3]
                                                /\ th'[u].fsr = r[1] /\ th'[u].iova = r[1]
                           \/ node'[r[3]].mem = "freed"
      BY DEF FaultReported
    <3>1. CASE r \in recorded
      <4>1. r[3] \in Reg /\ r[1] \in 1 .. MaxFault
        BY <1>b, <3>1 DEF RestType
      <4>2. node'[r[3]].mem = node[r[3]].mem /\ node'[r[3]].obj = node[r[3]].obj
        BY <4>1, StoreIovaForm
      <4>3. dev'[node'[r[3]].obj] = r[2]
        BY <1>a, <2>1, <3>1, <4>2 DEF FaultReported
      <4>4. returned \subseteq returned'
        BY DEF FaultIova, faultVars
      <4>5. CASE node[r[3]].flag /\ node[r[3]].fsr = r[1] /\ node[r[3]].iova = r[1]
        BY <1>d, <4>1, <4>3, <4>5, StoreIovaForm
      <4>6. CASE \E u \in Thread : /\ th[u].pc \in {"clear", "unflag"} /\ th[u].at = r[3]
                                   /\ th[u].fsr = r[1] /\ th[u].iova = r[1]
        <5> PICK u \in Thread : /\ th[u].pc \in {"clear", "unflag"} /\ th[u].at = r[3]
                                /\ th[u].fsr = r[1] /\ th[u].iova = r[1]
          BY <4>6
        <5>1. u # t
          BY <1>d
        <5> QED
          BY <1>c, <4>3, <5>1
      <4>7. CASE <<r[1], r[1]>> \in returned \/ node[r[3]].mem = "freed"
        BY <4>2, <4>3, <4>4, <4>7
      <4> QED
        BY <1>a, <3>1, <4>5, <4>6, <4>7 DEF FaultReported
    <3> QED
      BY <3>1 DEF FaultIova, faultVars
  <2> QED
    BY <2>1, <2>5, <2>6 DEF FaultIInv
<1> QED
  BY <1>1, <1>2


\* The handler marks the node, and the fault is recorded.
LEMMA FaultFlagKept ==
    ASSUME TypeInv, TypeInv', ListIInv, FaultIInv, careful,
           NEW t \in Thread, FaultFlag(t)
    PROVE  ListIInv' /\ FaultIInv'
<1>a. /\ TokenInv /\ OneFault /\ OneReader /\ FaultReported
      /\ \A u \in Thread : FaultOf(th[u]) /\ ReaderOf(th[u])
  BY DEF FaultIInv
<1>b. /\ RestType /\ node \in [Reg -> NodeType] /\ th \in [Thread -> ThType]
      /\ ThreadOf(th[t]) /\ th[t] \in ThType
  BY TypeForm
<1>c. th'[t].pc = "idle" /\ \A u \in Thread : u # t => th'[u] = th[u]
  BY <1>b, ReturnForm DEF FaultFlag
<1>d. /\ th[t].pc = "flag" /\ th[t].at \in Reg /\ node[th[t].at].mem # "none" /\ dev[th[t].at] = th[t].dev
      /\ ~node[th[t].at].flag /\ FaultOf(th[t]) /\ kobj[th[t].reg] # "none" /\ dev[th[t].reg] = th[t].dev
  BY <1>a, <1>b DEF FaultFlag, FaultOf, ThreadOf, FaultPcs, StorePcs
<1>e. /\ \A u \in Thread : u # t /\ th[u].pc \in StorePcs => th[u].at # th[t].at
      /\ \A u \in Thread : u # t /\ th[u].pc \in ShowPcs => th[u].reg # th[t].at
  BY <1>a, <1>d DEF OneFault, FaultOf, ReaderOf, FaultPcs, StorePcs
<1>1. ListIInv'
  <2>1. UNCHANGED <<careful, regs, dev, kobj, next, device_obj, failed, listed>>
    BY DEF FaultFlag, regVars, modeVars
  <2>2. \A n \in Reg : node'[n].mem = node[n].mem /\ node'[n].obj = node[n].obj
    BY StoreFlagForm
  <2>3. th[t].pc \notin IoctlPcs /\ th'[t].pc \notin IoctlPcs
    BY <1>c DEF FaultFlag, IoctlPcs
  <2> QED
    BY <1>c, <2>1, <2>2, <2>3, ListQuiet
<1>2. FaultIInv'
  <2>1. UNCHANGED <<careful, dev, kobj, handler>>
    BY DEF FaultFlag, regVars, modeVars
  <2>2. FaultOf(th[t])'
    BY <1>c DEF FaultOf, FaultPcs, StorePcs
  <2>3. ReaderOf(th[t])'
    BY <1>c DEF ReaderOf, ShowPcs, ReadPcs
  <2>4. \A r \in recorded' \ recorded : r[3] = th[t].at
    BY DEF FaultFlag, faultVars
  <2>5. /\ TokenInv' /\ OneFault' /\ OneReader' /\ StoredInv'
        /\ \A u \in Thread : FaultOf(th[u])' /\ ReaderOf(th[u])'
    <3>1. /\ th'[t].pc \in FaultPcs => th[t].pc \in FaultPcs /\ th'[t].dev = th[t].dev
          /\ th'[t].pc \in ShowPcs => th[t].pc \in ShowPcs /\ th'[t].reg = th[t].reg
      BY <1>c DEF FaultFlag, FaultPcs, ShowPcs
    <3>2. /\ \A n \in Reg : n # th[t].at => node'[n] = node[n]
          /\ node'[th[t].at].mem = node[th[t].at].mem /\ node'[th[t].at].obj = node[th[t].at].obj
      BY StoreFlagForm
    <3>3. node[th[t].at].mem # "none"
      BY <1>d
    <3> QED
      BY <1>c, <1>d, <1>e, <2>1, <2>2, <2>3, <2>4, <3>1, <3>2, <3>3, NodeWrite
  <2>6. FaultReported'
    <3> SUFFICES ASSUME NEW r \in recorded'
                 PROVE  /\ dev'[node'[r[3]].obj] = r[2]
                        /\ \/ node'[r[3]].flag /\ node'[r[3]].fsr = r[1] /\ node'[r[3]].iova = r[1]
                           \/ <<r[1], r[1]>> \in returned'
                           \/ \E u \in Thread : /\ th'[u].pc \in {"clear", "unflag"} /\ th'[u].at = r[3]
                                                /\ th'[u].fsr = r[1] /\ th'[u].iova = r[1]
                           \/ node'[r[3]].mem = "freed"
      BY DEF FaultReported
    <3>1. CASE r \in recorded
      <4>1. r[3] \in Reg /\ r[1] \in 1 .. MaxFault
        BY <1>b, <3>1 DEF RestType
      <4>2. node'[r[3]].mem = node[r[3]].mem /\ node'[r[3]].obj = node[r[3]].obj
        BY <4>1, StoreFlagForm
      <4>3. dev'[node'[r[3]].obj] = r[2]
        BY <1>a, <2>1, <3>1, <4>2 DEF FaultReported
      <4>4. returned \subseteq returned'
        BY DEF FaultFlag, faultVars
      <4>5. CASE node[r[3]].flag /\ node[r[3]].fsr = r[1] /\ node[r[3]].iova = r[1]
        BY <1>d, <4>1, <4>3, <4>5, StoreFlagForm
      <4>6. CASE \E u \in Thread : /\ th[u].pc \in {"clear", "unflag"} /\ th[u].at = r[3]
                                   /\ th[u].fsr = r[1] /\ th[u].iova = r[1]
        <5> PICK u \in Thread : /\ th[u].pc \in {"clear", "unflag"} /\ th[u].at = r[3]
                                /\ th[u].fsr = r[1] /\ th[u].iova = r[1]
          BY <4>6
        <5>1. u # t
          BY <1>d
        <5> QED
          BY <1>c, <4>3, <5>1
      <4>7. CASE <<r[1], r[1]>> \in returned \/ node[r[3]].mem = "freed"
        BY <4>2, <4>3, <4>4, <4>7
      <4> QED
        BY <1>a, <3>1, <4>5, <4>6, <4>7 DEF FaultReported
    <3>2. CASE r \notin recorded
      <4>1. r = <<th[t].fsr, th[t].dev, th[t].at>>
        BY <3>2 DEF FaultFlag
      <4>2. r[1] = th[t].fsr /\ r[2] = th[t].dev /\ r[3] = th[t].at
        BY <4>1
      <4>3. /\ node'[th[t].at].flag /\ node'[th[t].at].fsr = node[th[t].at].fsr
            /\ node'[th[t].at].iova = node[th[t].at].iova /\ node'[th[t].at].obj = node[th[t].at].obj
        BY StoreFlagForm
      <4>4. node[th[t].at].obj = th[t].at /\ node[th[t].at].fsr = th[t].fsr /\ node[th[t].at].iova = th[t].fsr
        BY <1>d, NodeName DEF FaultOf
      <4> QED
        BY <1>d, <2>1, <4>2, <4>3, <4>4
    <3> QED
      BY <3>1, <3>2
  <2> QED
    BY <2>1, <2>5, <2>6 DEF FaultIInv
<1> QED
  BY <1>1, <1>2


\* A reader resets the values it has taken.
LEMMA ShowClearKept ==
    ASSUME TypeInv, TypeInv', ListIInv, FaultIInv, careful,
           NEW t \in Thread, ShowClear(t)
    PROVE  ListIInv' /\ FaultIInv'
<1>a. /\ TokenInv /\ OneFault /\ OneReader /\ FaultReported
      /\ \A u \in Thread : FaultOf(th[u]) /\ ReaderOf(th[u])
  BY DEF FaultIInv
<1>b. /\ RestType /\ node \in [Reg -> NodeType] /\ th \in [Thread -> ThType]
      /\ ThreadOf(th[t]) /\ th[t] \in ThType
  BY TypeForm
<1>c. /\ \A u \in Thread : u # t => th'[u] = th[u]
      /\ th'[t].pc = "unflag" /\ th'[t].dev = th[t].dev /\ th'[t].reg = th[t].reg
      /\ th'[t].at = th[t].at /\ th'[t].fsr = th[t].fsr /\ th'[t].iova = th[t].iova
  <2>1. Goto(t, "unflag") /\ "unflag" \in AllPcs
    BY DEF ShowClear, AllPcs, FaultPcs, ShowPcs
  <2> QED
    BY <1>b, <2>1, GotoForm
<1>d. /\ Readable(th[t].at) /\ th[t].at \in Reg /\ th[t].reg = th[t].at
      /\ node[th[t].at].mem = "live" /\ node[th[t].at].flag /\ node[th[t].at].obj = th[t].at
  <2>1. th[t].pc \in ReadPcs
    BY DEF ShowClear, ReadPcs
  <2> QED
    BY <2>1, ReaderHolds
<1>e. ReaderOf(th[t]) /\ th[t].pc \in ShowPcs
  BY <1>a DEF ShowClear, ShowPcs
<1>f. /\ \A u \in Thread : u # t /\ th[u].pc \in StorePcs => th[u].at # th[t].at
      /\ \A u \in Thread : u # t /\ th[u].pc \in ShowPcs => th[u].reg # th[t].at
  BY <1>a, <1>d, <1>e DEF OneReader, FaultOf
<1>1. ListIInv'
  <2>1. UNCHANGED <<careful, regs, dev, kobj, next, device_obj, failed, listed>>
    BY DEF ShowClear, regVars, modeVars
  <2>2. \A n \in Reg : node'[n].mem = node[n].mem /\ node'[n].obj = node[n].obj
    BY ClearForm
  <2>3. th[t].pc \notin IoctlPcs /\ th'[t].pc \notin IoctlPcs
    BY <1>c DEF ShowClear, IoctlPcs
  <2> QED
    BY <1>c, <2>1, <2>2, <2>3, ListQuiet
<1>2. FaultIInv'
  <2>1. UNCHANGED <<careful, dev, kobj, handler>>
    BY DEF ShowClear, regVars, modeVars
  <2>2. FaultOf(th[t])'
    BY <1>c DEF FaultOf, FaultPcs, StorePcs
  <2>3. ReaderOf(th[t])'
    BY <1>c, <1>d, <1>e, <2>1, ClearForm DEF ReaderOf
  <2>4. \A r \in recorded' \ recorded : r[3] = th[t].at
    BY DEF ShowClear, faultVars
  <2>5. /\ TokenInv' /\ OneFault' /\ OneReader' /\ StoredInv'
        /\ \A u \in Thread : FaultOf(th[u])' /\ ReaderOf(th[u])'
    <3>1. /\ th'[t].pc \in FaultPcs => th[t].pc \in FaultPcs /\ th'[t].dev = th[t].dev
          /\ th'[t].pc \in ShowPcs => th[t].pc \in ShowPcs /\ th'[t].reg = th[t].reg
      BY <1>c DEF ShowClear, FaultPcs, ShowPcs
    <3>2. /\ \A n \in Reg : n # th[t].at => node'[n] = node[n]
          /\ node'[th[t].at].mem = node[th[t].at].mem /\ node'[th[t].at].obj = node[th[t].at].obj
      BY ClearForm
    <3>3. node[th[t].at].mem # "none"
      BY <1>d
    <3> QED
      BY <1>c, <1>d, <1>e, <1>f, <2>1, <2>2, <2>3, <2>4, <3>1, <3>2, <3>3, NodeWrite
  <2>6. FaultReported'
    <3> SUFFICES ASSUME NEW r \in recorded'
                 PROVE  /\ dev'[node'[r[3]].obj] = r[2]
                        /\ \/ node'[r[3]].flag /\ node'[r[3]].fsr = r[1] /\ node'[r[3]].iova = r[1]
                           \/ <<r[1], r[1]>> \in returned'
                           \/ \E u \in Thread : /\ th'[u].pc \in {"clear", "unflag"} /\ th'[u].at = r[3]
                                                /\ th'[u].fsr = r[1] /\ th'[u].iova = r[1]
                           \/ node'[r[3]].mem = "freed"
      BY DEF FaultReported
    <3>1. CASE r \in recorded
      <4>1. r[3] \in Reg /\ r[1] \in 1 .. MaxFault
        BY <1>b, <3>1 DEF RestType
      <4>2. node'[r[3]].mem = node[r[3]].mem /\ node'[r[3]].obj = node[r[3]].obj
        BY <4>1, ClearForm
      <4>3. dev'[node'[r[3]].obj] = r[2]
        BY <1>a, <2>1, <3>1, <4>2 DEF FaultReported
      <4>4. returned \subseteq returned'
        BY DEF ShowClear, faultVars
      <4>5. CASE node[r[3]].flag /\ node[r[3]].fsr = r[1] /\ node[r[3]].iova = r[1]
        <5>1. CASE r[3] # th[t].at
          BY <4>1, <4>3, <4>5, <5>1, ClearForm
        <5>2. CASE r[3] = th[t].at
          <6>1. th[t].fsr = r[1] /\ th[t].iova = r[1]
            BY <1>d, <1>e, <4>5, <5>2 DEF ShowClear, ReaderOf
          <6> QED
            BY <1>c, <4>3, <5>2, <6>1
        <5> QED
          BY <5>1, <5>2
      <4>6. CASE \E u \in Thread : /\ th[u].pc \in {"clear", "unflag"} /\ th[u].at = r[3]
                                   /\ th[u].fsr = r[1] /\ th[u].iova = r[1]
        <5> PICK u \in Thread : /\ th[u].pc \in {"clear", "unflag"} /\ th[u].at = r[3]
                                /\ th[u].fsr = r[1] /\ th[u].iova = r[1]
          BY <4>6
        <5>1. th'[u].pc \in {"clear", "unflag"} /\ th'[u].at = r[3] /\ th'[u].fsr = r[1] /\ th'[u].iova = r[1]
          BY <1>c
        <5> QED
          BY <4>3, <5>1
      <4>7. CASE <<r[1], r[1]>> \in returned \/ node[r[3]].mem = "freed"
        BY <4>2, <4>3, <4>4, <4>7
      <4> QED
        BY <1>a, <3>1, <4>5, <4>6, <4>7 DEF FaultReported
    <3> QED
      BY <3>1 DEF ShowClear, faultVars
  <2> QED
    BY <2>1, <2>5, <2>6 DEF FaultIInv
<1> QED
  BY <1>1, <1>2


\* A reader has its values, and lets the node take another fault.
LEMMA ShowFlagKept ==
    ASSUME TypeInv, TypeInv', ListIInv, FaultIInv, careful,
           NEW t \in Thread, ShowFlag(t)
    PROVE  ListIInv' /\ FaultIInv'
<1>a. /\ TokenInv /\ OneFault /\ OneReader /\ FaultReported
      /\ \A u \in Thread : FaultOf(th[u]) /\ ReaderOf(th[u])
  BY DEF FaultIInv
<1>b. /\ RestType /\ node \in [Reg -> NodeType] /\ th \in [Thread -> ThType]
      /\ ThreadOf(th[t]) /\ th[t] \in ThType
  BY TypeForm
<1>c. th'[t].pc = "idle" /\ \A u \in Thread : u # t => th'[u] = th[u]
  BY <1>b, ReturnForm DEF ShowFlag
<1>d. /\ Readable(th[t].at) /\ th[t].at \in Reg /\ th[t].reg = th[t].at
      /\ node[th[t].at].mem = "live" /\ node[th[t].at].flag /\ node[th[t].at].obj = th[t].at
  <2>1. th[t].pc \in ReadPcs
    BY DEF ShowFlag, ReadPcs
  <2> QED
    BY <2>1, ReaderHolds
<1>e. ReaderOf(th[t]) /\ th[t].pc \in ShowPcs
  BY <1>a DEF ShowFlag, ShowPcs
<1>f. /\ \A u \in Thread : u # t /\ th[u].pc \in StorePcs => th[u].at # th[t].at
      /\ \A u \in Thread : u # t /\ th[u].pc \in ShowPcs => th[u].reg # th[t].at
  BY <1>a, <1>d, <1>e DEF OneReader, FaultOf
<1>1. ListIInv'
  <2>1. UNCHANGED <<careful, regs, dev, kobj, next, device_obj, failed, listed>>
    BY DEF ShowFlag, regVars, modeVars
  <2>2. \A n \in Reg : node'[n].mem = node[n].mem /\ node'[n].obj = node[n].obj
    BY UnflagForm
  <2>3. th[t].pc \notin IoctlPcs /\ th'[t].pc \notin IoctlPcs
    BY <1>c DEF ShowFlag, IoctlPcs
  <2> QED
    BY <1>c, <2>1, <2>2, <2>3, ListQuiet
<1>2. FaultIInv'
  <2>1. UNCHANGED <<careful, dev, kobj, handler>>
    BY DEF ShowFlag, regVars, modeVars
  <2>2. FaultOf(th[t])'
    BY <1>c DEF FaultOf, FaultPcs, StorePcs
  <2>3. ReaderOf(th[t])'
    BY <1>c DEF ReaderOf, ShowPcs, ReadPcs
  <2>4. \A r \in recorded' \ recorded : r[3] = th[t].at
    BY DEF ShowFlag, faultVars
  <2>5. /\ TokenInv' /\ OneFault' /\ OneReader' /\ StoredInv'
        /\ \A u \in Thread : FaultOf(th[u])' /\ ReaderOf(th[u])'
    <3>1. /\ th'[t].pc \in FaultPcs => th[t].pc \in FaultPcs /\ th'[t].dev = th[t].dev
          /\ th'[t].pc \in ShowPcs => th[t].pc \in ShowPcs /\ th'[t].reg = th[t].reg
      BY <1>c DEF ShowFlag, FaultPcs, ShowPcs
    <3>2. /\ \A n \in Reg : n # th[t].at => node'[n] = node[n]
          /\ node'[th[t].at].mem = node[th[t].at].mem /\ node'[th[t].at].obj = node[th[t].at].obj
      BY UnflagForm
    <3>3. node[th[t].at].mem # "none"
      BY <1>d
    <3> QED
      BY <1>c, <1>d, <1>e, <1>f, <2>1, <2>2, <2>3, <2>4, <3>1, <3>2, <3>3, NodeWrite
  <2>6. FaultReported'
    <3> SUFFICES ASSUME NEW r \in recorded'
                 PROVE  /\ dev'[node'[r[3]].obj] = r[2]
                        /\ \/ node'[r[3]].flag /\ node'[r[3]].fsr = r[1] /\ node'[r[3]].iova = r[1]
                           \/ <<r[1], r[1]>> \in returned'
                           \/ \E u \in Thread : /\ th'[u].pc \in {"clear", "unflag"} /\ th'[u].at = r[3]
                                                /\ th'[u].fsr = r[1] /\ th'[u].iova = r[1]
                           \/ node'[r[3]].mem = "freed"
      BY DEF FaultReported
    <3>1. CASE r \in recorded
      <4>1. r[3] \in Reg /\ r[1] \in 1 .. MaxFault
        BY <1>b, <3>1 DEF RestType
      <4>2. node'[r[3]].mem = node[r[3]].mem /\ node'[r[3]].obj = node[r[3]].obj
        BY <4>1, UnflagForm
      <4>3. dev'[node'[r[3]].obj] = r[2]
        BY <1>a, <2>1, <3>1, <4>2 DEF FaultReported
      <4>4. returned \subseteq returned'
        BY DEF ShowFlag, faultVars
      <4>5. CASE node[r[3]].flag /\ node[r[3]].fsr = r[1] /\ node[r[3]].iova = r[1]
        <5>1. r[3] # th[t].at
          BY <1>d, <1>e, <4>1, <4>5 DEF ShowFlag, ReaderOf
        <5> QED
          BY <4>1, <4>3, <4>5, <5>1, UnflagForm
      <4>6. CASE \E u \in Thread : /\ th[u].pc \in {"clear", "unflag"} /\ th[u].at = r[3]
                                   /\ th[u].fsr = r[1] /\ th[u].iova = r[1]
        <5> PICK u \in Thread : /\ th[u].pc \in {"clear", "unflag"} /\ th[u].at = r[3]
                                /\ th[u].fsr = r[1] /\ th[u].iova = r[1]
          BY <4>6
        <5>1. CASE u = t
          BY <4>3, <5>1 DEF ShowFlag
        <5>2. CASE u # t
          BY <1>c, <4>3, <5>2
        <5> QED
          BY <5>1, <5>2
      <4>7. CASE <<r[1], r[1]>> \in returned \/ node[r[3]].mem = "freed"
        BY <4>2, <4>3, <4>4, <4>7
      <4> QED
        BY <1>a, <3>1, <4>5, <4>6, <4>7 DEF FaultReported
    <3> QED
      BY <3>1 DEF ShowFlag, faultVars
  <2> QED
    BY <2>1, <2>5, <2>6 DEF FaultIInv
<1> QED
  BY <1>1, <1>2



-----------------------------------------------------------------------------
(* The ioctl calls, seen from the faults *)

\* kiumd_smmu_fault_handler_register numbers its directory.
LEMMA NextNumber ==
    ASSUME TypeInv, NEW t \in Thread, NEW d \in Dev, RegisterKobj(t, d)
    PROVE  regs' = regs + 1 /\ regs' \in Reg /\ regs' > regs
<1>1. RestType
  BY TypeForm
<1> QED
  BY <1>1, Bounds DEF RegisterKobj, Bound, RestType

\* A registration or a removal harms neither a fault nor a reader.
LEMMA IoctlFaults ==
    ASSUME TypeInv, TypeInv', ListIInv, FaultIInv, careful, NEW t \in Thread,
           \/ \E d \in Dev : RegisterKobj(t, d) \/ RegisterExists(t, d) \/ DeregisterStart(t, d)
           \/ RegisterFile(t) \/ RegisterFail(t)
           \/ RegisterAlloc(t) \/ RegisterWalk(t) \/ RegisterTail(t) \/ RegisterAppend(t)
           \/ RegisterHandler(t) \/ DeregisterWalk(t)
           \/ DeregisterMissing(t) \/ DeregisterUnlink(t) \/ DeregisterPut(t) \/ DeregisterFree(t)
    PROVE  FaultIInv'
<1> DEFINE Dirs == \A n \in Reg : kobj[n] # "none" => kobj'[n] # "none" /\ dev'[n] = dev[n]
           Readers == \A u \in Thread : th[u].pc \in ShowPcs => kobj'[th[u].reg] = kobj[th[u].reg]
           Nodes == \A n \in Reg : node[n].mem # "none" =>
                        /\ node'[n].obj = node[n].obj /\ node'[n].fsr = node[n].fsr
                        /\ node'[n].iova = node[n].iova /\ node'[n].flag = node[n].flag
                        /\ \/ node'[n].mem = node[n].mem
                           \/ node'[n].mem = "freed" /\ kobj[n] = "put"
           Threads == \A u \in Thread :
                          \/ th[u].pc \in IoctlPcs \cup {"idle"} /\ th'[u].pc \in IoctlPcs \cup {"idle"}
                          \/ th'[u] = th[u]
           Quiet == UNCHANGED <<careful, recorded, returned>> /\ Dirs /\ Readers /\ Nodes /\ Threads
<1>a. /\ TokenInv /\ \A u \in Thread : FaultOf(th[u]) /\ ReaderOf(th[u])
      /\ NumberInv /\ \A u \in Thread : RegisterOf(th[u]) /\ RemoveOf(th[u])
  BY DEF FaultIInv, ListIInv, CallInv
<1>b. /\ RestType /\ node \in [Reg -> NodeType] /\ th \in [Thread -> ThType]
      /\ \A u \in Thread : ThreadOf(th[u]) /\ th[u] \in ThType
  BY TypeForm
<1>c. Dirs /\ UNCHANGED handler => TokenInv'
  <2> SUFFICES ASSUME Dirs, UNCHANGED handler, NEW e \in Dev, handler[e] # 0
               PROVE  kobj'[handler[e]] # "none" /\ dev'[handler[e]] = e
    BY DEF TokenInv
  <2>1. handler[e] \in Reg
    BY <1>b, Bounds DEF RestType
  <2> QED
    BY <1>a, <2>1 DEF TokenInv
<1>d. Quiet /\ TokenInv' => FaultIInv'
  BY FaultQuiet
<1>e. UNCHANGED <<kobj, dev>> => Dirs /\ Readers
  OBVIOUS
<1>f. UNCHANGED node => Nodes
  OBVIOUS
<1>1. ASSUME NEW d \in Dev, RegisterKobj(t, d) PROVE FaultIInv'
  <2>1. Threads
    <3>1. th[t].pc = "idle"
      BY <1>1 DEF RegisterKobj, CanIoctl, CanStart
    <3> QED
      BY <1>1, <3>1, KobjForm DEF IoctlPcs
  <2>2. UNCHANGED <<careful, recorded, returned>>
    BY <1>1 DEF RegisterKobj, faultVars, modeVars
  <2>3. Dirs /\ Readers
    <3>1. /\ regs' = regs + 1 /\ regs' \in Reg /\ kobj[regs'] = "none"
          /\ \A n \in Reg : n # regs' => dev'[n] = dev[n] /\ kobj'[n] = kobj[n]
      <4>1. regs' = regs + 1 /\ regs' \in Reg /\ regs' > regs
        BY <1>1, NextNumber
      <4>2. kobj[regs'] = "none"
        BY <1>a, <4>1 DEF NumberInv, NumberOf
      <4> QED
        BY <1>1, <1>b, <4>1, <4>2 DEF RegisterKobj, RestType
    <3>2. \A u \in Thread : th[u].pc \in ShowPcs => th[u].reg \in Reg /\ kobj[th[u].reg] = "live"
      BY <1>a, <1>b DEF ReaderOf, ThreadOf
    <3> QED
      BY <3>1, <3>2
  <2>4. Nodes
    BY <1>1, <1>f DEF RegisterKobj
  <2>5. TokenInv'
    BY <1>1, <1>c, <2>3 DEF RegisterKobj, regVars
  <2> QED
    BY <1>d, <2>1, <2>2, <2>3, <2>4, <2>5
<1>2. ASSUME NEW d \in Dev, RegisterExists(t, d) PROVE FaultIInv'
  <2>1. Threads
    BY <1>2 DEF RegisterExists
  <2>2. UNCHANGED <<careful, recorded, returned>>
    BY <1>2 DEF RegisterExists, faultVars, modeVars
  <2>3. Dirs /\ Readers
    BY <1>2, <1>e DEF RegisterExists, regVars
  <2>4. Nodes
    BY <1>2, <1>f DEF RegisterExists
  <2>5. TokenInv'
    BY <1>2, <1>c, <2>3 DEF RegisterExists, regVars
  <2> QED
    BY <1>d, <2>1, <2>2, <2>3, <2>4, <2>5
<1>3. ASSUME NEW d \in Dev, DeregisterStart(t, d) PROVE FaultIInv'
  <2>1. Threads
    <3>1. th[t].pc = "idle"
      BY <1>3 DEF DeregisterStart, CanIoctl, CanStart
    <3> QED
      BY <1>3, <3>1, FindForm DEF IoctlPcs
  <2>2. UNCHANGED <<careful, recorded, returned>>
    BY <1>3 DEF DeregisterStart, faultVars, modeVars
  <2>3. Dirs /\ Readers
    BY <1>3, <1>e DEF DeregisterStart, regVars
  <2>4. Nodes
    BY <1>3, <1>f DEF DeregisterStart
  <2>5. TokenInv'
    BY <1>3, <1>c, <2>3 DEF DeregisterStart, regVars
  <2> QED
    BY <1>d, <2>1, <2>2, <2>3, <2>4, <2>5
<1>4. CASE RegisterFile(t)
  <2>1. Threads
    <3>1. th[t].pc \in IoctlPcs
      BY <1>4 DEF RegisterFile, IoctlPcs
    <3>2. th'[t].pc = "alloc" /\ \A u \in Thread : u # t => th'[u] = th[u]
      <4>1. Goto(t, "alloc") /\ "alloc" \in AllPcs
        BY <1>4 DEF RegisterFile, AllPcs, IoctlPcs
      <4> QED
        BY <1>b, <4>1, GotoForm
    <3> QED
      BY <3>1, <3>2 DEF IoctlPcs
  <2>2. UNCHANGED <<careful, recorded, returned>>
    BY <1>4 DEF RegisterFile, faultVars, modeVars
  <2>3. Dirs /\ Readers
    <3>1. /\ device_obj \in Reg /\ kobj[device_obj] = "bare" /\ UNCHANGED dev
          /\ kobj'[device_obj] = "live" /\ \A n \in Reg : n # device_obj => kobj'[n] = kobj[n]
      BY <1>4, <1>b, Bounds DEF RegisterFile, RestType
    <3>2. \A u \in Thread : th[u].pc \in ShowPcs => th[u].reg \in Reg /\ kobj[th[u].reg] = "live"
      BY <1>a, <1>b DEF ReaderOf, ThreadOf
    <3> QED
      BY <3>1, <3>2
  <2>4. Nodes
    BY <1>4, <1>f DEF RegisterFile
  <2>5. TokenInv'
    BY <1>4, <1>c, <2>3 DEF RegisterFile, regVars
  <2> QED
    BY <1>d, <2>1, <2>2, <2>3, <2>4, <2>5
<1>5. CASE RegisterFail(t)
  <2>1. Threads
    <3>1. th[t].pc \in IoctlPcs
      BY <1>5 DEF RegisterFail, IoctlPcs
    <3>2. th'[t].pc = "idle" /\ \A u \in Thread : u # t => th'[u] = th[u]
      BY <1>5, <1>b, ReturnForm DEF RegisterFail
    <3> QED
      BY <3>1, <3>2 DEF IoctlPcs
  <2>2. UNCHANGED <<careful, recorded, returned>>
    BY <1>5 DEF RegisterFail, faultVars, modeVars
  <2>3. Dirs /\ Readers
    BY <1>5, <1>e DEF RegisterFail, regVars
  <2>4. Nodes
    BY <1>5, <1>f DEF RegisterFail
  <2>5. TokenInv'
    BY <1>5, <1>c, <2>3 DEF RegisterFail, regVars
  <2> QED
    BY <1>d, <2>1, <2>2, <2>3, <2>4, <2>5
<1>6. CASE RegisterAlloc(t)
  <2>1. Threads
    <3>1. th[t].pc \in IoctlPcs
      BY <1>6 DEF RegisterAlloc, IoctlPcs
    <3>2. th'[t].pc = "link" /\ \A u \in Thread : u # t => th'[u] = th[u]
      <4>1. Goto(t, "link") /\ "link" \in AllPcs
        BY <1>6 DEF RegisterAlloc, AllPcs, IoctlPcs
      <4> QED
        BY <1>b, <4>1, GotoForm
    <3> QED
      BY <3>1, <3>2 DEF IoctlPcs
  <2>2. UNCHANGED <<careful, recorded, returned>>
    BY <1>6 DEF RegisterAlloc, faultVars, modeVars
  <2>3. Dirs /\ Readers
    BY <1>6, <1>e DEF RegisterAlloc, regVars
  <2>4. Nodes
    <3>1. node[th[t].reg].mem = "none"
      BY <1>6, <1>a DEF RegisterAlloc, RegisterOf, RegisterPcs
    <3> QED
      BY <1>6, <3>1, AllocForm
  <2>5. TokenInv'
    BY <1>6, <1>c, <2>3 DEF RegisterAlloc, regVars
  <2> QED
    BY <1>d, <2>1, <2>2, <2>3, <2>4, <2>5
<1>7. CASE RegisterWalk(t)
  <2>1. Threads
    <3>1. th[t].pc \in IoctlPcs
      BY <1>7 DEF RegisterWalk, IoctlPcs
    <3>2. th'[t].pc = th[t].pc /\ \A u \in Thread : u # t => th'[u] = th[u]
      <4>1. Visit(t, next[th[t].at]) /\ next[th[t].at] \in 0 .. MaxReg
        BY <1>7, <1>b, Bounds DEF RegisterWalk, ThType, RestType
      <4> QED
        BY <1>b, <4>1, VisitForm
    <3> QED
      BY <3>1, <3>2 DEF IoctlPcs
  <2>2. UNCHANGED <<careful, recorded, returned>>
    BY <1>7 DEF RegisterWalk, faultVars, modeVars
  <2>3. Dirs /\ Readers
    BY <1>7, <1>e DEF RegisterWalk, regVars
  <2>4. Nodes
    BY <1>7, <1>f DEF RegisterWalk
  <2>5. TokenInv'
    BY <1>7, <1>c, <2>3 DEF RegisterWalk, regVars
  <2> QED
    BY <1>d, <2>1, <2>2, <2>3, <2>4, <2>5
<1>8. CASE RegisterTail(t)
  <2>1. Threads
    <3>1. th[t].pc \in IoctlPcs
      BY <1>8 DEF RegisterTail, IoctlPcs
    <3>2. th'[t].pc = "append" /\ \A u \in Thread : u # t => th'[u] = th[u]
      <4>1. Goto(t, "append") /\ "append" \in AllPcs
        BY <1>8 DEF RegisterTail, AllPcs, IoctlPcs
      <4> QED
        BY <1>b, <4>1, GotoForm
    <3> QED
      BY <3>1, <3>2 DEF IoctlPcs
  <2>2. UNCHANGED <<careful, recorded, returned>>
    BY <1>8 DEF RegisterTail, faultVars, modeVars
  <2>3. Dirs /\ Readers
    BY <1>8, <1>e DEF RegisterTail, regVars
  <2>4. Nodes
    BY <1>8, <1>f DEF RegisterTail
  <2>5. TokenInv'
    BY <1>8, <1>c, <2>3 DEF RegisterTail, regVars
  <2> QED
    BY <1>d, <2>1, <2>2, <2>3, <2>4, <2>5
<1>9. CASE RegisterAppend(t)
  <2>1. Threads
    <3>1. th[t].pc \in IoctlPcs
      BY <1>9 DEF RegisterAppend, IoctlPcs
    <3>2. th'[t].pc = "handler" /\ \A u \in Thread : u # t => th'[u] = th[u]
      <4>1. Goto(t, "handler") /\ "handler" \in AllPcs
        BY <1>9 DEF RegisterAppend, AllPcs, IoctlPcs
      <4> QED
        BY <1>b, <4>1, GotoForm
    <3> QED
      BY <3>1, <3>2 DEF IoctlPcs
  <2>2. UNCHANGED <<careful, recorded, returned>>
    BY <1>9 DEF RegisterAppend, faultVars, modeVars
  <2>3. Dirs /\ Readers
    BY <1>9, <1>e DEF RegisterAppend, regVars
  <2>4. Nodes
    BY <1>9, <1>f DEF RegisterAppend
  <2>5. TokenInv'
    BY <1>9, <1>c, <2>3 DEF RegisterAppend, regVars
  <2> QED
    BY <1>d, <2>1, <2>2, <2>3, <2>4, <2>5
<1>10. CASE RegisterHandler(t)
  <2>1. Threads
    <3>1. th[t].pc \in IoctlPcs
      BY <1>10 DEF RegisterHandler, IoctlPcs
    <3>2. th'[t].pc = "idle" /\ \A u \in Thread : u # t => th'[u] = th[u]
      BY <1>10, <1>b, ReturnForm DEF RegisterHandler
    <3> QED
      BY <3>1, <3>2 DEF IoctlPcs
  <2>2. UNCHANGED <<careful, recorded, returned>>
    BY <1>10 DEF RegisterHandler, faultVars, modeVars
  <2>3. Dirs /\ Readers
    BY <1>10, <1>e DEF RegisterHandler, regVars
  <2>4. Nodes
    BY <1>10, <1>f DEF RegisterHandler
  <2>5. TokenInv'
    <3>1. /\ th[t].pc = "handler" /\ th[t].reg \in Reg /\ th[t].dev \in Dev
          /\ device_obj = th[t].reg /\ dev[th[t].reg] = th[t].dev /\ kobj[th[t].reg] = "live"
      BY <1>10, <1>a, <1>b DEF RegisterHandler, RegisterOf, RegisterPcs, ThreadOf
    <3>2. /\ handler'[th[t].dev] = th[t].reg /\ \A e \in Dev : e # th[t].dev => handler'[e] = handler[e]
          /\ UNCHANGED <<kobj, dev>>
      BY <1>10, <1>b, <3>1 DEF RegisterHandler, RestType
    <3> QED
      BY <1>a, <3>1, <3>2 DEF TokenInv
  <2> QED
    BY <1>d, <2>1, <2>2, <2>3, <2>4, <2>5
<1>11. CASE DeregisterWalk(t)
  <2>1. Threads
    <3>1. th[t].pc \in IoctlPcs
      BY <1>11 DEF DeregisterWalk, IoctlPcs
    <3>2. th'[t].pc = th[t].pc /\ \A u \in Thread : u # t => th'[u] = th[u]
      <4>1. Visit(t, next[th[t].at]) /\ next[th[t].at] \in 0 .. MaxReg
        BY <1>11, <1>b, Bounds DEF DeregisterWalk, ThType, RestType
      <4> QED
        BY <1>b, <4>1, VisitForm
    <3> QED
      BY <3>1, <3>2 DEF IoctlPcs
  <2>2. UNCHANGED <<careful, recorded, returned>>
    BY <1>11 DEF DeregisterWalk, faultVars, modeVars
  <2>3. Dirs /\ Readers
    BY <1>11, <1>e DEF DeregisterWalk, regVars
  <2>4. Nodes
    BY <1>11, <1>f DEF DeregisterWalk
  <2>5. TokenInv'
    BY <1>11, <1>c, <2>3 DEF DeregisterWalk, regVars
  <2> QED
    BY <1>d, <2>1, <2>2, <2>3, <2>4, <2>5
<1>12. CASE DeregisterMissing(t)
  <2>1. Threads
    <3>1. th[t].pc \in IoctlPcs
      BY <1>12 DEF DeregisterMissing, IoctlPcs
    <3>2. th'[t].pc = "idle" /\ \A u \in Thread : u # t => th'[u] = th[u]
      BY <1>12, <1>b, ReturnForm DEF DeregisterMissing
    <3> QED
      BY <3>1, <3>2 DEF IoctlPcs
  <2>2. UNCHANGED <<careful, recorded, returned>>
    BY <1>12 DEF DeregisterMissing, faultVars, modeVars
  <2>3. Dirs /\ Readers
    BY <1>12, <1>e DEF DeregisterMissing, regVars
  <2>4. Nodes
    BY <1>12, <1>f DEF DeregisterMissing
  <2>5. TokenInv'
    BY <1>12, <1>c, <2>3 DEF DeregisterMissing, regVars
  <2> QED
    BY <1>d, <2>1, <2>2, <2>3, <2>4, <2>5
<1>13. CASE DeregisterUnlink(t)
  <2>1. Threads
    <3>1. th[t].pc \in IoctlPcs
      BY <1>13 DEF DeregisterUnlink, Found, IoctlPcs
    <3>2. th'[t].pc = "put" /\ \A u \in Thread : u # t => th'[u] = th[u]
      <4>1. Goto(t, "put") /\ "put" \in AllPcs
        BY <1>13 DEF DeregisterUnlink, AllPcs, IoctlPcs
      <4> QED
        BY <1>b, <4>1, GotoForm
    <3> QED
      BY <3>1, <3>2 DEF IoctlPcs
  <2>2. UNCHANGED <<careful, recorded, returned>>
    BY <1>13 DEF DeregisterUnlink, faultVars, modeVars
  <2>3. Dirs /\ Readers
    BY <1>13, <1>e DEF DeregisterUnlink, regVars
  <2>4. Nodes
    BY <1>13, <1>f DEF DeregisterUnlink
  <2>5. TokenInv'
    BY <1>13, <1>c, <2>3 DEF DeregisterUnlink, regVars
  <2> QED
    BY <1>d, <2>1, <2>2, <2>3, <2>4, <2>5
<1>14. CASE DeregisterPut(t)
  <2>1. Threads
    <3>1. th[t].pc \in IoctlPcs
      BY <1>14 DEF DeregisterPut, IoctlPcs
    <3>2. th'[t].pc = "free" /\ \A u \in Thread : u # t => th'[u] = th[u]
      <4>1. Goto(t, "free") /\ "free" \in AllPcs
        BY <1>14 DEF DeregisterPut, AllPcs, IoctlPcs
      <4> QED
        BY <1>b, <4>1, GotoForm
    <3> QED
      BY <3>1, <3>2 DEF IoctlPcs
  <2>2. UNCHANGED <<careful, recorded, returned>>
    BY <1>14 DEF DeregisterPut, faultVars, modeVars
  <2>3. Dirs /\ Readers
    <3>1. th[t].at \in Reg /\ Readable(th[t].at)
      BY <1>14, <1>b DEF DeregisterPut, ThreadOf, RemovePcs
    <3>2. node[th[t].at].obj = th[t].at
      BY <3>1, NodeName
    <3>3. /\ kobj'[th[t].at] = "put" /\ UNCHANGED dev
          /\ \A n \in Reg : n # th[t].at => kobj'[n] = kobj[n]
      BY <1>14, <1>b, <3>1, <3>2 DEF DeregisterPut, RestType
    <3>4. \A u \in Thread : th[u].pc \in ShowPcs => th[u].reg # th[t].at
      BY <1>14, <3>2 DEF DeregisterPut
    <3>5. \A u \in Thread : th[u].pc \in ShowPcs => th[u].reg \in Reg
      BY <1>b DEF ThreadOf
    <3> QED
      BY <3>3, <3>4, <3>5
  <2>4. Nodes
    BY <1>14, <1>f DEF DeregisterPut
  <2>5. TokenInv'
    BY <1>14, <1>c, <2>3 DEF DeregisterPut, regVars
  <2> QED
    BY <1>d, <2>1, <2>2, <2>3, <2>4, <2>5
<1>15. CASE DeregisterFree(t)
  <2>1. Threads
    <3>1. th[t].pc \in IoctlPcs
      BY <1>15 DEF DeregisterFree, IoctlPcs
    <3>2. th'[t].pc = "idle" /\ \A u \in Thread : u # t => th'[u] = th[u]
      BY <1>15, <1>b, ReturnForm DEF DeregisterFree
    <3> QED
      BY <3>1, <3>2 DEF IoctlPcs
  <2>2. UNCHANGED <<careful, recorded, returned>>
    BY <1>15 DEF DeregisterFree, faultVars, modeVars
  <2>3. Dirs /\ Readers
    BY <1>15, <1>e DEF DeregisterFree, regVars
  <2>4. Nodes
    <3>1. kobj[th[t].at] = "put"
      BY <1>15, <1>a DEF DeregisterFree, RemoveOf
    <3> QED
      BY <1>15, <3>1, FreeForm
  <2>5. TokenInv'
    BY <1>15, <1>c, <2>3 DEF DeregisterFree, regVars
  <2> QED
    BY <1>d, <2>1, <2>2, <2>3, <2>4, <2>5
<1> QED
  BY <1>1, <1>2, <1>3, <1>4, <1>5, <1>6, <1>7, <1>8, <1>9, <1>10, <1>11, <1>12, <1>13, <1>14, <1>15

-----------------------------------------------------------------------------
(* The invariant *)

\* The nodes of the list exist, and their directories are readable.
LEMMA InListHolds ==
    ASSUME TypeInv, ListIInv, careful, NEW n \in InList
    PROVE  n \in Reg /\ node[n].mem = "live" /\ node[n].obj = n /\ kobj[n] = "live"
<1>a. NumberInv /\ \A u \in Thread : RegisterOf(th[u]) /\ ThreadOf(th[u])
  BY TypeForm DEF ListIInv, CallInv
<1>1. CASE n \in listed
  <2>1. n \in Reg /\ NumberOf(n)
    BY <1>a, <1>1, TypeForm DEF NumberInv, RestType
  <2>2. node[n].mem = "live" /\ node[n].obj = n /\ kobj[n] \in {"live", "put"}
    BY <1>1, <2>1 DEF NumberOf
  <2>3. ASSUME kobj[n] = "put" PROVE FALSE
    <3> PICK u \in Thread : th[u].pc = "free" /\ th[u].at = n
      BY <2>1, <2>2, <2>3 DEF NumberOf
    <3> QED
      BY DEF InList, Removing
  <2> QED
    BY <2>1, <2>2, <2>3
<1>2. CASE n \notin listed
  <2> PICK u \in Thread : th[u].pc = "handler" /\ th[u].reg = n
    BY <1>2 DEF InList, At
  <2>1. n \in Reg /\ node[n].mem = "live" /\ kobj[n] = "live"
    BY <1>a DEF RegisterOf, RegisterPcs, ThreadOf
  <2> QED
    BY <2>1, NodeName
<1> QED
  BY <1>1, <1>2

\* A call of an ioctl meets neither freed memory nor a directory that is gone.
LEMMA IoctlSafe ==
    ASSUME TypeInv, ListIInv, careful, NEW t \in Thread
    PROVE  ~RegisterMisuse(t) /\ ~DeregisterMisuse(t)
<1>a. RegisterOf(th[t]) /\ RemoveOf(th[t]) /\ ThreadOf(th[t]) /\ NumberInv
  BY TypeForm DEF ListIInv, CallInv
<1>b. \A n \in Chain : Held(n) /\ (n # 0 => Readable(n))
  BY InListHolds, Bounds DEF Chain, Held, Readable
<1>1. ASSUME RegisterMisuse(t) PROVE FALSE
  <2>1. CASE th[t].pc \in {"link", "append"} /\ ~Held(th[t].at)
    BY <1>a, <1>b, <2>1 DEF RegisterOf, RegisterPcs
  <2>2. CASE th[t].pc = "handler" /\ ~Named(device_obj)
    BY <1>a, <2>2, Bounds DEF RegisterOf, RegisterPcs, ThreadOf, Named
  <2> QED
    BY <1>1, <2>1, <2>2 DEF RegisterMisuse
<1>2. ASSUME DeregisterMisuse(t) PROVE FALSE
  <2>1. CASE th[t].pc = "find"
    <3>1. th[t].at \in Chain /\ th[t].prev \in Chain /\ next[th[t].prev] = th[t].at
      BY <1>a, <2>1 DEF RemoveOf
    <3> QED
      BY <1>2, <1>b, <2>1, <3>1 DEF DeregisterMisuse, Found
  <2>2. CASE th[t].pc = "put"
    <3>1. th[t].at \in Reg /\ th[t].at \in listed /\ kobj[th[t].at] = "live" /\ NumberOf(th[t].at)
      BY <1>a, <2>2 DEF RemoveOf, RemovePcs, ThreadOf, NumberInv
    <3>2. Readable(th[t].at)
      BY <3>1, Bounds DEF NumberOf, Readable
    <3> QED
      BY <1>2, <2>2, <3>2 DEF DeregisterMisuse, Found
  <2> QED
    BY <1>2, <2>1, <2>2 DEF DeregisterMisuse, Found
<1> QED
  BY <1>1, <1>2

\* The invariant holds when the module is loaded.
LEMMA Initially == Init => IInv
<1> SUFFICES ASSUME Init PROVE IInv
  OBVIOUS
<1>1. TypeInv
  BY TypeInitially
<1>2. /\ \A t \in Thread : th[t] = Idle /\ th[t].pc = "idle"
      /\ \A n \in Reg : node[n] = NoNode /\ node[n].mem = "none" /\ kobj[n] = "none"
      /\ \A n \in 0 .. MaxReg : next[n] = 0
      /\ regs = 0 /\ failed = {} /\ listed = {} /\ recorded = {}
      /\ \A d \in Dev : handler[d] = 0
  BY DEF Init, Idle, NoNode
<1>3. At({"handler"}) = {} /\ At(RegisterPcs) = {} /\ Removing = {}
  BY <1>2 DEF At, Removing, RegisterPcs
<1>4. InList = {} /\ Chain = {0}
  BY <1>2, <1>3 DEF InList, Chain
<1>5. ListIInv
  <2>1. OneCall /\ OneName
    BY <1>2 DEF OneCall, OneName, IoctlPcs
  <2>2. NumberInv
    BY <1>2, Bounds DEF NumberInv, NumberOf
  <2>3. CycleInv
    BY <1>2, <1>4, Bounds DEF CycleInv
  <2>4. CallInv
    BY <1>2 DEF CallInv, RegisterOf, RemoveOf, RegisterPcs, RemovePcs
  <2>5. KobjAccounted
    BY <1>2, <1>3 DEF KobjAccounted, RegisterPcs
  <2> QED
    BY <2>1, <2>2, <2>3, <2>4, <2>5 DEF ListIInv
<1>6. FaultIInv
  <2>1. TokenInv /\ OneFault /\ OneReader /\ StoredInv
    BY <1>2 DEF TokenInv, OneFault, OneReader, StoredInv, FaultPcs, ShowPcs
  <2>2. \A t \in Thread : FaultOf(th[t]) /\ ReaderOf(th[t])
    BY <1>2 DEF FaultOf, ReaderOf, FaultPcs, StorePcs, ShowPcs, ReadPcs
  <2>3. FaultReported
    BY <1>2 DEF FaultReported
  <2> QED
    BY <2>1, <2>2, <2>3 DEF FaultIInv
<1> QED
  BY <1>1, <1>5, <1>6 DEF IInv

\* No step changes the manners of user space.
LEMMA Manners == Next => UNCHANGED careful
<1>1. ASSUME NEW t \in Thread, NEW d \in Dev,
             RegisterKobj(t, d) \/ RegisterExists(t, d) \/ DeregisterStart(t, d) \/ Fault(t, d)
      PROVE  UNCHANGED careful
  BY <1>1 DEF RegisterKobj, RegisterExists, DeregisterStart, Fault, modeVars
<1>2. ASSUME NEW t \in Thread,
             \/ RegisterFile(t) \/ RegisterFail(t) \/ RegisterAlloc(t) \/ RegisterWalk(t)
             \/ RegisterTail(t) \/ RegisterAppend(t) \/ RegisterHandler(t) \/ RegisterMisuse(t)
      PROVE  UNCHANGED careful
  BY <1>2 DEF RegisterFile, RegisterFail, RegisterAlloc, RegisterWalk, RegisterTail,
         RegisterAppend, RegisterHandler, RegisterMisuse, Misuse, modeVars
<1>3. ASSUME NEW t \in Thread,
             \/ DeregisterWalk(t) \/ DeregisterMissing(t) \/ DeregisterUnlink(t)
             \/ DeregisterPut(t) \/ DeregisterFree(t) \/ DeregisterMisuse(t)
      PROVE  UNCHANGED careful
  BY <1>3 DEF DeregisterWalk, DeregisterMissing, DeregisterUnlink, DeregisterPut,
         DeregisterFree, DeregisterMisuse, Misuse, modeVars
<1>4. ASSUME NEW t \in Thread,
             \/ FaultWalk(t) \/ FaultEnd(t) \/ FaultMatch(t) \/ FaultFsr(t) \/ FaultIova(t)
             \/ FaultFlag(t) \/ FaultMisuse(t)
      PROVE  UNCHANGED careful
  BY <1>4 DEF FaultWalk, FaultEnd, FaultMatch, FaultFsr, FaultIova, FaultFlag, FaultMisuse,
         Misuse, modeVars
<1>5. ASSUME NEW t \in Thread, NEW k \in Reg, Show(t, k) PROVE UNCHANGED careful
  BY <1>5 DEF Show, modeVars
<1>6. ASSUME NEW t \in Thread,
             \/ ShowWalk(t) \/ ShowEnd(t) \/ ShowFsr(t) \/ ShowIova(t)
             \/ ShowClear(t) \/ ShowFlag(t) \/ ShowMisuse(t)
      PROVE  UNCHANGED careful
  BY <1>6 DEF ShowWalk, ShowEnd, ShowFsr, ShowIova, ShowClear, ShowFlag, ShowMisuse, Misuse,
         modeVars
<1> QED
  BY <1>1, <1>2, <1>3, <1>4, <1>5, <1>6 DEF Next

\* Each step of a registration, a removal, a fault or a reader keeps it.
LEMMA Kept == ASSUME IInv, Next PROVE IInv'
<1>a. TypeInv /\ TypeInv' /\ ListIInv /\ FaultIInv
  BY TypeKept DEF IInv
<1>b. UNCHANGED careful
  BY Manners
<1>1. CASE ~careful
  BY <1>a, <1>b, <1>1 DEF IInv, ListIInv, FaultIInv
<1>2. CASE careful
  <2> SUFFICES ListIInv' /\ FaultIInv'
    BY <1>a DEF IInv
  <2> PICK t \in Thread :
          \/ \E d \in Dev : RegisterKobj(t, d) \/ RegisterExists(t, d)
                              \/ DeregisterStart(t, d) \/ Fault(t, d)
          \/ RegisterFile(t) \/ RegisterFail(t) \/ RegisterAlloc(t) \/ RegisterWalk(t)
          \/ RegisterTail(t) \/ RegisterAppend(t) \/ RegisterHandler(t) \/ RegisterMisuse(t)
          \/ DeregisterWalk(t) \/ DeregisterMissing(t) \/ DeregisterUnlink(t)
          \/ DeregisterPut(t) \/ DeregisterFree(t) \/ DeregisterMisuse(t)
          \/ FaultWalk(t) \/ FaultEnd(t) \/ FaultMatch(t) \/ FaultFsr(t) \/ FaultIova(t)
          \/ FaultFlag(t) \/ FaultMisuse(t)
          \/ \E k \in Reg : Show(t, k)
          \/ ShowWalk(t) \/ ShowEnd(t) \/ ShowFsr(t) \/ ShowIova(t)
          \/ ShowClear(t) \/ ShowFlag(t) \/ ShowMisuse(t)
    BY DEF Next
  <2>1. ASSUME NEW d \in Dev, RegisterKobj(t, d) PROVE ListIInv' /\ FaultIInv'
    <3>1. ListIInv'
      BY <1>a, <1>2, <2>1, RegisterKobjKept
    <3>2. FaultIInv'
      BY <1>a, <1>2, <2>1, IoctlFaults
    <3> QED
      BY <3>1, <3>2
  <2>2. ASSUME NEW d \in Dev, RegisterExists(t, d) PROVE ListIInv' /\ FaultIInv'
    <3>1. ListIInv'
      BY <1>a, <1>2, <2>2, RegisterExistsKept
    <3>2. FaultIInv'
      BY <1>a, <1>2, <2>2, IoctlFaults
    <3> QED
      BY <3>1, <3>2
  <2>3. ASSUME NEW d \in Dev, DeregisterStart(t, d) PROVE ListIInv' /\ FaultIInv'
    <3>1. ListIInv'
      BY <1>a, <1>2, <2>3, DeregisterStartKept
    <3>2. FaultIInv'
      BY <1>a, <1>2, <2>3, IoctlFaults
    <3> QED
      BY <3>1, <3>2
  <2>4. ASSUME NEW d \in Dev, Fault(t, d) PROVE ListIInv' /\ FaultIInv'
    BY <1>a, <1>2, <2>4, FaultKept
  <2>5. ASSUME RegisterFile(t) PROVE ListIInv' /\ FaultIInv'
    <3>1. ListIInv'
      BY <1>a, <1>2, <2>5, RegisterFileKept
    <3>2. FaultIInv'
      BY <1>a, <1>2, <2>5, IoctlFaults
    <3> QED
      BY <3>1, <3>2
  <2>6. ASSUME RegisterFail(t) PROVE ListIInv' /\ FaultIInv'
    <3>1. ListIInv'
      BY <1>a, <1>2, <2>6, RegisterFailKept
    <3>2. FaultIInv'
      BY <1>a, <1>2, <2>6, IoctlFaults
    <3> QED
      BY <3>1, <3>2
  <2>7. ASSUME RegisterAlloc(t) PROVE ListIInv' /\ FaultIInv'
    <3>1. ListIInv'
      BY <1>a, <1>2, <2>7, RegisterAllocKept
    <3>2. FaultIInv'
      BY <1>a, <1>2, <2>7, IoctlFaults
    <3> QED
      BY <3>1, <3>2
  <2>8. ASSUME RegisterWalk(t) PROVE ListIInv' /\ FaultIInv'
    <3>1. ListIInv'
      BY <1>a, <1>2, <2>8, RegisterWalkKept
    <3>2. FaultIInv'
      BY <1>a, <1>2, <2>8, IoctlFaults
    <3> QED
      BY <3>1, <3>2
  <2>9. ASSUME RegisterTail(t) PROVE ListIInv' /\ FaultIInv'
    <3>1. ListIInv'
      BY <1>a, <1>2, <2>9, RegisterTailKept
    <3>2. FaultIInv'
      BY <1>a, <1>2, <2>9, IoctlFaults
    <3> QED
      BY <3>1, <3>2
  <2>10. ASSUME RegisterAppend(t) PROVE ListIInv' /\ FaultIInv'
    <3>1. ListIInv'
      BY <1>a, <1>2, <2>10, RegisterAppendKept
    <3>2. FaultIInv'
      BY <1>a, <1>2, <2>10, IoctlFaults
    <3> QED
      BY <3>1, <3>2
  <2>11. ASSUME RegisterHandler(t) PROVE ListIInv' /\ FaultIInv'
    <3>1. ListIInv'
      BY <1>a, <1>2, <2>11, RegisterHandlerKept
    <3>2. FaultIInv'
      BY <1>a, <1>2, <2>11, IoctlFaults
    <3> QED
      BY <3>1, <3>2
  <2>12. ASSUME DeregisterWalk(t) PROVE ListIInv' /\ FaultIInv'
    <3>1. ListIInv'
      BY <1>a, <1>2, <2>12, DeregisterWalkKept
    <3>2. FaultIInv'
      BY <1>a, <1>2, <2>12, IoctlFaults
    <3> QED
      BY <3>1, <3>2
  <2>13. ASSUME DeregisterMissing(t) PROVE ListIInv' /\ FaultIInv'
    <3>1. ListIInv'
      BY <1>a, <1>2, <2>13, DeregisterMissingKept
    <3>2. FaultIInv'
      BY <1>a, <1>2, <2>13, IoctlFaults
    <3> QED
      BY <3>1, <3>2
  <2>14. ASSUME DeregisterUnlink(t) PROVE ListIInv' /\ FaultIInv'
    <3>1. ListIInv'
      BY <1>a, <1>2, <2>14, DeregisterUnlinkKept
    <3>2. FaultIInv'
      BY <1>a, <1>2, <2>14, IoctlFaults
    <3> QED
      BY <3>1, <3>2
  <2>15. ASSUME DeregisterPut(t) PROVE ListIInv' /\ FaultIInv'
    <3>1. ListIInv'
      BY <1>a, <1>2, <2>15, DeregisterPutKept
    <3>2. FaultIInv'
      BY <1>a, <1>2, <2>15, IoctlFaults
    <3> QED
      BY <3>1, <3>2
  <2>16. ASSUME DeregisterFree(t) PROVE ListIInv' /\ FaultIInv'
    <3>1. ListIInv'
      BY <1>a, <1>2, <2>16, DeregisterFreeKept
    <3>2. FaultIInv'
      BY <1>a, <1>2, <2>16, IoctlFaults
    <3> QED
      BY <3>1, <3>2
  <2>17. ASSUME FaultWalk(t) PROVE ListIInv' /\ FaultIInv'
    BY <1>a, <1>2, <2>17, FaultWalkKept
  <2>18. ASSUME FaultEnd(t) PROVE ListIInv' /\ FaultIInv'
    BY <1>a, <1>2, <2>18, FaultEndKept
  <2>19. ASSUME FaultMatch(t) PROVE ListIInv' /\ FaultIInv'
    BY <1>a, <1>2, <2>19, FaultMatchKept
  <2>20. ASSUME FaultFsr(t) PROVE ListIInv' /\ FaultIInv'
    BY <1>a, <1>2, <2>20, FaultFsrKept
  <2>21. ASSUME FaultIova(t) PROVE ListIInv' /\ FaultIInv'
    BY <1>a, <1>2, <2>21, FaultIovaKept
  <2>22. ASSUME FaultFlag(t) PROVE ListIInv' /\ FaultIInv'
    BY <1>a, <1>2, <2>22, FaultFlagKept
  <2>23. ASSUME FaultMisuse(t) PROVE ListIInv' /\ FaultIInv'
    BY <1>a, <1>2, <2>23, FaultMisuseKept
  <2>24. ASSUME NEW k \in Reg, Show(t, k) PROVE ListIInv' /\ FaultIInv'
    BY <1>a, <1>2, <2>24, ShowKept
  <2>25. ASSUME ShowWalk(t) PROVE ListIInv' /\ FaultIInv'
    BY <1>a, <1>2, <2>25, ShowWalkKept
  <2>26. ASSUME ShowEnd(t) PROVE ListIInv' /\ FaultIInv'
    BY <1>a, <1>2, <2>26, ShowEndKept
  <2>27. ASSUME ShowFsr(t) PROVE ListIInv' /\ FaultIInv'
    BY <1>a, <1>2, <2>27, ShowFsrKept
  <2>28. ASSUME ShowIova(t) PROVE ListIInv' /\ FaultIInv'
    BY <1>a, <1>2, <2>28, ShowIovaKept
  <2>29. ASSUME ShowClear(t) PROVE ListIInv' /\ FaultIInv'
    BY <1>a, <1>2, <2>29, ShowClearKept
  <2>30. ASSUME ShowFlag(t) PROVE ListIInv' /\ FaultIInv'
    BY <1>a, <1>2, <2>30, ShowFlagKept
  <2>31. ASSUME ShowMisuse(t) PROVE ListIInv' /\ FaultIInv'
    BY <1>a, <1>2, <2>31, ShowMisuseKept
  <2>32. ~RegisterMisuse(t) /\ ~DeregisterMisuse(t)
    BY <1>a, <1>2, IoctlSafe
  <2> QED
    BY <2>1, <2>2, <2>3, <2>4, <2>5, <2>6, <2>7, <2>8, <2>9, <2>10, <2>11, <2>12, <2>13, <2>14, <2>15, <2>16, <2>17, <2>18, <2>19, <2>20, <2>21, <2>22, <2>23, <2>24, <2>25, <2>26, <2>27, <2>28, <2>29, <2>30, <2>31, <2>32
<1> QED
  BY <1>1, <1>2

\* So does a step of something else.
LEMMA Stutters == ASSUME IInv, UNCHANGED vars PROVE IInv'
<1>a. TypeInv /\ ListIInv /\ FaultIInv
  BY DEF IInv
<1>b. /\ UNCHANGED <<careful, regs, dev, kobj, next, device_obj, failed, listed, node, th>>
      /\ UNCHANGED <<recorded, returned, handler>>
  BY DEF vars, regVars, faultVars, modeVars
<1>1. TypeInv'
  BY <1>a DEF TypeInv, TypeOK, ThreadOf, vars, regVars, faultVars, modeVars
<1>2. ListIInv'
  BY <1>a, <1>b, <1>1, ListQuiet
<1>3. FaultIInv'
  <2>1. CASE careful
    <3>1. TokenInv'
      BY <1>a, <1>b, <2>1 DEF FaultIInv, TokenInv
    <3> QED
      BY <1>a, <1>b, <2>1, <3>1, FaultQuiet
  <2>2. CASE ~careful
    BY <1>b, <2>2 DEF FaultIInv
  <2> QED
    BY <2>1, <2>2
<1> QED
  BY <1>1, <1>2, <1>3 DEF IInv

\* The list, the directories, the handlers and the readers as kiumd_smmu_fault_handler,
\* fsr_iova_show, kiumd_smmu_fault_handler_register and _deregister keep them.
THEOREM Invariance == Spec => []IInv
<1>1. IInv /\ [Next]_vars => IInv'
  BY Kept, Stutters
<1> QED
  BY Initially, <1>1, PTL DEF Spec

\* kiumd_smmu_fault_handler_register and _deregister keep the list: head reaches
\* exactly the registered devices, each once, and every directory has an owner.
THEOREM ListInvHolds == Spec => []ListInv
<1>1. IInv => ListInv
  <2> SUFFICES ASSUME IInv PROVE ListInv
    OBVIOUS
  <2>a. TypeInv /\ ListIInv
    BY DEF IInv
  <2>1. ASSUME careful
        PROVE  /\ Listed = (listed \cup At({"handler"})) \ Removing
               /\ \A n \in Listed : node[n].mem = "live" /\ node[n].obj = n /\ kobj[n] = "live"
               /\ \A m, n \in Listed : dev[m] = dev[n] => m = n
    <3>1. \A n \in InList : n \in Reg /\ node[n].mem = "live" /\ node[n].obj = n /\ kobj[n] = "live"
      BY <2>a, <2>1, InListHolds
    <3>2. Listed = InList
      BY <2>a, <2>1, <3>1, ListedForm DEF ListIInv
    <3>3. \A m, n \in InList : dev[m] = dev[n] => m = n
      BY <2>a, <2>1, <3>1 DEF ListIInv, OneName
    <3> QED
      BY <3>1, <3>2, <3>3 DEF InList
  <2>2. ListSound
    BY <2>1 DEF ListSound
  <2>3. KobjAccounted
    BY <2>a DEF ListIInv, KobjAccounted
  <2> QED
    BY <2>a, <2>2, <2>3 DEF ListInv, TypeInv
<1> QED
  BY Invariance, <1>1, PTL

\* kobject_put waits for fsr_iova_show, so that its reader never uses a node
\* that kiumd_smmu_fault_handler_deregister has freed.
THEOREM OwnNodeSafeHolds == Spec => []OwnNodeSafe
<1>1. IInv => OwnNodeSafe
  BY ReaderHolds DEF IInv, OwnNodeSafe, ReadPcs
<1> QED
  BY Invariance, <1>1, PTL

\* A fault that kiumd_smmu_fault_handler stored stays in the node of its device
\* until fsr_iova_show has both values, or the device is deregistered.
THEOREM FaultReportedHolds == Spec => []FaultReported
<1>1. IInv => FaultReported
  BY DEF IInv, FaultIInv, FaultReported
<1> QED
  BY Invariance, <1>1, PTL


=============================================================================
