------------------------------- MODULE MmioMap -------------------------------
(***************************************************************************)
(* kiumd_mmio_smmu_map and kiumd_mmio_smmu_unmap (drivers/kiumd.c): device *)
(* registers mapped for one device at an IOVA that is fixed by the caller  *)
(* or taken from the DMA layer.  A fixed IOVA is passed through the DMA    *)
(* cookie of the device, turned into an MSI cookie for the time of the     *)
(* mapping under the cookie's mutex.  Whoever unmaps does not take that    *)
(* mutex.  Several open files of KIUMD map for the device at once.         *)
(***************************************************************************)
EXTENDS Integers, FiniteSets

CONSTANTS
    Thread, \* threads that call the ioctls
    Ctx,    \* open files of KIUMD
    MaxMap, \* bound: map calls
    Iovas,  \* pages of the address space of the device
    None

ASSUME MmioAssumption ==
    /\ MaxMap \in Nat \ {0} /\ Iovas \in Nat \ {0}
    /\ None \notin Thread \cup Ctx

Slot == 1 .. MaxMap
Iova == 0 .. Iovas - 1   \* a mapping takes one page

VARIABLES
    careful, \* TRUE: each id is unmapped once and after its map has returned,
             \* and fixed and free maps do not run at the same time
    open,    \* contexts whose close has not begun
    calls,   \* map calls begun: call n has the entry n
    slot,    \* slot[n]: entry of the hash table and its mmio_ctx
    table,   \* page table: table[i] is the call that mapped i, 0 if none did
    alloc,   \* IOVAs that the DMA layer has given out
    cookie,  \* the DMA cookie of the device: type and msi_iova
    mutex,   \* thread that holds the cookie's mutex
    th,      \* what each thread is doing
    pulled,  \* history: pulled[n]: how often an unmapping moved the cookie's
             \* address back between the two steps with which call n set and took it
    bad      \* freed memory has been used

vars == <<careful, open, calls, slot, table, alloc, cookie, mutex, th, pulled, bad>>

NewSlot == [mem |-> "none", ctx |-> None, fixed |-> FALSE, req |-> 0, iova |-> 0]
Idle == [pc |-> "idle", n |-> 0, iova |-> 0, err |-> FALSE]
IovaCookie == [type |-> "iova", msi |-> 0]

MapPcs == {"set", "alloc", "map", "reset", "hash", "copy", "del"}
UnmapPcs == {"unmap", "remove"}

TypeOK ==
    /\ careful \in BOOLEAN /\ open \subseteq Ctx /\ calls \in 0 .. MaxMap
    /\ slot \in [Slot -> [mem : {"none", "call", "hashed", "freed"}, ctx : Ctx \cup {None},
                          fixed : BOOLEAN, req : Iova, iova : Iova]]
    /\ table \in [Iova -> 0 .. MaxMap] /\ alloc \subseteq Iova
    /\ cookie \in [type : {"iova", "msi"}, msi : Int]
    /\ mutex \in Thread \cup {None}
    /\ th \in [Thread -> [pc : {"idle"} \cup MapPcs \cup UnmapPcs, n : 0 .. MaxMap,
                          iova : Int, err : BOOLEAN]]
    /\ pulled \in [Slot -> Nat]
    /\ bad \in BOOLEAN

Init ==
    /\ careful \in BOOLEAN /\ open = Ctx /\ calls = 0
    /\ slot = [n \in Slot |-> NewSlot]
    /\ table = [i \in Iova |-> 0] /\ alloc = {}
    /\ cookie = IovaCookie /\ mutex = None
    /\ th = [t \in Thread |-> Idle] /\ pulled = [n \in Slot |-> 0] /\ bad = FALSE

-----------------------------------------------------------------------------
(* Helpers *)

Goto(t, pc) == th' = [th EXCEPT ![t].pc = pc]
Return(t) == th' = [th EXCEPT ![t] = Idle]
Users(n) == {t \in Thread : th[t].n = n}
Mapping(fixed) == {t \in Thread : th[t].pc \in MapPcs /\ slot[th[t].n].fixed = fixed}
Entries(c) == {n \in Slot : slot[n].mem = "hashed" /\ slot[n].ctx = c}

\* The mutex holder has set the address of the cookie and not taken it yet.
Pending == {n \in Slot : \E t \in Thread : mutex = t /\ th[t].n = n /\ th[t].pc = "alloc"}

\* iommu_dma_free_iova goes by the type the cookie has now: the allocator gets
\* the IOVA back whoever chose it, or the address of an MSI cookie is moved.
FreeIova(i) ==
    IF cookie.type = "msi"
    THEN /\ cookie' = [cookie EXCEPT !.msi = @ - 1]
         /\ UNCHANGED alloc
    ELSE /\ alloc' = alloc \ {i}
         /\ UNCHANGED cookie

\* dma_unmap_resource, which takes no mutex.
UnmapResource(i) ==
    /\ table' = [table EXCEPT ![i] = 0]
    /\ FreeIova(i)
    /\ pulled' = [n \in Slot |-> IF n \in Pending THEN pulled[n] + 1 ELSE pulled[n]]

Misuse(t) ==
    /\ bad' = TRUE
    /\ Return(t)
    /\ UNCHANGED <<careful, open, calls, slot, table, alloc, cookie, mutex, pulled>>

-----------------------------------------------------------------------------
(* Faulty variants of actions below, each with the property it breaks; they *)
(* are not part of Next.                                                   *)

\* EntryPlaced: the cookie is set without waiting for its mutex.
MapSetUnlocked(t) ==
    /\ th[t].pc = "set"
    /\ mutex' = t
    /\ cookie' = [type |-> "msi", msi |-> slot[th[t].n].req]
    /\ Goto(t, "alloc")
    /\ pulled' = [pulled EXCEPT ![th[t].n] = 0]
    /\ UNCHANGED <<careful, open, calls, slot, table, alloc, bad>>

\* MappedInv: a failed copy to user space frees the entry, not the mapping.
MapCopyFailKeep(t) ==
    /\ th[t].pc = "copy"
    /\ Goto(t, "del")
    /\ UNCHANGED <<careful, open, calls, slot, table, alloc, cookie, mutex, pulled, bad>>

-----------------------------------------------------------------------------
(* kiumd_mmio_smmu_map *)

\* The entries of the caller's table are searched for a fixed IOVA, under the lock.
MapStart(t, c, fixed, req) ==
    /\ th[t] = Idle /\ ~bad /\ c \in open /\ calls < MaxMap
    /\ careful => Mapping(~fixed) = {}
    /\ ~fixed => req = 0
    /\ fixed => \A n \in Entries(c) : slot[n].iova # req
    /\ calls' = calls + 1
    /\ slot' = [slot EXCEPT ![calls + 1] =
                   [NewSlot EXCEPT !.mem = "call", !.ctx = c, !.fixed = fixed, !.req = req]]
    /\ th' = [th EXCEPT ![t] = [Idle EXCEPT !.n = calls + 1, !.pc = IF fixed THEN "set" ELSE "alloc"]]
    /\ UNCHANGED <<careful, open, table, alloc, cookie, mutex, pulled, bad>>

\* The register name is bad or names nothing; mmio_ctx is lost with the entry.
MapReject(t) ==
    /\ th[t].pc \in {"set", "alloc"} /\ mutex # t
    /\ slot' = [slot EXCEPT ![th[t].n].mem = "freed"]
    /\ Return(t)
    /\ UNCHANGED <<careful, open, calls, table, alloc, cookie, mutex, pulled, bad>>

MapSetCookie(t) ==
    /\ th[t].pc = "set" /\ mutex = None
    /\ mutex' = t
    /\ cookie' = [type |-> "msi", msi |-> slot[th[t].n].req]
    /\ Goto(t, "alloc")
    /\ pulled' = [pulled EXCEPT ![th[t].n] = 0]
    /\ UNCHANGED <<careful, open, calls, slot, table, alloc, bad>>

\* iommu_dma_alloc_iova with an MSI cookie: the next address, whoever set it.
MapAllocMsi(t) ==
    /\ th[t].pc = "alloc" /\ cookie.type = "msi"
    /\ th' = [th EXCEPT ![t].iova = cookie.msi, ![t].pc = "map"]
    /\ cookie' = [cookie EXCEPT !.msi = @ + 1]
    /\ UNCHANGED <<careful, open, calls, slot, table, alloc, mutex, pulled, bad>>

\* ... and with an IOVA cookie: an address not given out; 0 never is.
MapAllocIova(t) ==
    /\ th[t].pc = "alloc" /\ cookie.type = "iova"
    /\ \E i \in Iova \ (alloc \cup {0}) :
          /\ th' = [th EXCEPT ![t].iova = i, ![t].pc = "map"]
          /\ alloc' = alloc \cup {i}
    /\ UNCHANGED <<careful, open, calls, slot, table, cookie, mutex, pulled, bad>>

\* iommu_map: the page table takes a page only where nothing is mapped.
MapTable(t) ==
    /\ th[t].pc = "map" /\ th[t].iova \in Iova
    /\ table[th[t].iova] = 0
    /\ table' = [table EXCEPT ![th[t].iova] = th[t].n]
    /\ Goto(t, IF slot[th[t].n].fixed THEN "reset" ELSE "hash")
    /\ UNCHANGED <<careful, open, calls, slot, alloc, cookie, mutex, pulled, bad>>

\* The IOVA goes back the way the cookie's type says now.
MapTableFail(t) ==
    /\ th[t].pc = "map"
    /\ FreeIova(th[t].iova)
    /\ th' = [th EXCEPT ![t].err = TRUE, ![t].pc = IF slot[th[t].n].fixed THEN "reset" ELSE "del"]
    /\ UNCHANGED <<careful, open, calls, slot, table, mutex, pulled, bad>>

MapResetCookie(t) ==
    /\ th[t].pc = "reset"
    /\ cookie' = IovaCookie
    /\ mutex' = None
    /\ Goto(t, IF th[t].err THEN "del" ELSE "hash")
    /\ UNCHANGED <<careful, open, calls, slot, table, alloc, pulled, bad>>

MapHash(t) ==
    /\ th[t].pc = "hash"
    /\ slot' = [slot EXCEPT ![th[t].n].mem = "hashed", ![th[t].n].iova = th[t].iova]
    /\ Goto(t, "copy")
    /\ UNCHANGED <<careful, open, calls, table, alloc, cookie, mutex, pulled, bad>>

MapReturn(t) ==
    /\ th[t].pc = "copy"
    /\ Return(t)
    /\ UNCHANGED <<careful, open, calls, slot, table, alloc, cookie, mutex, pulled, bad>>

\* copy_to_user fails: goto smap_del, with the entry still in the table.
MapCopyFail(t) ==
    /\ th[t].pc = "copy"
    /\ UnmapResource(th[t].iova)
    /\ Goto(t, "del")
    /\ UNCHANGED <<careful, open, calls, slot, mutex, bad>>

MapDel(t) ==
    /\ th[t].pc = "del" /\ slot[th[t].n].mem # "freed"
    /\ slot' = [slot EXCEPT ![th[t].n].mem = "freed"]
    /\ Return(t)
    /\ UNCHANGED <<careful, open, calls, table, alloc, cookie, mutex, pulled, bad>>

-----------------------------------------------------------------------------
(* kiumd_mmio_smmu_unmap, and the part of kiumd_close that unmaps *)

\* The entry is found under the lock and used after it.
UnmapFind(t, n) ==
    /\ th[t] = Idle /\ ~bad /\ slot[n].mem = "hashed" /\ slot[n].ctx \in open
    /\ careful => Users(n) = {}
    /\ th' = [th EXCEPT ![t] = [Idle EXCEPT !.n = n, !.pc = "unmap"]]
    /\ UNCHANGED <<careful, open, calls, slot, table, alloc, cookie, mutex, pulled, bad>>

UnmapTable(t) ==
    /\ th[t].pc = "unmap" /\ slot[th[t].n].mem = "hashed"
    /\ UnmapResource(slot[th[t].n].iova)
    /\ Goto(t, "remove")
    /\ UNCHANGED <<careful, open, calls, slot, mutex, bad>>

UnmapDel(t) ==
    /\ th[t].pc = "remove" /\ slot[th[t].n].mem = "hashed"
    /\ slot' = [slot EXCEPT ![th[t].n].mem = "freed"]
    /\ Return(t)
    /\ UNCHANGED <<careful, open, calls, table, alloc, cookie, mutex, pulled, bad>>

\* Another call has freed the entry.
UseFreed(t) ==
    /\ th[t].pc \in {"del", "unmap", "remove"} /\ slot[th[t].n].mem = "freed"
    /\ Misuse(t)

\* The last reference of the file is gone: no call of the context is running.
Close(c) ==
    /\ c \in open /\ ~bad
    /\ \A t \in Thread : th[t].n # 0 => slot[th[t].n].ctx # c
    /\ open' = open \ {c}
    /\ UNCHANGED <<careful, calls, slot, table, alloc, cookie, mutex, th, pulled, bad>>

\* kiumd_close unmaps and frees the entries of its table one by one.
CloseEntry(n) ==
    /\ slot[n].mem = "hashed" /\ slot[n].ctx \notin open /\ ~bad
    /\ slot' = [slot EXCEPT ![n].mem = "freed"]
    /\ UnmapResource(slot[n].iova)
    /\ UNCHANGED <<careful, open, calls, mutex, th, bad>>

-----------------------------------------------------------------------------

Map(t) ==
    \/ \E c \in Ctx, fixed \in BOOLEAN, req \in Iova : MapStart(t, c, fixed, req)
    \/ MapReject(t) \/ MapSetCookie(t) \/ MapAllocMsi(t) \/ MapAllocIova(t)
    \/ MapTable(t) \/ MapTableFail(t) \/ MapResetCookie(t)
    \/ MapHash(t) \/ MapReturn(t) \/ MapCopyFail(t) \/ MapDel(t)

Unmap(t) == (\E n \in Slot : UnmapFind(t, n)) \/ UnmapTable(t) \/ UnmapDel(t) \/ UseFreed(t)

Next ==
    \/ \E t \in Thread : Map(t) \/ Unmap(t)
    \/ \E c \in Ctx : Close(c)
    \/ \E n \in Slot : CloseEntry(n)

Spec == Init /\ [][Next]_vars

-----------------------------------------------------------------------------
(* Properties *)

(* Nothing stays mapped that no entry or running call can unmap: not after *)
(* a failed copy, a refused mapping, two unmaps of one id, or close.       *)
MappedOwned ==
    ~bad => \A i \in Iova : table[i] # 0 =>
        \/ slot[table[i]].mem = "hashed" /\ slot[table[i]].iova = i
        \/ \E t \in Users(table[i]) : th[t].pc \in {"reset", "hash"} /\ th[t].iova = i

(* As long as each id is unmapped once, an entry that no call is taking    *)
(* down is mapped, whatever the calls of other files fail at or unmap.     *)
EntryMapped ==
    careful => \A n \in Slot :
        slot[n].mem = "hashed" /\ (\A t \in Users(n) : th[t].pc \notin {"remove", "del"}) =>
            table[slot[n].iova] = n

(* A fixed map that succeeds is at the IOVA that was asked for, unless      *)
(* something was unmapped for the device between the two steps with which   *)
(* it set the cookie and took its address: then it is one page lower for    *)
(* every such unmapping, whichever file, entry or failed copy it was for.   *)
(* No map without a fixed IOVA runs at the same time.                       *)
FixedAtRequest ==
    careful => \A n \in Slot :
        slot[n].mem = "hashed" /\ slot[n].fixed => slot[n].iova = slot[n].req - pulled[n]

(* The comment of kiumd_mmio_smmu_map: the registers are mapped at the      *)
(* fixed IOVA of the caller.                                                *)
MappedAtFixedIova ==
    careful => \A n \in Slot :
        slot[n].mem = "hashed" /\ slot[n].fixed => slot[n].iova = slot[n].req

(* Whenever no fixed map holds the mutex the cookie is an IOVA cookie with *)
(* its address reset, also when mappings failed or free maps took part.    *)
CookieRestored == mutex = None => cookie = IovaCookie

(* Every entry of kiumd_mmio_smmu_map is mapped, a fixed one as far below    *)
(* the IOVA asked for as other unmappings have moved the cookie's address.    *)
EntryPlaced == EntryMapped /\ FixedAtRequest

(* Every variable keeps its type, what kiumd_mmio_smmu_map maps stays within *)
(* reach of kiumd_mmio_smmu_unmap and kiumd_close, and the cookie is put     *)
(* back.                                                                   *)
MappedInv == TypeOK /\ MappedOwned /\ CookieRestored

=============================================================================
