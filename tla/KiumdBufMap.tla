---------------------------- MODULE KiumdBufMap ----------------------------
(***************************************************************************)
(* Mapping dma-bufs into an SMMU-backed device (kiumd_dmabuf_vfio_map,      *)
(* kiumd_dmabuf_vfio_unmap and the first half of kiumd_close in             *)
(* drivers/kiumd.c, on buffers exported by drivers/qcom_sg_ops.c).          *)
(*                                                                         *)
(* Every call to map makes an attachment of the buffer, maps its sg table,   *)
(* and records both in a struct smmu_map_data that is hashed under the id    *)
(* the call returns.  A slot stands for what one map call makes.  The lock    *)
(* smmu_lock covers the hash table only: map and unmap work on the           *)
(* attachment and the entry outside it, so each is a sequence of steps.       *)
(***************************************************************************)
EXTENDS Integers, FiniteSets

CONSTANTS
    Buf,        \* dma-bufs
    Slot,       \* map calls, each with its attachment and table entry
    Thread,     \* threads of the process that issue the ioctls
    MaxWild,    \* bound: map calls of a process that is not careful
    CopyFault,  \* TRUE: copy_to_user may fail at the end of map
    None

ASSUME MapAssumption ==
    /\ IsFiniteSet(Slot) /\ IsFiniteSet(Thread)
    /\ MaxWild \in Nat /\ CopyFault \in BOOLEAN
    /\ None \notin Buf /\ None \notin Slot

\* plain: dma_buf_map_attachment.  priv: DMA_ATTR_PRIVILEGED, the driver maps
\* the attachment's table itself.  zero: plain, and a second time at IOVA 0.
\* kgsl: plain, for one of the KGSL page tables.  direct: plain, for a device
\* that has no IOMMU group and so no domain.
Mode == {"plain", "priv", "zero", "kgsl", "direct"}

\* Entries kiumd_close passes over.
Skipped == {"kgsl", "direct"}

VARIABLES
    careful,    \* TRUE: the process unmaps an id only after map returned it,
                \* from one thread, with the parameters it was mapped with
    refs,       \* refs[b]: file references of the dma-buf
    userFd,     \* buffers the process has a descriptor of
    buf,        \* buf[s]: the buffer of the slot
    mode,       \* mode[s]: how it was mapped
    att,        \* att[s]: the attachment, "none", "attached" or "freed"
    mapped,     \* mapped[s]: its sg table is mapped in the device's domain
    smap,       \* smap[s]: the table entry, "none", "hashed" or "freed"
    zeroAt,     \* the slot whose pages are mapped at IOVA 0, or None
    returned,   \* slots whose id map has returned
    th,         \* th[t]: program counter, slot and unmap mode of thread t
    ctx,        \* "open", "closing", "closed"
    todo,       \* entries kiumd_close has not visited yet
    copyFailed, \* slots whose map call failed in copy_to_user
    stuck,      \* slots whose unmap, or close, gave up half way
    bad         \* freed memory was used, or a table was unmapped twice

slotVars == <<careful, buf, mode, att, mapped, smap>>
vars == <<refs, userFd, slotVars, zeroAt, returned, th, ctx, todo, copyFailed, stuck, bad>>

Idle == [pc |-> "idle", slot |-> None, mode |-> "plain"]

MapPcs == {"attach", "map", "zero", "add", "copy"}
UnmapPcs == {"unmap", "unzero", "flush", "del", "detach"}

TypeOK ==
    /\ careful \in BOOLEAN
    /\ refs \in [Buf -> Nat]
    /\ userFd \in SUBSET Buf
    /\ buf \in [Slot -> Buf \cup {None}]
    /\ mode \in [Slot -> Mode]
    /\ att \in [Slot -> {"none", "attached", "freed"}]
    /\ mapped \in [Slot -> BOOLEAN]
    /\ smap \in [Slot -> {"none", "hashed", "freed"}]
    /\ zeroAt \in Slot \cup {None}
    /\ returned \in SUBSET Slot
    /\ th \in [Thread -> {Idle} \cup [pc : MapPcs \cup UnmapPcs, slot : Slot, mode : Mode]]
    /\ ctx \in {"open", "closing", "closed"}
    /\ todo \in SUBSET Slot
    /\ copyFailed \in SUBSET Slot
    /\ stuck \in SUBSET Slot
    /\ bad \in BOOLEAN

Init ==
    /\ careful \in BOOLEAN
    /\ refs = [b \in Buf |-> 1]
    /\ userFd = Buf
    /\ buf = [s \in Slot |-> None]
    /\ mode = [s \in Slot |-> "plain"]
    /\ att = [s \in Slot |-> "none"]
    /\ mapped = [s \in Slot |-> FALSE]
    /\ smap = [s \in Slot |-> "none"]
    /\ zeroAt = None
    /\ returned = {}
    /\ th = [t \in Thread |-> Idle]
    /\ ctx = "open"
    /\ todo = {}
    /\ copyFailed = {}
    /\ stuck = {}
    /\ bad = FALSE

-----------------------------------------------------------------------------
(* Steps shared by the operations *)

Goto(t, pc) == th' = [th EXCEPT ![t].pc = pc]
Return(t) == th' = [th EXCEPT ![t] = Idle]

Put(b) == refs' = [refs EXCEPT ![b] = @ - 1]

\* dma_buf_detach and dma_buf_put
DetachAndPut(s) ==
    /\ att' = [att EXCEPT ![s] = "freed"]
    /\ Put(buf[s])

\* Memory has been misused: the driver has no defined behaviour from here.
Misuse ==
    /\ bad' = TRUE
    /\ th' = [t \in Thread |-> Idle]
    /\ ctx' = "closed"
    /\ todo' = {}
    /\ UNCHANGED <<refs, userFd, slotVars, zeroAt, returned, copyFailed, stuck>>

-----------------------------------------------------------------------------
(* Faulty variants of actions below: each breaks the property named with it.  *)
(* They are not part of Next.                                                *)

\* MapInv: fail_put without the put.
MapFailPutNone(t) ==
    /\ th[t].pc = "attach"
    /\ Return(t)
    /\ UNCHANGED <<refs, userFd, slotVars, zeroAt, returned, ctx, todo, copyFailed, stuck, bad>>

\* EntryLive: the early return of a privileged unmap detaches the buffer.
UnmapAbortDetach(t) ==
    /\ th[t].pc = "unmap" /\ th[t].mode = "priv"
    /\ smap[th[t].slot] = "hashed"
    /\ DetachAndPut(th[t].slot)
    /\ Return(t)
    /\ UNCHANGED <<careful, userFd, buf, mode, mapped, smap, zeroAt, returned, ctx, todo,
                   copyFailed, stuck, bad>>

\* MisuseExplained: unmap leaves the entry in the table.
UnmapDelNone(t) ==
    /\ th[t].pc = "del"
    /\ Goto(t, "detach")
    /\ UNCHANGED <<refs, userFd, slotVars, zeroAt, returned, ctx, todo, copyFailed, stuck, bad>>

\* LeftByClose: close frees the entry without dma_buf_detach.
CloseEntryAttached(s) ==
    /\ ctx = "closing" /\ s \in todo
    /\ mode[s] \notin Skipped
    /\ mapped' = [mapped EXCEPT ![s] = FALSE]
    /\ smap' = [smap EXCEPT ![s] = "freed"]
    /\ todo' = todo \ {s}
    /\ UNCHANGED <<careful, refs, userFd, buf, mode, att, zeroAt, returned, th, ctx,
                   copyFailed, stuck, bad>>

-----------------------------------------------------------------------------
(* The process closes its descriptor of a buffer. *)
CloseFd(b) ==
    /\ b \in userFd
    /\ userFd' = userFd \ {b}
    /\ Put(b)
    /\ UNCHANGED <<slotVars, zeroAt, returned, th, ctx, todo, copyFailed, stuck, bad>>

-----------------------------------------------------------------------------
(* kiumd_dmabuf_vfio_map *)

\* dma_buf_get of an open descriptor.
MapGet(t, s, b, m) ==
    /\ ctx = "open" /\ th[t].pc = "idle"
    /\ buf[s] = None /\ b \in userFd
    /\ ~careful => Cardinality({r \in Slot : buf[r] # None}) < MaxWild
    /\ refs' = [refs EXCEPT ![b] = @ + 1]
    /\ buf' = [buf EXCEPT ![s] = b]
    /\ mode' = [mode EXCEPT ![s] = m]
    /\ th' = [th EXCEPT ![t] = [pc |-> "attach", slot |-> s, mode |-> m]]
    /\ UNCHANGED <<careful, userFd, att, mapped, smap, zeroAt, returned, ctx, todo,
                   copyFailed, stuck, bad>>

\* fail_put: no IOVA range, no cookie, or dma_buf_attach fails.
MapFailPut(t) ==
    /\ th[t].pc = "attach"
    /\ Put(buf[th[t].slot])
    /\ Return(t)
    /\ UNCHANGED <<userFd, slotVars, zeroAt, returned, ctx, todo, copyFailed, stuck, bad>>

MapAttach(t) ==
    /\ th[t].pc = "attach"
    /\ att' = [att EXCEPT ![th[t].slot] = "attached"]
    /\ Goto(t, "map")
    /\ UNCHANGED <<careful, refs, userFd, buf, mode, mapped, smap, zeroAt, returned, ctx, todo,
                   copyFailed, stuck, bad>>

\* fail_detach: bad direction, or the table cannot be mapped.
MapFailDetach(t) ==
    /\ th[t].pc = "map"
    /\ DetachAndPut(th[t].slot)
    /\ Return(t)
    /\ UNCHANGED <<careful, userFd, buf, mode, mapped, smap, zeroAt, returned, ctx, todo,
                   copyFailed, stuck, bad>>

MapTable(t) ==
    /\ th[t].pc = "map"
    /\ mapped' = [mapped EXCEPT ![th[t].slot] = TRUE]
    /\ Goto(t, IF th[t].mode = "zero" THEN "zero" ELSE "add")
    /\ UNCHANGED <<careful, refs, userFd, buf, mode, att, smap, zeroAt, returned, ctx, todo,
                   copyFailed, stuck, bad>>

\* iommu_map_sg at IOVA 0.  It fails when something is mapped there already,
\* or for lack of memory; the result is kept in a u64, so "size < 0" never
\* holds and the call goes on.
MapZero(t) ==
    /\ th[t].pc = "zero"
    /\ zeroAt' \in {zeroAt, IF zeroAt = None THEN th[t].slot ELSE zeroAt}
    /\ Goto(t, "add")
    /\ UNCHANGED <<refs, userFd, slotVars, returned, ctx, todo, copyFailed, stuck, bad>>

\* fail_fput: no IOMMU domain, or no memory for the entry.  The attachment and
\* the reference are left behind.
MapLeak(t) ==
    /\ th[t].pc \in {"zero", "add"}
    /\ Return(t)
    /\ UNCHANGED <<refs, userFd, slotVars, zeroAt, returned, ctx, todo, copyFailed, stuck, bad>>

\* hash_add under smmu_lock.
MapAdd(t) ==
    /\ th[t].pc = "add"
    /\ smap' = [smap EXCEPT ![th[t].slot] = "hashed"]
    /\ Goto(t, "copy")
    /\ UNCHANGED <<careful, refs, userFd, buf, mode, att, mapped, zeroAt, returned, ctx, todo,
                   copyFailed, stuck, bad>>

\* The entry and the table are read again after smmu_lock is dropped.
MapCopy(t) ==
    /\ th[t].pc = "copy"
    /\ smap[th[t].slot] = "hashed" /\ att[th[t].slot] = "attached"
    /\ returned' = returned \cup {th[t].slot}
    /\ Return(t)
    /\ UNCHANGED <<refs, userFd, slotVars, zeroAt, ctx, todo, copyFailed, stuck, bad>>

\* copy_to_user fails: the mapping is undone and the entry stays hashed.
MapCopyFail(t) ==
    /\ CopyFault
    /\ th[t].pc = "copy"
    /\ smap[th[t].slot] = "hashed" /\ att[th[t].slot] = "attached"
    /\ mapped[th[t].slot]
    /\ mapped' = [mapped EXCEPT ![th[t].slot] = FALSE]
    /\ DetachAndPut(th[t].slot)
    /\ copyFailed' = copyFailed \cup {th[t].slot}
    /\ Return(t)
    /\ UNCHANGED <<careful, userFd, buf, mode, smap, zeroAt, returned, ctx, todo, stuck, bad>>

MapMisuse(t) ==
    /\ th[t].pc = "copy"
    /\ smap[th[t].slot] # "hashed" \/ att[th[t].slot] # "attached"
    /\ Misuse

-----------------------------------------------------------------------------
(* kiumd_dmabuf_vfio_unmap *)

Busy(s) == \E t \in Thread : th[t].slot = s

\* The entry is found under smmu_lock and used after the lock is dropped.
UnmapFind(t, s, m) ==
    /\ ctx = "open" /\ th[t].pc = "idle"
    /\ smap[s] = "hashed"
    /\ careful => s \in returned /\ ~Busy(s) /\ m = mode[s]
    /\ th' = [th EXCEPT ![t] = [pc |-> "unmap", slot |-> s, mode |-> m]]
    /\ UNCHANGED <<refs, userFd, slotVars, zeroAt, returned, ctx, todo, copyFailed, stuck, bad>>

\* The entry, the attachment and a mapped table are there.
Usable(s) == smap[s] = "hashed" /\ att[s] = "attached" /\ mapped[s]

UnmapTable(t) ==
    /\ th[t].pc = "unmap"
    /\ Usable(th[t].slot)
    /\ mapped' = [mapped EXCEPT ![th[t].slot] = FALSE]
    /\ Goto(t, CASE th[t].mode = "zero" -> "unzero"
                 [] th[t].mode = "kgsl" -> "flush"
                 [] OTHER -> "del")
    /\ UNCHANGED <<careful, refs, userFd, buf, mode, att, smap, zeroAt, returned, ctx, todo,
                   copyFailed, stuck, bad>>

\* A privileged unmap that cannot resolve the device returns before it has
\* changed anything.
UnmapAbort(t) ==
    /\ th[t].pc = "unmap" /\ th[t].mode = "priv"
    /\ smap[th[t].slot] = "hashed"
    /\ Return(t)
    /\ UNCHANGED <<refs, userFd, slotVars, zeroAt, returned, ctx, todo, copyFailed, stuck, bad>>

\* iommu_unmap of the pages at IOVA 0, whichever slot they belong to.
UnmapZero(t) ==
    /\ th[t].pc = "unzero"
    /\ zeroAt # None
    /\ zeroAt' = None
    /\ Goto(t, "del")
    /\ UNCHANGED <<refs, userFd, slotVars, returned, ctx, todo, copyFailed, stuck, bad>>

UnmapFlush(t) ==
    /\ th[t].pc = "flush"
    /\ Goto(t, "del")
    /\ UNCHANGED <<refs, userFd, slotVars, zeroAt, returned, ctx, todo, copyFailed, stuck, bad>>

\* No IOMMU domain, or iommu_unmap finds less than the size of the buffer:
\* the call returns -EINVAL with the table unmapped and the entry hashed.
UnmapStuck(t) ==
    /\ \/ th[t].pc = "unzero"
       \/ th[t].pc = "flush"
    /\ stuck' = stuck \cup {th[t].slot}
    /\ Return(t)
    /\ UNCHANGED <<refs, userFd, slotVars, zeroAt, returned, ctx, todo, copyFailed, bad>>

\* hash_del and kfree under smmu_lock.
UnmapDel(t) ==
    /\ th[t].pc = "del"
    /\ smap[th[t].slot] = "hashed"
    /\ smap' = [smap EXCEPT ![th[t].slot] = "freed"]
    /\ Goto(t, "detach")
    /\ UNCHANGED <<careful, refs, userFd, buf, mode, att, mapped, zeroAt, returned, ctx, todo,
                   copyFailed, stuck, bad>>

UnmapDetach(t) ==
    /\ th[t].pc = "detach"
    /\ att[th[t].slot] = "attached"
    /\ DetachAndPut(th[t].slot)
    /\ Return(t)
    /\ UNCHANGED <<careful, userFd, buf, mode, mapped, smap, zeroAt, returned, ctx, todo,
                   copyFailed, stuck, bad>>

UnmapMisuse(t) ==
    /\ \/ th[t].pc = "unmap" /\ ~Usable(th[t].slot)
       \/ th[t].pc = "del" /\ smap[th[t].slot] # "hashed"
       \/ th[t].pc = "detach" /\ att[th[t].slot] # "attached"
    /\ Misuse

-----------------------------------------------------------------------------
(* kiumd_close: release of the device file, after the last call has left *)

Hashed == {s \in Slot : smap[s] = "hashed"}

CloseStart ==
    /\ ctx = "open"
    /\ \A t \in Thread : th[t].pc = "idle"
    /\ ctx' = "closing"
    /\ todo' = Hashed
    /\ UNCHANGED <<refs, userFd, slotVars, zeroAt, returned, th, copyFailed, stuck, bad>>

\* KGSL entries, and those of a device without a domain, are passed over: not
\* unmapped, not detached, not freed.
CloseSkip(s) ==
    /\ ctx = "closing" /\ s \in todo
    /\ mode[s] \in Skipped
    /\ todo' = todo \ {s}
    /\ UNCHANGED <<refs, userFd, slotVars, zeroAt, returned, th, ctx, copyFailed, stuck, bad>>

CloseEntry(s) ==
    /\ ctx = "closing" /\ s \in todo
    /\ mode[s] \notin Skipped
    /\ Usable(s)
    /\ mode[s] = "zero" => zeroAt # None
    /\ mapped' = [mapped EXCEPT ![s] = FALSE]
    /\ zeroAt' = IF mode[s] = "zero" THEN None ELSE zeroAt
    /\ DetachAndPut(s)
    /\ smap' = [smap EXCEPT ![s] = "freed"]
    /\ todo' = todo \ {s}
    /\ UNCHANGED <<careful, userFd, buf, mode, returned, th, ctx, copyFailed, stuck, bad>>

\* iommu_unmap at IOVA 0 finds nothing: the entry is left as it is.
CloseStuck(s) ==
    /\ ctx = "closing" /\ s \in todo
    /\ mode[s] = "zero" /\ zeroAt = None
    /\ Usable(s)
    /\ mapped' = [mapped EXCEPT ![s] = FALSE]
    /\ stuck' = stuck \cup {s}
    /\ todo' = todo \ {s}
    /\ UNCHANGED <<careful, refs, userFd, buf, mode, att, smap, zeroAt, returned, th,
                   ctx, copyFailed, bad>>

CloseMisuse(s) ==
    /\ ctx = "closing" /\ s \in todo
    /\ mode[s] \notin Skipped /\ ~Usable(s)
    /\ Misuse

CloseDone ==
    /\ ctx = "closing" /\ todo = {}
    /\ ctx' = "closed"
    /\ UNCHANGED <<refs, userFd, slotVars, zeroAt, returned, th, todo, copyFailed, stuck, bad>>

-----------------------------------------------------------------------------

Next ==
    \/ \E b \in Buf : CloseFd(b)
    \/ \E t \in Thread :
          \/ \E s \in Slot, b \in Buf, m \in Mode : MapGet(t, s, b, m)
          \/ MapFailPut(t) \/ MapAttach(t) \/ MapFailDetach(t) \/ MapTable(t)
          \/ MapZero(t) \/ MapLeak(t) \/ MapAdd(t) \/ MapCopy(t) \/ MapCopyFail(t)
          \/ MapMisuse(t)
          \/ \E s \in Slot, m \in Mode : UnmapFind(t, s, m)
          \/ UnmapTable(t) \/ UnmapAbort(t) \/ UnmapZero(t) \/ UnmapFlush(t)
          \/ UnmapStuck(t) \/ UnmapDel(t) \/ UnmapDetach(t) \/ UnmapMisuse(t)
    \/ CloseStart \/ CloseDone
    \/ \E s \in Slot : CloseSkip(s) \/ CloseEntry(s) \/ CloseStuck(s) \/ CloseMisuse(s)

Spec == Init /\ [][Next]_vars

-----------------------------------------------------------------------------

\* Slots whose call returned an error half way, or that were half undone.
Broken == copyFailed \cup stuck

(* A careful process loses memory safety only after a copy_to_user that      *)
(* failed at the end of map or an unmap that gave up half way: no             *)
(* interleaving of map, unmap and close on different ids, and no other error  *)
(* path, uses a freed attachment or entry or unmaps a table twice.            *)
MisuseExplained == careful /\ bad => Broken # {}

(* What the table promises to unmap and close: an entry that nobody is        *)
(* unmapping has its attachment, a mapped table and a reference of the buffer.*)
EntryUsable ==
    careful /\ ~bad =>
        \A s \in Hashed \ Broken :
            \/ Usable(s) /\ refs[buf[s]] >= 1
            \/ \E t \in Thread : th[t].slot = s /\ th[t].pc \in UnmapPcs

\* References of b held by attachments and by map calls about to attach.
Holders(b) ==
    {s \in Slot : buf[s] = b /\ att[s] = "attached"} \cup
    {s \in Slot : buf[s] = b /\ \E t \in Thread : th[t].slot = s /\ th[t].pc = "attach"}

(* A dma-buf has one reference per attachment, per map call that has not      *)
(* attached yet, and for the process's descriptor, on every path of map,      *)
(* unmap and close until memory is misused.                                  *)
RefAccounting ==
    ~bad => \A b \in Buf :
                refs[b] = Cardinality(Holders(b)) + (IF b \in userFd THEN 1 ELSE 0)

(* The pages the device sees at IOVA 0 belong to an attached buffer, unless   *)
(* the map call failed in copy_to_user and left that mapping behind.          *)
ZeroPinned ==
    careful /\ ~bad /\ zeroAt # None /\ zeroAt \notin copyFailed
        => att[zeroAt] = "attached" /\ refs[buf[zeroAt]] >= 1

\* Attachments made by a map call that returned an error without undoing them.
Orphans == {s \in Slot : att[s] = "attached" /\ smap[s] = "none"}

(* After kiumd_close the only attachments that are left belong to entries it   *)
(* passes over, to map calls that failed without undoing their attachment, and *)
(* to entries that were half undone.                                         *)
LeftByClose ==
    ctx = "closed" /\ ~bad =>
        \A s \in Slot : att[s] = "attached" =>
            mode[s] \in Skipped \/ s \in Orphans \/ s \in stuck

(* What is in the hash table, and what the device sees at IOVA 0, is backed by   *)
(* a buffer that kiumd_dmabuf_vfio_unmap and kiumd_close can still take down.    *)
EntryLive == EntryUsable /\ ZeroPinned

(* Every variable keeps its type, and the references of kiumd_dmabuf_vfio_map,  *)
(* kiumd_dmabuf_vfio_unmap and kiumd_close add up.                           *)
MapInv == TypeOK /\ RefAccounting

=============================================================================
