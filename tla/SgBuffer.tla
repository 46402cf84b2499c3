------------------------------ MODULE SgBuffer ------------------------------
(***************************************************************************)
(* Buffers of the DMA heaps: allocation and release in                     *)
(* drivers/qcom_carveout_heap.c and drivers/qcom_cma_heap.c, and the       *)
(* dma-buf operations of drivers/qcom_sg_ops.c.  A buffer takes pages from *)
(* its heap's pool, is attached to devices, mapped for them, accessed by   *)
(* the CPU, and released when its last reference is gone.  Carveout pages  *)
(* are cleared on release, CMA pages on allocation.  Operations on one     *)
(* buffer are serialised by its lock; those of several buffers interleave. *)
(***************************************************************************)
EXTENDS HeapProbe

CONSTANTS
    Pages,   \* pages of each heap's memory
    Buf,     \* allocations
    Att,     \* attachments
    MaxVmap, \* bound: kernel mappings of one buffer
    Zero,    \* content of a cleared page
    Old,     \* content of a page from before the heap had it
    None

ASSUME BufferAssumption ==
    /\ Pages \in Nat \ {0} /\ MaxVmap \in Nat
    /\ Zero \notin Buf /\ Old \notin Buf /\ None \notin Buf /\ Zero # Old

Page == 1 .. Pages

VARIABLES
    pool,    \* pool[i]: free pages of heap i
    content, \* content[i][p]: Zero, Old, or the allocation whose data page p holds
    buf,     \* buf[b]: progress, heap, pages and mappings of an allocation
    att,     \* att[a]: buffer, device mapping and device writes the CPU cannot see
    tainted  \* pages whose clearing on release failed

bufVars == <<pool, content, buf, att, tainted>>
vars == <<probeVars, bufVars>>

\* user: pages a process has mapped; cpu: between begin and end of a CPU access.
NewBuf == [pc |-> "new", heap |-> 0, pages |-> {}, user |-> {}, vmap_cnt |-> 0, cpu |-> FALSE]
NewAtt == [buf |-> None, map |-> "none", pending |-> FALSE]

BufPcs == {"new", "clear", "export", "live", "zero", "free", "gone"}

TypeOK ==
    /\ ProbeTypeOK
    /\ pool \in [Heap -> SUBSET Page]
    /\ content \in [Heap -> [Page -> Buf \cup {Zero, Old}]]
    /\ buf \in [Buf -> [pc : BufPcs, heap : 0 .. Heaps, pages : SUBSET Page,
                        user : SUBSET Page, vmap_cnt : 0 .. MaxVmap, cpu : BOOLEAN]]
    /\ att \in [Att -> [buf : Buf \cup {None}, map : {"none", "op", "priv"}, pending : BOOLEAN]]
    /\ tainted \subseteq Heap \X Page

Init ==
    /\ ProbeInit
    /\ pool = [i \in Heap |-> Page]
    /\ content = [i \in Heap |-> [p \in Page |-> Old]]
    /\ buf = [b \in Buf |-> NewBuf]
    /\ att = [a \in Att |-> NewAtt]
    /\ tainted = {}

-----------------------------------------------------------------------------
(* Helpers *)

Goto(b, pc) == buf' = [buf EXCEPT ![b].pc = pc]
Atts(b) == {a \in Att : att[a].buf = b}
Live(a) == att[a].buf # None

\* What gen_pool_alloc and cma_alloc return: contiguous free pages of a heap.
Runs(i) == {r \in {s .. e : s \in Page, e \in Page} : r # {} /\ r \subseteq pool[i]}

Take(b, i, pc) ==
    \E r \in Runs(i) :
        /\ pool' = [pool EXCEPT ![i] = @ \ r]
        /\ buf' = [buf EXCEPT ![b] = [NewBuf EXCEPT !.pc = pc, !.heap = i, !.pages = r]]

Give(b) == pool' = [pool EXCEPT ![buf[b].heap] = @ \cup buf[b].pages]

Fill(b, pages, value) ==
    content' = [content EXCEPT ![buf[b].heap] =
                   [p \in Page |-> IF p \in pages THEN value ELSE @[p]]]

\* The pages of b are cleared in order; a loop that stops early clears a prefix.
ClearedFirst(b) == {buf[b].pages \cap (1 .. k) : k \in 0 .. Pages} \ {buf[b].pages}

-----------------------------------------------------------------------------
(* Faulty variants of definitions below, each with the property it breaks; *)
(* they are not part of Next.                                              *)

\* PagesInv: a failed export frees the buffer but not its pages.
ExportFailKeep(b) ==
    /\ buf[b].pc = "export"
    /\ Goto(b, "gone")
    /\ UNCHANGED <<probeVars, pool, content, att, tainted>>

\* ContentsOwn: each batch of pages overwrites the list of the batch before it.
ReleaseZeroLast(b) ==
    /\ buf[b].pc = "zero"
    /\ Fill(b, {p \in buf[b].pages : p + 1 \notin buf[b].pages}, Zero)
    /\ Goto(b, "free")
    /\ tainted' = tainted \ ({buf[b].heap} \X buf[b].pages)
    /\ UNCHANGED <<probeVars, pool, att>>

\* CpuCoherent: only one of the devices that have the buffer mapped is synchronised.
SyncOne(b) ==
    {a \in Atts(b) : att[a].map = "op" /\ a = CHOOSE first \in Atts(b) : att[first].map = "op"}

-----------------------------------------------------------------------------
(* carveout_init_heap_memory clears a carveout before its pool is made *)

Create ==
    /\ CreateHeap
    /\ content' = IF node[idx].type = "carveout"
                  THEN [content EXCEPT ![idx] = [p \in Page |-> Zero]]
                  ELSE content
    /\ UNCHANGED <<pool, buf, att, tainted>>

-----------------------------------------------------------------------------
(* carveout_heap_allocate, cma_heap_allocate *)

AllocCarveout(b, i) ==
    /\ buf[b].pc = "new" /\ heap[i] = "created"
    /\ node[i].type = "carveout" /\ node[i].mem # "none"
    /\ Take(b, i, "export")
    /\ UNCHANGED <<probeVars, content, att, tainted>>

\* cma_area of the device is the region that heap_dt_init initialised.
AllocCma(b, i) ==
    /\ buf[b].pc = "new" /\ heap[i] = "created"
    /\ node[i].type = "cma" /\ i \in region
    /\ Take(b, i, "clear")
    /\ UNCHANGED <<probeVars, content, att, tainted>>

\* No pages left, or an earlier allocation of the call fails.
AllocFail(b) ==
    /\ buf[b].pc = "new" /\ \E i \in Heap : heap[i] = "created"
    /\ Goto(b, "gone")
    /\ UNCHANGED <<probeVars, pool, content, att, tainted>>

ClearPages(b) ==
    /\ buf[b].pc = "clear"
    /\ Fill(b, buf[b].pages, Zero)
    /\ Goto(b, "export")
    /\ UNCHANGED <<probeVars, pool, att, tainted>>

\* A fatal signal in the loop: goto free_cma.
ClearStop(b) ==
    /\ buf[b].pc = "clear"
    /\ \E cleared \in ClearedFirst(b) : Fill(b, cleared, Zero)
    /\ Give(b)
    /\ Goto(b, "gone")
    /\ UNCHANGED <<probeVars, att, tainted>>

Export(b) ==
    /\ buf[b].pc = "export"
    /\ Goto(b, "live")
    /\ UNCHANGED <<probeVars, pool, content, att, tainted>>

\* dma_buf_export, or sg_alloc_table of a CMA buffer, fails.
ExportFail(b) ==
    /\ buf[b].pc = "export"
    /\ Give(b)
    /\ Goto(b, "gone")
    /\ UNCHANGED <<probeVars, content, att, tainted>>

\* CMA lends its free pages to the system, which leaves its data in them.
LendPage(i, p) ==
    /\ node[i].type = "cma" /\ p \in pool[i]
    /\ content' = [content EXCEPT ![i][p] = Old]
    /\ UNCHANGED <<probeVars, pool, buf, att, tainted>>

-----------------------------------------------------------------------------
(* carveout_heap_free, cma_heap_free.  Attachments and mappings hold       *)
(* references: the dma-buf is released when the last of them is gone.      *)

Release(b) ==
    /\ buf[b].pc = "live" /\ Atts(b) = {} /\ buf[b].vmap_cnt = 0 /\ buf[b].user = {}
    /\ Goto(b, IF node[buf[b].heap].type = "carveout" THEN "zero" ELSE "free")
    /\ UNCHANGED <<probeVars, pool, content, att, tainted>>

ReleaseZero(b) ==
    /\ buf[b].pc = "zero"
    /\ Fill(b, buf[b].pages, Zero)
    /\ Goto(b, "free")
    /\ tainted' = tainted \ ({buf[b].heap} \X buf[b].pages)
    /\ UNCHANGED <<probeVars, pool, att>>

\* vmap fails for a batch of pages; carveout_heap_free ignores the result.
ReleaseZeroFail(b) ==
    /\ buf[b].pc = "zero"
    /\ \E cleared \in ClearedFirst(b) :
          /\ Fill(b, cleared, Zero)
          /\ tainted' = (tainted \ ({buf[b].heap} \X cleared))
                           \cup ({buf[b].heap} \X (buf[b].pages \ cleared))
    /\ Goto(b, "free")
    /\ UNCHANGED <<probeVars, pool, att>>

ReleasePages(b) ==
    /\ buf[b].pc = "free"
    /\ Give(b)
    /\ Goto(b, "gone")
    /\ UNCHANGED <<probeVars, content, att, tainted>>

-----------------------------------------------------------------------------
(* qcom_sg_ops.c: attachments, each operation under buffer->lock *)

Attach(a, b) ==
    /\ buf[b].pc = "live" /\ att[a].buf = None
    /\ att' = [att EXCEPT ![a] = [NewAtt EXCEPT !.buf = b]]
    /\ UNCHANGED <<probeVars, pool, content, buf, tainted>>

Detach(a) ==
    /\ Live(a) /\ att[a].map = "none"
    /\ att' = [att EXCEPT ![a] = NewAtt]
    /\ UNCHANGED <<probeVars, pool, content, buf, tainted>>

\* A second map of an attachment is -EBUSY and changes nothing.
Map(a) ==
    /\ Live(a) /\ att[a].map = "none"
    /\ att' = [att EXCEPT ![a].map = "op"]
    /\ UNCHANGED <<probeVars, pool, content, buf, tainted>>

\* dma_unmap_sgtable synchronises for the CPU.
Unmap(a) ==
    /\ Live(a) /\ att[a].map = "op"
    /\ att' = [att EXCEPT ![a].map = "none", ![a].pending = FALSE]
    /\ UNCHANGED <<probeVars, pool, content, buf, tainted>>

\* kiumd.c maps the table of a privileged attachment itself, so that a->mapped
\* stays false; its unmap synchronises for the CPU.
MapPriv(a) ==
    /\ Live(a) /\ att[a].map = "none"
    /\ att' = [att EXCEPT ![a].map = "priv"]
    /\ UNCHANGED <<probeVars, pool, content, buf, tainted>>

UnmapPriv(a) ==
    /\ Live(a) /\ att[a].map = "priv"
    /\ att' = [att EXCEPT ![a].map = "none", ![a].pending = FALSE]
    /\ UNCHANGED <<probeVars, pool, content, buf, tainted>>

\* A device writes to the memory mapped for it, outside the CPU's accesses.
DeviceWrite(a) ==
    /\ Live(a) /\ att[a].map # "none" /\ ~buf[att[a].buf].cpu
    /\ att' = [att EXCEPT ![a].pending = TRUE]
    /\ Fill(att[a].buf, buf[att[a].buf].pages, att[a].buf)
    /\ UNCHANGED <<probeVars, pool, buf, tainted>>

-----------------------------------------------------------------------------
(* qcom_sg_ops.c: accesses by the CPU *)

\* The attachments that begin_cpu_access synchronises.
Synced(b) == {a \in Atts(b) : att[a].map = "op"}

BeginCpuAccess(b) ==
    /\ buf[b].pc = "live" /\ ~buf[b].cpu
    /\ buf' = [buf EXCEPT ![b].cpu = TRUE]
    /\ att' = [a \in Att |-> IF a \in Synced(b) THEN [att[a] EXCEPT !.pending = FALSE] ELSE att[a]]
    /\ UNCHANGED <<probeVars, pool, content, tainted>>

EndCpuAccess(b) ==
    /\ buf[b].pc = "live" /\ buf[b].cpu
    /\ buf' = [buf EXCEPT ![b].cpu = FALSE]
    /\ UNCHANGED <<probeVars, pool, content, att, tainted>>

\* vmap: the first user makes the kernel mapping, the last one removes it.
Vmap(b) ==
    /\ buf[b].pc = "live" /\ buf[b].vmap_cnt < MaxVmap
    /\ buf' = [buf EXCEPT ![b].vmap_cnt = @ + 1]
    /\ UNCHANGED <<probeVars, pool, content, att, tainted>>

Vunmap(b) ==
    /\ buf[b].pc = "live" /\ buf[b].vmap_cnt > 0
    /\ buf' = [buf EXCEPT ![b].vmap_cnt = @ - 1]
    /\ UNCHANGED <<probeVars, pool, content, att, tainted>>

\* mmap returns success even when remap_pfn_range has failed: nothing is mapped.
Mmap(b) ==
    /\ buf[b].pc = "live" /\ buf[b].user = {}
    /\ buf' = [buf EXCEPT ![b].user = buf[b].pages]
    /\ UNCHANGED <<probeVars, pool, content, att, tainted>>

Munmap(b) ==
    /\ buf[b].pc = "live" /\ buf[b].user # {}
    /\ buf' = [buf EXCEPT ![b].user = {}]
    /\ UNCHANGED <<probeVars, pool, content, att, tainted>>

CpuWrite(b) ==
    /\ buf[b].pc = "live" /\ (buf[b].user # {} \/ buf[b].vmap_cnt > 0)
    /\ Fill(b, buf[b].pages, b)
    /\ UNCHANGED <<probeVars, pool, buf, att, tainted>>

-----------------------------------------------------------------------------

Alloc(b) ==
    \/ \E i \in Heap : AllocCarveout(b, i) \/ AllocCma(b, i)
    \/ AllocFail(b) \/ ClearPages(b) \/ ClearStop(b) \/ Export(b) \/ ExportFail(b)

Free(b) == Release(b) \/ ReleaseZero(b) \/ ReleaseZeroFail(b) \/ ReleasePages(b)

Cpu(b) ==
    \/ BeginCpuAccess(b) \/ EndCpuAccess(b) \/ Vmap(b) \/ Vunmap(b)
    \/ Mmap(b) \/ Munmap(b) \/ CpuWrite(b)

Device(a) ==
    \/ \E b \in Buf : Attach(a, b)
    \/ Detach(a) \/ Map(a) \/ Unmap(a) \/ MapPriv(a) \/ UnmapPriv(a) \/ DeviceWrite(a)

Next ==
    \/ ProbeNext /\ UNCHANGED bufVars
    \/ Create
    \/ \E b \in Buf : Alloc(b) \/ Free(b) \/ Cpu(b)
    \/ \E a \in Att : Device(a)
    \/ \E i \in Heap, p \in Page : LendPage(i, p)

Spec == Init /\ [][Next]_vars

-----------------------------------------------------------------------------
(* Properties *)

Owns(b, i) == buf[b].heap = i /\ buf[b].pc \notin {"new", "gone"}

(* Every page of a heap is free or belongs to exactly one buffer, whichever *)
(* allocations failed on the way and in whatever order buffers are released, *)
(* and no process has a free page mapped.                                  *)
PagesOwned ==
    \A i \in Heap :
        /\ \A b \in Buf : Owns(b, i) => buf[b].pages \cap pool[i] = {}
        /\ \A b \in Buf : buf[b].heap = i => buf[b].user \cap pool[i] = {}
        /\ \A b, c \in Buf : Owns(b, i) /\ Owns(c, i) /\ b # c => buf[b].pages \cap buf[c].pages = {}
        /\ pool[i] \cup UNION {buf[b].pages : b \in {c \in Buf : Owns(c, i)}} = Page

(* The pages of an exported buffer hold zeroes or its own data: never what *)
(* another buffer or the system left in them.  The exception is a page     *)
(* whose clearing failed when a carveout buffer was released.              *)
ContentsOwn ==
    \A b \in Buf : buf[b].pc \in {"export", "live"} =>
        \A p \in buf[b].pages : <<buf[b].heap, p>> \notin tainted =>
            content[buf[b].heap][p] \in {Zero, b}

(* During a CPU access no write of a device that mapped the buffer through *)
(* its operations is still invisible to the CPU.                           *)
CpuCoherent ==
    \A a \in Att : Live(a) /\ buf[att[a].buf].cpu /\ att[a].pending => att[a].map # "op"

(* Every variable keeps its type, parse_heap_dt accounts for the reserved     *)
(* regions, and allocation and release of the heaps for their pages.        *)
PagesInv == TypeOK /\ RegionsAccounted /\ PagesOwned

=============================================================================
