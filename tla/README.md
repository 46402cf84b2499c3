# Verification of the SafeLinux configuration modules

TLA+ models, TLC runs and TLAPS proofs for the kernel modules under
`safelinux-modules/drivers`. The modules let user-space drivers use hardware
behind an SMMU: KIUMD (`kiumd.c`) maps dma-bufs and registers for them, the DMA
heaps give out memory, and smaller drivers reach the secure world, power domains,
an MHI endpoint network link and cache error registers.

Source files are named relative to `safelinux-modules/drivers` below.
`PROJECT.json` maps every definition of the models to the lines it stands for.

## 1. Inventory

### KIUMD, `kiumd.c`

One misc device. Every open file is a `struct kiumd_ctx` with two hash tables
(mappings of dma-bufs and of registers, each under a spinlock) and an xarray of
dma-buf handles under `kiumd_xa_mutex`. Calls from several threads and several
files run at once; the SMMU domain of a device, its DMA cookie, the KGSL bitmaps,
the page-table globals and the fault list are shared by all of them.

| Part | State | Operations | Hard behaviour | Correct when |
|---|---|---|---|---|
| Handle table | xarray, `handle_refcount`, dma-buf references | FD_TO_HANDLE, HANDLE_TO_FD, CLOSE_HANDLE, open, close | descriptors are not covered by the mutex | one handle per buffer, each conversion owns one reference, nothing is left after close |
| Buffer mapping | hash table `smmu_map_data`, attachments, extra mapping at IOVA 0 | map, unmap, close | entry used after the lock is dropped, eight failing steps | entries are attached and mapped, references add up, close leaves nothing |
| KGSL IOVAs | two bitmaps, next-fit positions, cookie of the domain | `get_map_offset`, `set_map_iova`, `clear_map_iova`, `kiumd_iova_ctrl` | reserve, set the cookie, map: three steps, no common lock | a buffer is mapped where its range was reserved |
| Secure mapping | owner of each segment, owner of the page-table page | secure map, secure unmap | every hypervisor call may fail half way | mapped memory belongs to its machines, released memory to this kernel |
| Register mapping | hash table `mmio_ctx`, cookie under its mutex | MMIO map, unmap, close | the cookie is changed for the time of a map that other files use too | mappings have an owner, a fixed map is where it was asked for unless an unmapping came between, the cookie is restored |
| Page tables | global table, table per process, TTBR0, TTBR1, `pgtbl_ops` | set context, allocate, set and free per process, set global | tables are passed to user space as pointers; no lock | hardware and domains never use a freed table |
| Fault list | list, sysfs directories, `device_obj` | register, deregister, fault handler, sysfs read | interrupt, readers and removals walk an unlocked list | the list is sound, a fault reaches a reader |
| File and probe | reserved regions of the file, misc device | context init, mmap, ioctl dispatch, close | no lock; a failed call leaves its pointer behind | a mapping begins at a region of the device that was asked for, no freed array is used |

### DMA heaps, `qcom_dma_heap.c`, `qcom_dt_parser.c`, `qcom_carveout_heap.c`, `qcom_cma_heap.c`, `qcom_sg_ops.c`

Probe parses the device tree, initialises the reserved region of each heap and
creates the heaps; a failure walks back over the regions it initialised. A heap
allocates pages from its pool, clears them (CMA before, carveout after use), and
exports a dma-buf, whose operations attach, map, synchronise, map for the CPU and
release under a lock per buffer. Correct when no page has two owners, a buffer
never shows what another one wrote, and a CPU access sees the device's writes.
KIUMD maps these buffers, with `DMA_ATTR_PRIVILEGED` around the operations.

### MHI endpoint network device, `mhi_ep_net.c`

The stack queues packets, a work item sends them while the host offers transfer
elements, and a callback of the MHI layer wakes the queue. A batch that is cut short
is forgotten from there on (section 5). Correct when packets stay in order, none is
lost in another way, and a stopped queue is woken.

### Smaller drivers

| File | State | Operations | Hard behaviour | Correct when |
|---|---|---|---|---|
| `profiler.c` | open lock, clock, layout flag, reply buffers, session of the secure world | open, two ioctls (start, get, stop), release | threads share one descriptor and the flag; stop is sent after the lock is given up; a get allocates twice; the clock may refuse | one user at a time with one enable of the clock, his session ends with him, a request keeps its layout |
| `kryo_arm64_edac.c` | driver data, error records, `local_handler_lock` | probe, remove, two interrupts, idle exit, panic notifier | CPUs share a record, a report may panic with the lock held, the notifier outlives the data | an error is reported once and then cleared, a handler that runs has its data |
| `scm_user_intf.c` | references of descriptor arguments | secure call, probe | descriptors are closed meanwhile, translation fails half way | references are given back, the address is of a live buffer |
| `qcom_uscmi.c` | usage count of a power domain | power and performance requests | test of the status, then change of the count; other consumers; puts that fail; requests before probe ends | the count follows the requests |
| `iommu_iova_map.c` | list of regions, built once per device | sorted insertion, inversion | sums of 64 bits wrap, every allocation may fail | the result is the complement of the pool |
| `qcom_dload_mode.c` | register and `dump_mode` | probe, store, show | stores overlap each other and probe | the file shows the register |
| `kiumd_kgsl.c`, `apps_pinctrl.c`, `vfio_iommu_qcom.c` | none | probes and constant replies | | |

`arm-smmu.h`, `vfio.h` and `edac_device.h` are copies of kernel headers;
`modules-signkey`, the spec files, `Kbuild` and `Makefile` are packaging.

### How the parts interact

User space opens a heap and gets a dma-buf descriptor (SgBuffer). It converts it
to a handle (KiumdHandles) and maps it through KIUMD (KiumdBufMap,
KiumdSecureMap). A KGSL map takes its address from the bitmaps by way of the
domain's cookie (KgslIova), the same cookie a register map borrows (MmioMap), and
lands in the page table that `pgtbl_ops` names then (PageTables). A fault of
the SMMU is stored in the fault list and read through sysfs (FaultList). Closing
the KIUMD file undoes the mappings, then the handles.

The reserved memory of a KIUMD file (KiumdFile) and the smaller drivers touch none
of this: their only meeting point is the kernel around them.

Where two of the parts meet, each model keeps the shared object: the reference count
of a dma-buf is in the three models that take references, the cookie in both that
write it. They are separate modules because one call touches one of the parts;
the meeting point is stated by the invariant on the shared object in each.

## 2. Modules

| Module | Models | Run |
|---|---|---|
| `KiumdHandles` | handle table, open, close | `MCKiumdHandles` |
| `HandleStore` | what the handle table promises | property `StorePromise` of `MCKiumdHandles` |
| `KiumdHandlesProofs` | proofs about `KiumdHandles`, and that it implements `HandleStore` | |
| `KiumdBufMap` | map, unmap and close of dma-bufs | `MCKiumdBufMap` |
| `KiumdBufMapProofs` | proofs about `KiumdBufMap` | |
| `KgslIova` | KGSL bitmaps and the cookie | `MCKgslIova`, `MCKgslIovaRace` |
| `KgslIovaProofs` | proofs about `KgslIova` | |
| `KiumdSecureMap` | secure map and unmap | `MCKiumdSecureMap` |
| `KiumdSecureMapProofs` | proofs about `KiumdSecureMap` | |
| `MmioMap` | register mappings | `MCMmioMap`, `MCMmioMapFixed` |
| `MmioMapProofs` | proofs about `MmioMap` | |
| `PageTables` | GPU page tables, TTBR0, TTBR1 | `MCPageTables` |
| `PageTablesProofs` | proofs about `PageTables` | |
| `FaultList` | SMMU fault list and sysfs | `MCKiumdFile` |
| `FaultListProofs` | proofs about `FaultList` | |
| `HeapProbe` | probe of the heaps | through `SgBuffer` |
| `SgBuffer` | heap allocation and dma-buf operations; extends `HeapProbe` | `MCDrivers` |
| `MhiEpNet` | transmit side of the network device | `MCEvents`, `MCEventsWake` |
| `NetLink` | what the network device promises | property `LinkPromise` of `MCEvents` |
| `KiumdFile` | reserved memory of a file: context init, mmap, close | `MCKiumdFile` |
| `Profiler` | bandwidth profiler | `MCDrivers` |
| `KryoEdac` | cache error reporting | `MCEvents` |
| `ScmUser` | descriptor arguments of secure calls | `MCDrivers` |
| `Uscmi` | power domain counts | `MCDrivers` |
| `IovaMap` | IOVA region list | `MCDrivers` |
| `Dload` | download mode | `MCDrivers` |
| `DriversProofs` | proofs about the modules of `MCDrivers` and `MCEvents` and about `KiumdFile`, and that `MhiEpNet` implements `NetLink` | |

Each `MC` module extends what it checks and adds what TLC needs: symmetry sets and,
for `SgBuffer` and `KiumdFile`, the device trees. Three of them extend modules that
share no state and run them as a sum: `MCKiumdFile` the fault files and the memory
regions of KIUMD, `MCEvents` the two drivers with a liveness property, `MCDrivers` six
others. A variable chosen in the initial state, `driver` or `part`, names the one this
behaviour follows, and the rest keep their initial values: the states are added up and
not multiplied. In every module:

* A thread inside an ioctl is a record in `th` (or, where a call is the natural
  unit, in `call`) with a program counter. A step ends where another thread can
  see or disturb the state: at a lock, at a call into another subsystem, or
  between two accesses of unlocked shared data. A stretch of code under one lock
  is one step unless the lock does not cover what it touches.
* Steps that may fail come in two actions, `X` and `XFail`, with the code's undo
  sequence in the second one or in steps of its own where it can fail again.
* Use of freed memory, and a null or error pointer that is followed, sets a flag
  (`uaf`, `bad`, `misuse`, `faulted`), after which nothing is claimed; the
  properties say when the flag may be set.
* Definitions marked as faulty variants, or that say which property they break, are
  plausible mistakes, one for each property, named for what they do wrong. They are not part of `Next`. Putting
  one in the place of the definition it varies makes TLC report the property, so
  that each property is known to depend on the code it is about.

### KiumdHandles

`fdTable` is the descriptor table of the process, `refcount` the count of each
dma-buf's file, `xa` and `hrc` the xarray and `handle_refcount`, `mutex` is
`kiumd_xa_mutex`. FD_TO_HANDLE is `FdToHandleGet` (lock, `dma_buf_get`) and then
`FdToHandleShare`, `FdToHandleAlloc` or `FdToHandleFail`; HANDLE_TO_FD is
`HandleToFdInstall` (`dma_buf_fd`) and `HandleToFdGet` (`get_dma_buf`), with the
window between them in which the descriptor is open and owns nothing yet;
CLOSE_HANDLE is one step under the mutex. `kiumd_close` puts one reference at a
time. A process may close a descriptor inside that window, by guessing its number;
`early` records that one did. `NoUseAfterRelease` is promised until then. Afterwards
a buffer can be lost, and `LostOnlyInWindow` says that this is the only way. `ErrPtr`
is the error pointer that `dma_buf_get` returns and the code stores (see section 5).

### HandleStore

The promise of the handle table without handles, descriptors, counts or threads: a
context holds numbered conversions of buffers (`conv`), takes one from a live buffer
only, gives them back one by one, and is closed only when it holds none; a buffer
that some context holds is not released. `StorePromise` is this specification under
the mapping at the end of `KiumdHandles`: the conversions of a handle are
`1 .. handle_refcount`, `life` comes from `exported` and `released`, and `excused`
is `early`.

### KiumdBufMap

A slot is one map call: its attachment, its hash entry, its id. `mode` tells the
branches of the code apart: plain, privileged (the table is mapped by the driver
itself), zero (mapped a second time at IOVA 0), KGSL, and direct for a device
without a domain. Map is `MapGet`, `MapAttach`, `MapTable`, `MapZero`, `MapAdd`,
`MapCopy` with a failure of each; unmap is `UnmapFind` (under the spinlock) and
then `UnmapTable`, `UnmapZero`, `UnmapDetach`, `UnmapDel`, without it; close
visits the entries. `careful`, chosen in `Init`, says that the process unmaps an
id once, after map returned it and in the mode it was mapped. `CopyFault` lets
the final `copy_to_user` fail, which unmaps the buffer and drops it but leaves
the entry hashed; `MisuseExplained` is about everything else. `EntryLive` says that an
entry of a careful process is attached and mapped, and that its mapping at IOVA 0 is
gone before the buffer is detached. References (`MapInv`) and what close leaves
(`LeftByClose`) hold without `careful`.

### KgslIova

A call takes its pages from a bitmap (`MapFind`, `MapReserve`), writes the cookie
(`MapCookie`), is mapped where the cookie says (`MapAlloc`, `MapTable`) and moves
the cookie on by its size. `MapOffset` is the next-fit search with one
wrap-around, and `OffsetComplete`, a part of `BitmapInv`, compares it with the set of
all free runs.
`kiumd_iova_ctrl` is `IovaSet` and `IovaClear`. With `Serial`, calls on the device
do not overlap; with `Mixed` the device is also used without a KGSL table.

### KiumdSecureMap

`owner` is what the hypervisor believes of every segment, `pgd` of the page-table
page. Map lends the page, hands over the segments one at a time, maps and hashes;
each failure has its undo path, segment by segment, that may fail as well. Unmap
is the reverse. With `ScmFault` the secure monitor may refuse any transfer. Closing
the file with an entry left follows a field that secure map does not set: `CloseFault`.

### MmioMap

A map with a fixed IOVA locks the cookie's mutex, makes the cookie an MSI cookie
with that address, allocates and maps, and puts the cookie back; a free map goes
through the same allocation without the mutex. `UnmapResource` is `dma_unmap_resource`
wherever it is called: it takes no mutex either, and `FreeIova` gives the address back
by the type the cookie has at that moment, to the allocator or by moving the address
of an MSI cookie back. `pulled[n]` counts how often that happened between the two
steps with which the fixed map `n` sets the cookie and takes its address. Close takes
the file out of `open` and then unmaps entry by entry (`CloseEntry`). `careful` is
chosen in `Init`: with it, each id is unmapped once and fixed and free maps do not
overlap. `EntryPlaced` needs it, with its parts `EntryMapped` and `FixedAtRequest`; the
latter says that a fixed map is `pulled[n]` pages below the IOVA asked for.
`MappedInv`, with the owners of mappings and the cookie put back, holds without it.

### PageTables

Tables are numbers, the first ones the devices' own. `cb` holds the disable bits
and tables of the context bank, `ops` what `pgtbl_ops` points to, `given` the
tables user space has a pointer of. The set-up is `Ttbr1Alloc`, `Ttbr1Check`,
`Ttbr1Enable` or `Ttbr1Refuse`, the same for TTBR0 with the aperture call of the
secure world behind it. `MapBegin` and `MapEnd` are a call that
reads `pgtbl_ops` and uses it later: a secure map in `kiumd_get_pgd`, and below
the calls into the DMA layer every other map. Test and use of `pgtable` in
`kiumd_set_pgtble_ttbr0_context` (695-711) are one step, `Ttbr0Alloc`: the table that
was found is only read for its configuration. `care`, chosen in `Init`, is the discipline of
user space: none, configuring calls one after the other, and also in the order
the functions expect. `HwLive`, a part of `TablesInv`, needs none of it.

### FaultList

Registration n makes directory n and list node n; 0 is NULL and `next[0]` the
head. Registration is directory, file, allocation, then the walk to the tail and
the append; removal is the walk with its `prev`, the unlink, `kobject_put` and
`kfree`. The fault handler walks from the head and stores status, address and
flag in three steps; a reader walks, reads both, clears both and the flag. The
walkers hold no lock, so every visit of a node is a step. With `careful`, one
registration or removal runs at a time and a file has one reader, which reads
when it is notified. `kobject_put` waits for readers of the directory, as kernfs
does. Without `careful` nothing is promised, and the run is there to reach the
steps on freed nodes.

### HeapProbe and SgBuffer

`HeapProbe` is the parse of the device tree, region by region, with the walk back
of a failure, then the creation of the heaps. `SgBuffer` extends it: heaps that
exist allocate buffers. `content` holds for each page what was written last, so
that a missing or misplaced clearing shows up as another buffer's data; `pending`
on an attachment is a device write that the CPU cannot see before the buffer is
synchronised.

### MhiEpNet

Packets are numbered as they are accepted. `xmit` is the point after `tx_lock` is
dropped and before `queue_work`. The work item has a step for each test of the
ring, for the splice of the list under the lock and for each packet. `HostAdd`
provides elements and `doorbell` stands for the callback that follows. When the MHI
layer refuses a packet (`WorkDrop`) or the ring is empty after a send (`WorkBreak`),
the rest of the list on the stack is forgotten, neither freed nor counted; the second
also leaves the buffer of the packet just sent (`unfreed`). `Conserved` does not excuse
these packets but says which they are: all the rest of a batch, behind a refused
packet or behind one in `unfreed`, and none that is sent or dropped. The work that is
owed to a waiting packet, and its progress, are stated over the two lists.

`NetLink` is the promise: a line that takes packets, delivers its head and may lose
some, so that nothing is reordered, repeated or invented. `LinkPromise` maps the line
to the work item's list followed by `tx_buffers`.

### KiumdFile

The two fields of the file, `rmNum` and `rmArea`, are read and written anew at every
access, as the code does, so that two init calls, or an init call and mmap, mix at
any of them. Arrays are numbered and live, freed or unused; `content` says which
device each region came from, if any: `RmNode[d]` are the entries of device `d` whose
phandle names a node, and the others stay zero. `RmCountElems` to `RmInitDone` are
`kiumd_vfio_ctx_init` with its failures; `RmFill` writes `mem_info`, an array of
`RmInfo` entries on the stack, without a bound. `RmMmapCheck`, `RmMmapRefuse` and
`RmMmap` are `kiumd_mmap`, whose first read is at an index without a value, and which
maps as many pages as it is asked for. `RmInv` claims where a mapping begins for calls
that neither overlap nor fail, and the count of arrays when init was called once. It
claims nothing of where a mapping ends, which no code decides but the caller (§5).

### Profiler

`BwOpen` is the trylock and the clock, which may refuse without the code noticing
(`bwUnclocked`); `BwRelease` gives both up in any case, so that the count `bwClk` of the
driver's enables may fall below zero. `BwReleaseStop` sends the stop command later, if its allocation succeeds.
An ioctl writes the layout
flag (`BwIoctl`), and the call reads it again when it copies the request, when it
takes the command and when it builds the reply; `crossed` records that the other
ioctl was issued meanwhile, in which case an uninitialised command may be any.
`shm` tells what the reply structure of a get names: nothing, a buffer of its own, or
one that was freed already. `BwOut` is the common exit that frees it; after
`BwAllocFail`, which `bwStarved` records, it frees a buffer a second time.

### KryoEdac

A record keeps its first error; `edacDone` counts how often that one was reported.
`Begin` starts a handler, with the records it will check in `todo`; each check takes
the lock, looks at the record, reports, clears and unlocks in separate steps.
`PanicsOn` says which reports panic: of an uncorrectable error as `panic_on_ue` is set,
of a correctable one in a build with PANIC_ON_CE. The notifier then runs on the same CPU
with the lock still held, where it waits for ever; a second CPU that panics is
stopped where it is, with the lock (`Panic`). Probe and remove are
`EdacRegister` to `EdacUnwound`. A handler that reaches the driver data when there is
none sets `edacBad`; `EdacInv` lists the ways this can happen. The re-initialisation
of the registers on idle exit is not a step: interrupts are off and its selector is
the CPU's own, and each check selects its record again under the lock.

### ScmUser

`ScmGet`, `ScmMap`, `ScmPut` and `ScmSecureCall` are one call with a descriptor; the
process closes descriptors at any point. `scmKept` counts references a refused
buffer keeps, `scmStale` the buffers whose address reached the secure world after
they were released. The table of calls has one entry with one descriptor.

### Uscmi

`PdInit` is the state after `misc_register`, when requests may come before
`pm_runtime_forbid` has taken probe's count (`PdForbid`). `PdTest` and `PdPut` or `PdGet`
are a power request that finds something to do; a put may be refused after it dropped
the count, and the domain stays on until runtime PM settles (`pdHeld`, `PdSettle`).
`PdNothing` is a request that finds nothing to do, `PdLevel` the count a performance
request takes for a moment. `pdLast` is the last request that had an effect:
`"borrowed"` when the domain was on for somebody else and nothing was taken,
`"refused"` when a put failed.

### IovaMap

`Word` is arithmetic on words up to `IovaMax`. `IovaInsert` is `insert_range` for one
range of the property: `StopsAt` is the place where its walk ends and `Refused` the
overlap that ends the call (`IovaInsertFail`). `IovaInvert`, `InvertBetween`,
`InvertBefore` and `InvertBeyond` are `invert_regions`, one step for each region of the
list; `iovaPrev` is the place of `prev`, and `InvertFail` is the way out when an
allocation fails. The reference is the set of addresses: `IovaMapInv` compares the
result with the complement of the pool, and says which address it misses and when.

### Dload

A store is `DlStore`, `DlWrite` (the register) and `DlAssign` (the copy), the end of
probe is `DlRead` and `DlAssign`. The file and the register agree after a call that
overlapped no other.

## 3. Runs

State counts are distinct states after symmetry reduction, approximately.

| Run | Bounds | Shows | States |
|---|---|---|---|
| `MCKiumdHandles` | 2 files, 2 buffers, 2 descriptors, 2 threads, 2 handles, count 2 | references add up on every path; one handle per buffer; no released buffer is used unless a descriptor is closed early, and then only from the window; close leaves nothing; the abstract store is implemented | 70,000 |
| `MCKiumdBufMap` | 3 map calls, 2 buffers, 2 threads, all modes | entries stay usable, misuse needs a failed copy or half an unmap, close leaves only what it skips | 2.0 million |
| `MCKgslIova` | 2 bitmaps of 3 pages, sizes 1 and 2, 3 calls, serial, mixed | no collision, complete search, maps at the reserved range, exact bitmaps | 0.8 million |
| `MCKgslIovaRace` | 1 bitmap of 4 pages, 2 calls, 2 threads | violated: two overlapping calls swap their addresses | 250 |
| `MCKiumdSecureMap` | 1 buffer of 2 segments, 2 devices, 2 machines, 3 calls, refusals | ownership of segments and page-table pages on all undo paths | 0.5 million |
| `MCMmioMap` | 3 calls, 2 threads, 2 files, 3 IOVAs | mappings are owned, fixed maps are in place but for unmappings that come between, the cookie is restored | 3.9 million |
| `MCMmioMapFixed` | 2 calls, the rest the same | violated: unmapping another id moves a fixed map | 110,000 |
| `MCPageTables` | 2 devices, 2 threads, 5 tables | no freed table is walked or used | 4.2 million |
| `MCKiumdFile` | 2 devices, 2 threads, 3 registrations, 2 faults; 2 threads, 2 arrays, devices of four kinds, maps of 2 pages | sound list, directories accounted for, faults reported; no array is used when freed or beyond its end, a mapping begins at the right region | 1.6 million |
| `MCEvents` | 3 packets, 2 elements; 2 CPUs, 2 errors | a line that keeps the order, exactly which packets are forgotten, owed work, progress; an error is reported once and cleared | 160,000 |
| `MCEventsWake` | the same | violated: the queue stays stopped with elements there | 10,000 |
| `MCDrivers` | 2 heaps of 2 pages, 2 buffers, 2 attachments, 4 device trees; the rest below | pages have one owner, no foreign content, coherent CPU access, probe undo; the properties of the five other drivers | 1.3 million |

`MCEvents` follows two CPUs of one cluster and `MaxErrors = 2` errors in `KryoEdac`,
so that the shared record is raised again after it was cleared. `MCDrivers` follows two
files and two threads in `Profiler`; two threads and a count up to `MaxCount = 3` in
`Uscmi`; two buffers, two threads and up to `MaxKept = 2` lost references in
`ScmUser`; every list of up to `MaxRange = 3` ranges over
addresses up to `IovaMax = 7` in `IovaMap`, ranges that wrap and empty ones
included; two writers beside probe in `Dload`.

Why the bounds are enough. Two threads give every race of two calls, and no
decision in the code depends on a third one. Two buffers, devices or files tell
"mine" from "another one's". Three map calls let one call run while one mapping
of the same buffer is live and one is being removed. Three bitmap pages with
sizes 1 and 2 give fragmentation, wrap-around and a full bitmap. Two segments give a
hand-over that fails before, between and after segments. Three registrations are
the shortest list with a middle node. Three packets and two elements make the
ring run out inside a batch. The devices of `MCKiumdFile` have one region, an entry
that names no node, more regions than `RmInfo = 1`, and none; two arrays are an init
call repeated. Every counter that is unbounded in the code is cut by
a constant listed as a bound in its module: `MaxRef`, `MaxReg`, `MaxFault`,
`MaxMap`, `MaxTable`, `MaxVmap`, `MaxPackets`, `MaxErrors`, `MaxArray`, `MaxPages`, and
those of `MCDrivers`; a guard stops the action that
would pass it. Without `careful` the bounds are smaller: one less in `FaultList`,
`MaxWild` map calls in `KiumdBufMap`.

The type invariant of a module is checked together with its accounting properties,
as named conjuncts of one invariant: `HandleInv`, `MapInv`, `SecureInv`, `BitmapInv`,
`MappedInv`, `TablesInv`, `ListInv`, `PagesInv`, `QueueInv`, `RmInv`, `EdacInv` and the `...Inv` of
each module of `MCDrivers`. `HeapReturned`, `KgslPlaced` and `EntryPlaced` are likewise
conjunctions of parts with a name and a comment of their own.

Deadlock is not checked: calls are finite in number (each slot, registration or
packet is used once), so every model ends in states where no call is left, and a
call that faults in the kernel stops for good by design. What must go on is stated
as `Progress` and `EdacErrorCleared`.

Symmetry is used over threads, buffers and other values that no action compares
but for equality; numbered things (handles, registrations, tables) are left out of
it. The runs with a liveness property use none.

### Fairness

Two modules have fairness. `MhiEpNet` has weak fairness of `XmitQueue`, since a call in the
network stack that has dropped its lock goes on to `queue_work`, and of `Work`,
since the kernel's workqueue runs an item that is queued and the item does not
block. Nothing is assumed of the host: it may never provide elements, which is why
`Progress` lets a packet wait while the queue is stopped. `KryoEdac` has weak fairness
of the L3 interrupt, which stays pending until it is taken, and of the steps of each
CPU's handler: they run with interrupts off and go on whenever the lock is free.
Nothing is assumed of probe and remove, of further errors, or of a handler that
starts.

### What is outside the source

The following is modelled from how the code uses it.

* dma-buf: a file with a reference count; attachments and CPU mappings hold
  references, the last put runs the exporter's release.
* `qcom_scm_assign_mem` refuses a transfer when the source list is not the present
  owner, and may refuse any other one.
* The DMA layer takes the address of an allocation from an MSI cookie and advances
  it, and from its own allocator for an IOVA cookie; it gives an address back by the
  type the cookie has then. A page table refuses to map over an existing mapping.
* sysfs: a name can exist once in a directory, and removing a directory waits for
  readers of its files.
* An SMMU context has one fault interrupt at a time. The SMMU driver starts each
  device with one half of its address space enabled.
* CMA lends its free pages to the system, which writes to them.
* Workqueue and MHI layer: an item is queued at most once and may be queued while it
  runs; the callback follows new elements.
* Runtime PM and power domains: a count of zero is not decremented, a domain is on
  while a device in it has a count, and other consumers come and go. A suspend may be
  refused, and is tried again. A clock may refuse to be enabled.
* An error record keeps its first error until it is cleared; interrupts of a device are
  released after its remove, and releasing one waits for its handler.
* The secure world may refuse any command and runs one profiling session.
* `kfree`d memory may be anything: its use is a flag.

## 4. Proofs

Eight modules hold the proofs. For each specification they prove that an inductive
invariant holds in every behaviour, for every value of the constants, and then the
properties the runs check as consequences. Every inductive invariant was model-checked
on its module's run before it was proved.

| Module | Theorem | States, for every value of the constants |
|---|---|---|
| `KiumdHandlesProofs` | `HandlesUnique` | the types hold and a buffer has at most one handle in a file |
| | `Accounting` | `refcount` is exactly descriptors, counted conversions and insertions, less the open windows |
| | `NoUseAfterReleaseHolds` | until a descriptor is closed early no released buffer is used or named by a handle |
| | `LostOnlyInWindowHolds` | whatever is closed, a handle's buffer is released only inside the window |
| | `NothingLeftHolds` | when files and descriptors are closed every buffer has been released |
| | `StoreImplemented` | the handle table implements `HandleStore` |
| `KiumdBufMapProofs` | `MapInvHolds` | a buffer has exactly the references of its attachments, of the calls about to attach it, and of the descriptor |
| | `MisuseExplainedHolds` | a careful process meets freed memory only after a failed `copy_to_user` or half an unmap |
| | `EntryLiveHolds` | an entry that can be found has its attachment, its table and a reference |
| | `LeftByCloseHolds` | what close leaves is what it passes over, what failed calls kept, what was half undone |
| `KiumdSecureMapProofs` | `SecureWhileMappedHolds` | the machines of a mapping in use own every segment alone and can read the page table |
| | `HeapReturnedHolds` | a released buffer and an unused page table are this kernel's, unless a transfer was given up |
| | `SecureInvHolds` | references add up, no entry outlives its attachment |
| `KgslIovaProofs` | `KgslPlacedHolds` | one call at a time: buffers are mapped at the ranges reserved for them, and apart |
| | `BitmapInvHolds` | the bitmaps are exact; the search finds a free range whenever there is one |
| `MmioMapProofs` | `MappedInvHolds` | what is mapped can be unmapped, and the cookie is put back |
| | `EntryPlacedHolds` | an entry is mapped, a fixed one where it was asked for less one page for each unmapping in between |
| `PageTablesProofs` | `TablesInvHolds` | the hardware never walks a freed table; no table is lost but by two ignored errors |
| | `OpsLiveHolds` | in the expected order, maps go through live tables |
| `FaultListProofs` | `ListInvHolds` | one registration or removal at a time: head reaches exactly the registered devices, each once; every directory has an owner |
| | `OwnNodeSafeHolds` | a reader never uses a node that was freed |
| | `FaultReportedHolds` | a stored fault is in its own device's node until a reader has both values or the device is removed |
| `DriversProofs` | `QueueInvHolds` | only the rest of a batch that was cut short is forgotten, and waiting packets are owed a work item |
| | `MisuseHolds` | only a transmit inside remove uses the destroyed workqueue |
| | `Implements` | the transmit side implements `NetLink` |
| | `PagesInvHolds` | heap probe accounts for its regions; a page is free or one buffer's, and free pages are not mapped |
| | `ContentsOwnHolds`, `CpuCoherentHolds` | no foreign data in an exported buffer; no stale data in a CPU access |
| | `BwInvHolds`, `BwSessionStopsHolds`, `BwOwnLayoutHolds` | the three properties of `Profiler` |
| | `EdacInvHolds`, `EdacOnceHolds` | the two safety properties of `KryoEdac` |
| | `IovaMapInvHolds` | what the IOMMU driver gets is the complement of the pool, the top address aside; the lists are sorted and apart |
| | `ScmRefsHolds`, `PdInvHolds`, `RmInvHolds`, `DloadInvHolds` | the properties of `ScmUser`, `Uscmi`, `KiumdFile`, `Dload` |

The assumptions are those the modules declare, which TLC evaluates on every run:
bounds are natural numbers, the special values are not members of the sets, and sets
whose members are counted (files, descriptors, threads, calls, slots) are
finite. One is worth naming: `DlAssumption` says that the caller `"probe"` of `Dload`
is not one of the writers.
Buffers, pages' contents and devices may be infinite sets where nothing counts them.

No property is inductive by itself. What had to be added, and why:

**KiumdHandles.** `RefAccounting` counts the conversions of a handle, so an entry and
its count must appear and vanish together (`EntryInv`); whether a window's handle can
vanish depends on who holds the mutex (`MutexInv`, `WindowInv`); that the increment
stays inside the type needs the bound to hold from the lock to the insertion
(`BoundInv`). Freedom from misuse follows from the accounting only for buffers that
exist (`UnexportedInv`) and while release and count agree (`ReleasedInv`), and until
an early close the window's descriptor must still be there to hold the missing
reference (`FdInv`, `SafeInv`). The key lemma is `Alive`: a buffer that a handle or
a descriptor owns has a positive count, because there are at most as many windows as
descriptors opened by them. `StoreImplemented` maps each action to a step of the
store or a stutter, with `ConvSame`, `ConvOther`, `ConvDrop` and `ConvGrow` saying what
a change of one slot does to the set of conversions; a step that sets `early` is
excused.

**KiumdBufMap.** `PhaseInv` says, for each program counter, what the slot has so far, that
nobody else works on a slot before its entry is hashed, and what a half undone slot
looks like. The accounting (`RefAccounting`, with `DropHolder` and `AddHolder` for
the set of holders) then survives misuse of one buffer's entry by another call only as
`FdRefInv`. `FreedInv` ties a freed entry to the one unmap that is about to detach;
`ClosingInv` fixes what close may still find. `CarefulInv` is about a process that
unmaps each id once: calls on one slot are apart (`ApartInv`), an entry agrees with the
step of the call on it (`StepInv`, `EntryInv`), and the pages at IOVA 0 have one owner
(`ZeroInv`).

**KiumdSecureMap.** `Holds(k, i)` is the set of segments a call has from this kernel at
each step of the transfer loops and of the loops that undo them. `SegmentInv` says
that what a call holds belongs to its machines, that no two calls hold one segment,
and that no segment is away without a call that holds it or gave up on it; `PageInv`
says the same of page tables. The refusal of `qcom_scm_assign_mem` when the source is not the
owner is what keeps a second call from taking what the first one holds.

**KgslIova.** `Least` (a set of naturals that is not empty has a least member) gives
`SearchComplete`, so the first-fit search is exact without induction over the
bitmap. `BitsOwned` says that every set bit has one owner. While calls come one at a
time, `SerialInv` carries the reserved range through the cookie to the map: it is
free until it is set, and the cookie holds its address until the DMA layer takes it.

**MmioMap.** `MappedOwned` and `UnplacedFree` say whose a mapped page is in each stage of
map and unmap; `OneMapper` and `Unbegun` keep a slot with its call. `CookieRestored`
and `MsiInMutex` say that an MSI cookie exists only under the mutex. `CarefulInv` is
the part for processes that unmap each id once; in it the address of the cookie, and
the one the mutex holder has taken, is the request less `pulled`, whoever unmaps
meanwhile. `InOpen` says that only files that are still open are called, which keeps
close and the calls of its file apart.

**PageTables.** `OwnTable` and `OwnApart` say that a table a call has just allocated is
nobody else's until the enabling step. `BanksOf` ties a translation base to its enable
bit, `TablesOf` says which tables may be freed or given away. `SerialInv` holds while
calls come one after the other: what was tested before an assignment still holds at
it, and every table is known to somebody. `OrderInv` adds the order the ioctls expect.

**FaultList.** `Listed`, the nodes reached from the head, is defined as the least closed set,
so `CycleInv` can be proved without induction along the list: the successors are a
one-to-one map of the list with 0 onto itself, and every set that has 0 and is closed
contains the list. `NumberInv` says in which order directories and nodes come into
being and that a node outside the list points nowhere, `OneName` is sysfs's refusal of
a second directory of a name, and `CallInv` says where the walk of a registration or
removal stands; `OneCall` keeps it true while other threads only fault and read. For
the faults, `FaultOf` and `ReaderOf` follow the values through the three stores and the
four reads, `OneFault` and `OneReader` keep a node to one of each, and `TokenInv` ties
the name a handler compares to its device even after the directory is gone.

**MhiEpNet.** Packets are numbered as they come, so `LineInv` (the lists hold the numbers
after `Gone`, in order and without a gap) turns statements about lists into statements about
numbers. `LeftInv` accounts for what left the lists; that a batch is cut short behind a
leaked buffer needs `WorkInv`, by which the last packet sent is the one before the
list until the work item is past its test. `LifeInv` ties calls to the life
of the device. `LinkStep` maps each action to a step of `NetLink`; dropping a batch is one
`Lose`, which takes any subset away and keeps the rest in order.

**The other drivers.** `SgInv` adds to the ownership of pages where they are clean
(`PoolClean`, `ContentOf`), which regions probe has initialised at each step
(`RegionInv`), and that only live buffers are attached (`AttOf`). In `Profiler`,
`BwSession` gives every session of the secure world a file, and allows two files between
open and stop only where an overlap was recorded; `BwCallInv` follows a call and its
buffer, and an open that was refused the clock counts as one enable less. In `KryoEdac`,
`EdLife` ties probe, remove and the registrations together,
`EdLock` the lock to the handler of a CPU and `EdErr` puts the lock's holder over a
reported error that is still in its record. `ScmAccount` counts references per buffer.
`RmOneByOne` and `PdOneByOne` hold while calls do not overlap; `DlLag` says that a copy
of the mode that agreed with the register lags only behind a call about to assign it.
In `IovaMap` the order of neighbours is not enough: `Sorted` compares every two regions
of a list, `InsertSorted` derives it from the place where the walk stops, and
`ReservedIn` says after each step of `invert_regions` which addresses the new list
covers so far. That a sum of a well-formed range does not wrap is the lemma `Tidy`.

Only model-checked is liveness, `Progress` and `EdacErrorCleared`, which the prover does
not reach; every safety property of the passing runs has its theorem. The three runs
that end in a violation have none.

## 5. Where the code departs from its comments

Three disagreements have a run that ends in a violation.

* `MCKgslIovaRace`, `AtReserved`. A KGSL map reserves a range, writes its address
  into the domain's cookie (`kiumd.c:1353`) and maps (1416). Nothing is held in
  between, so the second of two maps of a device may overwrite the cookie: each
  buffer lands at the other one's address, while the comment of the cookie
  (111-112) says it sets the IOVA of the buffer. With calls one after the other the
  addresses are right (`KgslPlaced`).
* `MCEventsWake`, `WokenWhenElements`. The work item tests the ring and then
  stops the queue (`mhi_ep_net.c:56-57`). A callback between the two finds the
  queue running and does not wake it. The comment of the callback (235) says that
  it wakes the queue when there are elements; the queue stays stopped until the
  next callback.
* `MCMmioMapFixed`, `MappedAtFixedIova`. A fixed register map puts its IOVA into an MSI
  cookie and takes it from there (`kiumd.c:2901-2910`). Unmapping another id in
  between (3025, and 2946 or 3103) frees by the type the cookie has then, and moves
  the address back: the registers are mapped one page below, or the map fails, and
  the allocator never gets back the IOVA that was unmapped. The comment (2797-2799)
  says the region is mapped at the fixed IOVA. The mutex of the cookie does not help,
  since unmapping does not take it. `FixedAtRequest` says how far the map can be off.

The models show more that has no run of its own. Each is an outcome
of an action, or the reason why a property has a condition.

| Where | What the code does | In the models |
|---|---|---|
| `kiumd.c:1784` | `dma_buf_get` returns error pointers, the code tests for NULL; an error pointer becomes a handle, against "error codes on failure" (1746). If the insertion fails, 1816 puts the error pointer with the mutex held | `ErrPtr` in `KiumdHandles` |
| `kiumd.c:1452` | the size `iommu_map_sg` returns is unsigned, `size < 0` never holds; a map at IOVA 0 that failed returns success, against "errno or 0 in case of successful mapping" (1276) | `MapZero` |
| `kiumd.c:1497` | a failed `copy_to_user` unmaps and detaches, the entry stays hashed | `MapCopyFail`, `Broken` |
| `kiumd.c:3117` | close passes over KGSL entries: "free the locks, hash tables and free the memory for device ctx" (3067-3069) | `Skipped`, `LeftByClose` |
| `kiumd.c:2337` | the undo path walks `sgt`, which holds an error pointer | `faulted` in `KiumdSecureMap` |
| `kiumd.c:3108` | close follows `vfio_dev` of every entry; secure map does not set it | `CloseFault` in `KiumdSecureMap` |
| `kiumd.c:2910` | a free register map takes the fixed address that a fixed one has put in the cookie | `careful` in `MmioMap` |
| `kiumd.c:3025` | while the cookie is an MSI cookie, an unmapping leaves its own IOVA with the allocator for good | `FreeIova` in `MmioMap` |
| `kiumd.c:3016` | a second unmap of an id removes what another file has mapped there since | `careful` in `MmioMap` |
| `kiumd.c:659-664` | TTBR1 already on: the new table is freed and stays in `pgtbl_ops` | `Ttbr1Refuse`, `care` |
| `kiumd.c:713` | the result of `kiumd_smmuv2_set_ttbr0_cfg` is dropped; success is returned without TTBR0, against the comment at 679 | `lost` in `PageTables` |
| `kiumd.c:917` | test of `pgtable` and assignment are apart; a table of a process may become the global one | `GlobalCapture`, `care` |
| `kiumd.c:838` | a per-process table asked for before the global one follows a null pointer | `bad` in `PageTables` |
| `kiumd.c:2750-2772` | a registration that fails leaves its directory; `device_obj` of another one is overwritten | `KobjAccounted` in `ListInv` |
| `kiumd.c:2787` | removal leaves the handler installed, with the name of a freed directory | `handler` in `FaultList` |
| `mhi_ep_net.c:67-72`, 80-83 | a refused packet, or a ring that is empty after a send, ends the loop with packets on the list of the work item: they are neither sent, freed nor counted | `forgotten`, `Conserved` |
| `mhi_ep_net.c:82` | the break passes over `consume_skb` (85): the buffer of the packet just sent is never freed | `unfreed`, `Conserved` |
| `mhi_ep_net.c:276` | remove destroys the workqueue before the device is unregistered; a transmit in between queues on it | `MisuseOnlyInRemove` |
| `qcom_sg_ops.c:179` | CPU access skips attachments that the driver mapped itself | `CpuCoherent` is about the others |
| `kiumd.c:3251` | a failed init call frees the array and keeps the pointer, which mmap and close use; 3235 forgets the array of an earlier call | `RmInitFail`, `rmFailed`, `rmAgain` |
| `kiumd.c:3258` | `mem_info`, on the stack, is written for as many regions as the device tree lists | `"stack"` in `RmFill`, `RmInv` |
| `kiumd.c:3244` | an entry that names no node is skipped and counted; it stays zero, and mmap maps it | `RmNode`, `RmStored` |
| `kiumd.c:3230`, 3385 | the negative count of a device without regions is stored, compared as an unsigned number it admits every offset | `Admitted` |
| `kiumd.c:3388` | the base is read at an index that has no value yet (assigned at 3393) | `RmMmapRefuse` |
| `kiumd.c:3403` | the length of a mapping (3391) is compared with nothing, so that it may go on behind its region, against "map a reserved DDR region" (3351-3353) | `pages` in `RmMmap` |
| `profiler.c:229` | the second allocation of a get fails: 250 frees the buffer that 186 has freed | `BwOut`, `bwFault` |
| `profiler.c:361` | the result of `clk_prepare_enable` is dropped; 417 disables a clock that was not enabled | `bwUnclocked`, `BwInv` |
| `profiler.c:381` | all users write one layout flag, which a call reads three times; the command may come from a structure nobody filled | `crossed`, `BwOwnLayout` |
| `profiler.c:418` | the lock is given up before the stop command (425), which then stops the next user's session; 423 returns without it | `bwCut`, `bwMissed` |
| `profiler.c:486` | the device can be opened before 492 stores `pdev`, which a get follows | `BwRegisters` |
| `kryo_arm64_edac.c:554` | the panic notifier is registered before `panic_handler_drvdata` is set and never unregistered | `EdacPanicElsewhere`, `EdacInv` |
| `kryo_arm64_edac.c:630` | interrupts the device tree does not list count as failures, so that probe gives up with the per-CPU interrupt requested and its data freed | `EdacGiveUp`, `EdacInv` |
| `kryo_arm64_edac.c:427` | an uncorrectable error panics in the report, and the notifier waits for the lock its own CPU holds | `EdacReport`, `EdacOnce` |
| `kryo_arm64_edac.c:121` | with PANIC_ON_CE a correctable error does the same, without the switch the notifier turns off; a second CPU that panics is stopped with the lock, for which the first one waits | `PanicsOn`, `EdacOnce` |
| `kryo_arm64_edac.c:423` | a bus error is not cleared | `EdacBus` |
| `kryo_arm64_edac.c:344` | errors of a CPU part that is not listed are cleared without a report | the CPUs of `KryoEdac` are of listed parts |
| `scm_user_intf.c:234` | a buffer that cannot be translated keeps its reference; only the last of several is put (240), before the secure call | `ScmMapScattered`, `scmStale` |
| `scm_user_intf.c:191` | the way out tests for NULL and passes error pointers on | `ScmMapFail` |
| `qcom_uscmi.c:88` | a domain that is on for another consumer is reported as taken and nothing is taken | `"borrowed"` in `PdInv` |
| `qcom_uscmi.c:84` | a put that fails to suspend fails the request, and the count is gone | `"refused"` in `PdInv` |
| `qcom_uscmi.c:272` | requests may come before 284 takes probe's count | `PdForbid` |
| `qcom_uscmi.c:83` | two requests that overlap both find the domain on, and both drop a count | `pdOverlap` in `PdInv` |
| `iommu_iova_map.c:184` | a pool that ends just below the top of the address space leaves the last address out of the reserved regions | `TopLost` |
| `iommu_iova_map.c:212` | when the property is refused, the regions allocated so far are not freed | `IovaMapInv` |
| `qcom_dload_mode.c:191` | probe's read and a store, or two stores, assign the copy in either order | `shared` in `DloadInv` |

## 6. Not modelled, and why

| Part | Why | Seen while reading |
|---|---|---|
| `kiumd_probe` | registers one character device, once, before anything else can run | its failures do not return what they took: `miscdev` is not freed when `misc_register` fails, and neither deregistered nor freed when `kobject_create_and_add` does (`kiumd.c:3446-3455`) |
| `KIUMD_CUSTOM_IOVA_INIT` (`kiumd_dmabuf_custom_iova_init`, `kiumd.c:1066-1126`) | reserves ranges in the IOVA allocator of the DMA layer, which is outside the source; no state of KIUMD changes | called twice it reserves the ranges again, and the list of regions it builds is never freed |
| Contents of a reserved region | data; each entry is its device and index | `of_address_to_resource(mem_np, i)` uses the index of the entry on the region's own node (`kiumd.c:3247`) |
| SET_OFFSETS and DEVICE_INIT of `profiler.c`, the register mappings of a get | data nothing else looks at; nothing is undone | each get maps the registers once more and keeps the mappings (190, 203, 213) |
| Reset requests of `qcom_uscmi.c` | one call of the reset framework, no state | |
| Table of calls, parameters and results of `scm_user_intf.c`, its remove | data; a call is one step after the translation | too many arguments set an error and the call is made (316), a command without a branch returns results nobody set (437) |
| The `ioctl` of `iommu_iova_map.c` | does nothing | |
| Receive path of `mhi_ep_net.c` | copies one packet, keeps nothing | |
| `kiumd_kgsl.c`, `apps_pinctrl.c`, `vfio_iommu_qcom.c` | no state | |
| Cache maintenance, register layouts, names, parameters of the secure calls | data no property tells apart | |
| Headers, signing, packaging | declarations and build files | |

Ioctl arguments that are refused by the first tests of a call change nothing and
are not actions. Allocation failures are, wherever something has to be undone.

## 7. Plan

1. A composition of `KiumdBufMap` with secure entries, for the close of both, and
   of `KgslIova` with `MmioMap` on the one cookie they share.
2. More abstract specifications with the modules here shown to implement them: an
   allocator of pages and ranges (for `SgBuffer` and `KgslIova`), an owner of memory
   (for `KiumdSecureMap`).
