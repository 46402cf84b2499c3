---------------------------- MODULE KiumdHandles ----------------------------
(***************************************************************************)
(* The dma-buf handle table of the kiumd driver (kiumd_fd_dmabuf_handler    *)
(* and the second half of kiumd_close in drivers/kiumd.c).  Every open of    *)
(* /dev/kiumd is a context with an xarray of handles; a handle names a       *)
(* dma-buf and counts how often the process converted a descriptor of that   *)
(* buffer.  Each conversion owns one reference of the buffer, which lives in *)
(* the kernel and may be dropped at the same time by a close() of a          *)
(* descriptor.                                                               *)
(*                                                                         *)
(* The table is protected by kiumd_xa_mutex.  The descriptor table and the   *)
(* reference counts are not: a call is split where they can move under it.   *)
(***************************************************************************)
EXTENDS Integers, FiniteSets

CONSTANTS
    Ctx,         \* open files of the device, one struct kiumd_ctx each
    Buf,         \* dma-bufs
    Fd,          \* descriptor numbers of the process
    Thread,      \* threads of the process that issue the ioctl
    HandleLimit, \* indices the xarray may hold (2^32 in the code)
    MaxRef,      \* bound on handle_refcount (INT_MAX in the code)
    NoEntry,     \* an empty xarray slot
    ErrPtr,      \* ERR_PTR(-EBADF), what dma_buf_get returns for a bad fd
    NoBuf,       \* a free descriptor, or no buffer
    NoThread     \* kiumd_xa_mutex is free

ASSUME HandleAssumption ==
    /\ IsFiniteSet(Ctx) /\ IsFiniteSet(Fd) /\ IsFiniteSet(Thread)
    /\ HandleLimit \in Nat \ {0}
    /\ MaxRef \in Nat \ {0}
    /\ NoEntry \notin Buf /\ ErrPtr \notin Buf /\ NoBuf \notin Buf
    /\ NoEntry # ErrPtr /\ NoBuf # ErrPtr
    /\ NoThread \notin Thread /\ NoEntry \notin Ctx

Handle == 0 .. HandleLimit - 1

VARIABLES
    fdTable,   \* fdTable[f]: the buffer descriptor f refers to
    refcount,  \* refcount[b]: file references of the dma-buf
    exported,  \* buffers the heaps have created so far
    released,  \* buffers whose last reference is gone: memory returned
    status,    \* status[c]: "closed", "open", or "closing" in kiumd_close
    xa,        \* xa[c][h]: the dmabuf field of the entry, or NoEntry
    hrc,       \* hrc[c][h]: its handle_refcount
    mutex,     \* mutex[c]: the thread inside kiumd_xa_mutex
    th,        \* th[t]: what thread t does inside the ioctl
    uaf,       \* TRUE once a released buffer has been used
    early      \* history: a descriptor was closed before the ioctl that
               \* installed it had returned it

vars == <<fdTable, refcount, exported, released, status, xa, hrc, mutex, th, uaf, early>>

Idle == [pc |-> "idle", ctx |-> NoEntry, buf |-> NoBuf, fd |-> NoBuf, handle |-> 0]

ThreadStates ==
    {Idle} \cup
    [pc : {"insert"}, ctx : Ctx, buf : Buf \cup {ErrPtr}, fd : {NoBuf}, handle : {0}] \cup
    [pc : {"get"}, ctx : Ctx, buf : Buf, fd : Fd, handle : Handle]

TypeOK ==
    /\ fdTable \in [Fd -> Buf \cup {NoBuf}]
    /\ refcount \in [Buf -> Int]
    /\ exported \in SUBSET Buf
    /\ released \in SUBSET Buf
    /\ status \in [Ctx -> {"closed", "open", "closing"}]
    /\ xa \in [Ctx -> [Handle -> Buf \cup {NoEntry, ErrPtr}]]
    /\ hrc \in [Ctx -> [Handle -> 0 .. MaxRef]]
    /\ mutex \in [Ctx -> Thread \cup {NoThread}]
    /\ th \in [Thread -> ThreadStates]
    /\ uaf \in BOOLEAN
    /\ early \in BOOLEAN

Init ==
    /\ fdTable = [f \in Fd |-> NoBuf]
    /\ refcount = [b \in Buf |-> 0]
    /\ exported = {}
    /\ released = {}
    /\ status = [c \in Ctx |-> "closed"]
    /\ xa = [c \in Ctx |-> [h \in Handle |-> NoEntry]]
    /\ hrc = [c \in Ctx |-> [h \in Handle |-> 0]]
    /\ mutex = [c \in Ctx |-> NoThread]
    /\ th = [t \in Thread |-> Idle]
    /\ uaf = FALSE
    /\ early = FALSE

-----------------------------------------------------------------------------
(* The reference count of a dma-buf's file.  Dropping the last reference    *)
(* runs the exporter's release.  Touching a released buffer is a use of      *)
(* freed memory; nothing is said about reference counts after it.            *)

DmaBufGet(b) ==
    /\ ~uaf
    /\ refcount' = [refcount EXCEPT ![b] = @ + 1]
    /\ uaf' = (uaf \/ b \in released)
    /\ UNCHANGED released

DmaBufPut(b) ==
    /\ ~uaf
    /\ refcount' = [refcount EXCEPT ![b] = @ - 1]
    /\ released' = IF refcount[b] = 1 THEN released \cup {b} ELSE released
    /\ uaf' = (uaf \/ b \in released)

\* The slots of context c that hold v, first one only (xa_for_each, xa_alloc).
First(c, v) ==
    {h \in Handle : /\ xa[c][h] = v
                    /\ \A g \in Handle : xa[c][g] = v => h <= g}

-----------------------------------------------------------------------------
(* The process and the heaps, outside the driver. *)

\* A heap exports a new buffer and returns its first descriptor.
Export(b, f) ==
    /\ b \notin exported
    /\ fdTable[f] = NoBuf
    /\ fdTable' = [fdTable EXCEPT ![f] = b]
    /\ exported' = exported \cup {b}
    /\ refcount' = [refcount EXCEPT ![b] = 1]
    /\ UNCHANGED <<released, status, xa, hrc, mutex, th, uaf, early>>

\* close(f).  A process that guesses the number of a descriptor may close it
\* before HANDLE_TO_FD has returned it.
CloseFd(f) ==
    /\ fdTable[f] # NoBuf
    /\ early' = (early \/ \E t \in Thread : th[t].pc = "get" /\ th[t].fd = f)
    /\ fdTable' = [fdTable EXCEPT ![f] = NoBuf]
    /\ DmaBufPut(fdTable[f])
    /\ UNCHANGED <<exported, status, xa, hrc, mutex, th>>

-----------------------------------------------------------------------------
(* Faulty variants of actions below: each breaks the property named with it.  *)
(* They are not part of Next.                                                *)

\* HandleInv, LostOnlyInWindow: the last CLOSE_HANDLE leaves the slot in use.
CloseHandleKeepSlot(c, h) ==
    /\ status[c] = "open"
    /\ mutex[c] = NoThread
    /\ xa[c][h] \in Buf
    /\ hrc' = [hrc EXCEPT ![c][h] = @ - 1]
    /\ DmaBufPut(xa[c][h])
    /\ UNCHANGED <<fdTable, exported, status, xa, mutex, th, early>>

\* RefAccounting: a second conversion is not counted.
FdToHandleShareUncounted(t) ==
    /\ th[t].pc = "insert"
    /\ \E h \in Handle : xa[th[t].ctx][h] = th[t].buf
    /\ mutex' = [mutex EXCEPT ![th[t].ctx] = NoThread]
    /\ th' = [th EXCEPT ![t] = Idle]
    /\ UNCHANGED <<fdTable, refcount, exported, released, status, xa, hrc, uaf, early>>

\* UniqueHandle: an entry is allocated without the search.
FdToHandleAllocAlways(t) ==
    /\ th[t].pc = "insert"
    /\ \E h \in First(th[t].ctx, NoEntry) :
          /\ xa' = [xa EXCEPT ![th[t].ctx][h] = th[t].buf]
          /\ hrc' = [hrc EXCEPT ![th[t].ctx][h] = 1]
    /\ mutex' = [mutex EXCEPT ![th[t].ctx] = NoThread]
    /\ th' = [th EXCEPT ![t] = Idle]
    /\ UNCHANGED <<fdTable, refcount, exported, released, status, uaf, early>>

\* NoUseAfterRelease: get_dma_buf is missing.
HandleToFdGetNone(t) ==
    /\ th[t].pc = "get"
    /\ mutex' = [mutex EXCEPT ![th[t].ctx] = NoThread]
    /\ th' = [th EXCEPT ![t] = Idle]
    /\ UNCHANGED <<fdTable, refcount, exported, released, status, xa, hrc, uaf, early>>

\* NothingLeft: kiumd_close puts every buffer once, not handle_refcount times.
ClosePutOnce(c, h) ==
    /\ status[c] = "closing"
    /\ xa[c][h] \in Buf
    /\ DmaBufPut(xa[c][h])
    /\ hrc' = [hrc EXCEPT ![c][h] = 0]
    /\ xa' = [xa EXCEPT ![c][h] = NoEntry]
    /\ UNCHANGED <<fdTable, exported, status, mutex, th, early>>

\* StorePromise: kiumd_close does not walk the handle table.
CloseDoneUnwalked(c) ==
    /\ status[c] = "closing"
    /\ status' = [status EXCEPT ![c] = "closed"]
    /\ UNCHANGED <<fdTable, refcount, exported, released, xa, hrc, mutex, th, uaf, early>>

-----------------------------------------------------------------------------
(* open and release of the device file *)

KiumdOpen(c) ==
    /\ status[c] = "closed"
    /\ status' = [status EXCEPT ![c] = "open"]
    /\ UNCHANGED <<fdTable, refcount, exported, released, xa, hrc, mutex, th, uaf, early>>

\* The kernel calls release when no call is inside the file any more.
KiumdClose(c) ==
    /\ status[c] = "open"
    /\ \A t \in Thread : th[t].ctx # c
    /\ status' = [status EXCEPT ![c] = "closing"]
    /\ UNCHANGED <<fdTable, refcount, exported, released, xa, hrc, mutex, th, uaf, early>>

\* One dma_buf_put of the loop over handle_refcount; hrc counts down what is
\* left of the local variable count, and the entry is freed with the last put.
ClosePut(c, h) ==
    /\ status[c] = "closing"
    /\ xa[c][h] \in Buf
    /\ \A g \in Handle : g < h => xa[c][g] = NoEntry
    /\ DmaBufPut(xa[c][h])
    /\ hrc' = [hrc EXCEPT ![c][h] = @ - 1]
    /\ xa' = IF hrc[c][h] = 1 THEN [xa EXCEPT ![c][h] = NoEntry] ELSE xa
    /\ UNCHANGED <<fdTable, exported, status, mutex, th, early>>

\* An entry whose dmabuf is an error pointer owns no reference.
CloseSkip(c, h) ==
    /\ status[c] = "closing"
    /\ xa[c][h] = ErrPtr
    /\ \A g \in Handle : g < h => xa[c][g] = NoEntry
    /\ hrc' = [hrc EXCEPT ![c][h] = 0]
    /\ xa' = [xa EXCEPT ![c][h] = NoEntry]
    /\ UNCHANGED <<fdTable, refcount, exported, released, status, mutex, th, uaf, early>>

CloseDone(c) ==
    /\ status[c] = "closing"
    /\ \A h \in Handle : xa[c][h] = NoEntry
    /\ status' = [status EXCEPT ![c] = "closed"]
    /\ UNCHANGED <<fdTable, refcount, exported, released, xa, hrc, mutex, th, uaf, early>>

-----------------------------------------------------------------------------
(* kiumd_fd_dmabuf_handler *)

Enter(t, c, state) ==
    /\ mutex' = [mutex EXCEPT ![c] = t]
    /\ th' = [th EXCEPT ![t] = state]

Leave(t) ==
    /\ mutex' = [mutex EXCEPT ![th[t].ctx] = NoThread]
    /\ th' = [th EXCEPT ![t] = Idle]

CanEnter(t, c) ==
    /\ status[c] = "open"
    /\ th[t].pc = "idle"
    /\ mutex[c] = NoThread

\* FD_TO_HANDLE up to dma_buf_get.  The test of its result is against NULL,
\* so the error pointer of a descriptor that is not open goes on as a buffer.
\* The last conjunct is the bound on handle_refcount.
FdToHandleGet(t, c, f) ==
    /\ CanEnter(t, c)
    /\ \A h \in Handle : hrc[c][h] < MaxRef
    /\ IF fdTable[f] # NoBuf
       THEN /\ DmaBufGet(fdTable[f])
            /\ Enter(t, c, [pc |-> "insert", ctx |-> c, buf |-> fdTable[f],
                            fd |-> NoBuf, handle |-> 0])
       ELSE /\ Enter(t, c, [pc |-> "insert", ctx |-> c, buf |-> ErrPtr,
                            fd |-> NoBuf, handle |-> 0])
            /\ UNCHANGED <<refcount, released, uaf>>
    /\ UNCHANGED <<fdTable, exported, status, xa, hrc, early>>

\* The handle of the buffer exists: one more conversion owns a reference.
FdToHandleShare(t) ==
    /\ th[t].pc = "insert"
    /\ \E h \in First(th[t].ctx, th[t].buf) :
          hrc' = [hrc EXCEPT ![th[t].ctx][h] = @ + 1]
    /\ Leave(t)
    /\ UNCHANGED <<fdTable, refcount, exported, released, status, xa, uaf, early>>

\* No handle yet: a new entry at the lowest free index.
FdToHandleAlloc(t) ==
    /\ th[t].pc = "insert"
    /\ \A h \in Handle : xa[th[t].ctx][h] # th[t].buf
    /\ \E h \in First(th[t].ctx, NoEntry) :
          /\ xa' = [xa EXCEPT ![th[t].ctx][h] = th[t].buf]
          /\ hrc' = [hrc EXCEPT ![th[t].ctx][h] = 1]
    /\ Leave(t)
    /\ UNCHANGED <<fdTable, refcount, exported, released, status, uaf, early>>

\* kzalloc or xa_alloc fails: the reference is given back.  For an error
\* pointer dma_buf_put dereferences it: the faulting thread stays where it is
\* with kiumd_xa_mutex held, which is a thread that takes no further step.
FdToHandleFail(t) ==
    /\ th[t].pc = "insert"
    /\ th[t].buf \in Buf
    /\ \A h \in Handle : xa[th[t].ctx][h] # th[t].buf
    /\ DmaBufPut(th[t].buf)
    /\ Leave(t)
    /\ UNCHANGED <<fdTable, exported, status, xa, hrc, early>>

\* HANDLE_TO_FD: dma_buf_fd installs a descriptor, which takes over a
\* reference that get_dma_buf adds only afterwards.  An entry with an error
\* pointer, or no free descriptor, is -EBADF and changes nothing.
HandleToFdInstall(t, c, h, f) ==
    /\ CanEnter(t, c)
    /\ xa[c][h] \in Buf
    /\ fdTable[f] = NoBuf
    /\ fdTable' = [fdTable EXCEPT ![f] = xa[c][h]]
    /\ Enter(t, c, [pc |-> "get", ctx |-> c, buf |-> xa[c][h], fd |-> f, handle |-> h])
    /\ UNCHANGED <<refcount, exported, released, status, xa, hrc, uaf, early>>

HandleToFdGet(t) ==
    /\ th[t].pc = "get"
    /\ DmaBufGet(th[t].buf)
    /\ Leave(t)
    /\ UNCHANGED <<fdTable, exported, status, xa, hrc, early>>

\* CLOSE_HANDLE gives back one reference; the last one empties the slot.
CloseHandle(c, h) ==
    /\ status[c] = "open"
    /\ mutex[c] = NoThread
    /\ xa[c][h] # NoEntry
    /\ hrc' = [hrc EXCEPT ![c][h] = @ - 1]
    /\ xa' = IF hrc[c][h] = 1 THEN [xa EXCEPT ![c][h] = NoEntry] ELSE xa
    /\ IF xa[c][h] \in Buf
       THEN DmaBufPut(xa[c][h])
       ELSE UNCHANGED <<refcount, released, uaf>>
    /\ UNCHANGED <<fdTable, exported, status, mutex, th, early>>

-----------------------------------------------------------------------------

Next ==
    \/ \E b \in Buf, f \in Fd : Export(b, f)
    \/ \E f \in Fd : CloseFd(f)
    \/ \E c \in Ctx : KiumdOpen(c) \/ KiumdClose(c) \/ CloseDone(c)
    \/ \E c \in Ctx, h \in Handle :
          ClosePut(c, h) \/ CloseSkip(c, h) \/ CloseHandle(c, h)
    \/ \E t \in Thread :
          \/ \E c \in Ctx, f \in Fd : FdToHandleGet(t, c, f)
          \/ FdToHandleShare(t) \/ FdToHandleAlloc(t) \/ FdToHandleFail(t)
          \/ \E c \in Ctx, h \in Handle, f \in Fd : HandleToFdInstall(t, c, h, f)
          \/ HandleToFdGet(t)

Spec == Init /\ [][Next]_vars

-----------------------------------------------------------------------------
(* Who owns references of buffer b *)

FdRefs(b) == {f \in Fd : fdTable[f] = b}

HandleRefs(b) ==
    {r \in (Ctx \X Handle) \X (1 .. MaxRef) :
        xa[r[1][1]][r[1][2]] = b /\ r[2] <= hrc[r[1][1]][r[1][2]]}

InsertRefs(b) == {t \in Thread : th[t].pc = "insert" /\ th[t].buf = b}

\* Calls between dma_buf_fd and get_dma_buf: a descriptor without a reference
\* of its own.
Windows(b) == {t \in Thread : th[t].pc = "get" /\ th[t].buf = b}

(* Every reference of a buffer has exactly one owner: a descriptor, one     *)
(* conversion counted by a handle, or an FD_TO_HANDLE call in flight; only    *)
(* a HANDLE_TO_FD call between dma_buf_fd and get_dma_buf owes one.  No path  *)
(* of kiumd_fd_dmabuf_handler or kiumd_close, failing ones included, leaks or *)
(* drops a reference too many.                                               *)
RefAccounting ==
    \A b \in Buf :
        refcount[b] + Cardinality(Windows(b)) =
            Cardinality(FdRefs(b)) + Cardinality(HandleRefs(b)) + Cardinality(InsertRefs(b))

(* A context never has two handles for one buffer: FD_TO_HANDLE searches and *)
(* allocates in one kiumd_xa_mutex section.                                  *)
UniqueHandle ==
    \A c \in Ctx : \A g, h \in Handle :
        xa[c][g] # NoEntry /\ xa[c][g] = xa[c][h] => g = h

(* No buffer is used after its last reference is gone, and a buffer a handle *)
(* names is never released, as long as the process does not close a           *)
(* descriptor that HANDLE_TO_FD has installed but not yet returned.           *)
NoUseAfterRelease ==
    ~early =>
        /\ ~uaf
        /\ \A c \in Ctx, h \in Handle : xa[c][h] \notin released

(* With any close() allowed, the only way a handle loses its buffer is the   *)
(* HANDLE_TO_FD call between dma_buf_fd and get_dma_buf: outside of it a       *)
(* handle keeps its buffer alive.                                            *)
LostOnlyInWindow ==
    ~uaf => \A c \in Ctx, h \in Handle :
                xa[c][h] \in released => Windows(xa[c][h]) # {}

(* When every context is closed and every descriptor is gone, every buffer   *)
(* has been released: CLOSE_HANDLE and kiumd_close together give back what    *)
(* FD_TO_HANDLE took.                                                        *)
NothingLeft ==
    /\ ~uaf
    /\ \A c \in Ctx : status[c] = "closed"
    /\ \A f \in Fd : fdTable[f] = NoBuf
    => exported = released

(* Every variable keeps its type, handle_refcount included, and a context      *)
(* has one handle for a buffer, whichever conversions and closes run together.    *)
HandleInv == TypeOK /\ UniqueHandle

-----------------------------------------------------------------------------
(* The handles as the process sees them. *)

LifeOf(b) ==
    IF b \notin exported THEN "absent" ELSE IF b \in released THEN "released" ELSE "live"

Conversions(c) ==
    {x \in Buf \X (1 .. MaxRef) :
        \E h \in Handle : xa[c][h] = x[1] /\ x[2] <= hrc[c][h]}

Store == INSTANCE HandleStore
         WITH life <- [b \in Buf |-> LifeOf(b)], file <- status,
              conv <- [c \in Ctx |-> Conversions(c)], excused <- early

(* To a process that closes only descriptors it was given, conversions are       *)
(* taken from live buffers and given back one by one, a buffer it holds in any      *)
(* context is not released, and a closed context holds nothing.                     *)
StorePromise == Store!StoreSpec

=============================================================================
