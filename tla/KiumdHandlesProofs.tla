------------------------- MODULE KiumdHandlesProofs -------------------------
(***************************************************************************)
(* Proofs about KiumdHandles, for any number of contexts, buffers, threads  *)
(* and descriptors: the invariant, what follows from it, and that            *)
(* KiumdHandles implements HandleStore.                                     *)
(***************************************************************************)
EXTENDS KiumdHandles, FiniteSetTheorems, TLAPS

-----------------------------------------------------------------------------
(* The inductive invariant *)

\* An entry exists as long as some conversion is counted by it.
EntryInv ==
    \A c \in Ctx, h \in Handle : xa[c][h] = NoEntry <=> hrc[c][h] = 0

\* A thread inside the ioctl holds the mutex of an open context.
MutexInv ==
    \A t \in Thread : th[t].pc # "idle" =>
        mutex[th[t].ctx] = t /\ status[th[t].ctx] = "open"

\* The handle that HANDLE_TO_FD works on cannot go away under it.
WindowInv ==
    \A t \in Thread : th[t].pc = "get" => xa[th[t].ctx][th[t].handle] = th[t].buf

\* The bound on handle_refcount holds while FD_TO_HANDLE is in the mutex.
BoundInv ==
    \A t \in Thread : th[t].pc = "insert" =>
        \A h \in Handle : hrc[th[t].ctx][h] < MaxRef

\* A closed context has an empty table.
ClosedInv ==
    \A c \in Ctx, h \in Handle : status[c] = "closed" => xa[c][h] = NoEntry

TableInv == EntryInv /\ MutexInv /\ BoundInv /\ WindowInv /\ ClosedInv /\ UniqueHandle

\* Nothing refers to a buffer that no heap has created yet.
UnexportedInv ==
    \A b \in Buf \ exported :
        /\ refcount[b] = 0 /\ b \notin released
        /\ \A f \in Fd : fdTable[f] # b
        /\ \A c \in Ctx, h \in Handle : xa[c][h] # b
        /\ \A t \in Thread : th[t].buf # b

\* A created buffer is released exactly when its count is zero.
ReleasedInv ==
    ~uaf => \A b \in Buf : /\ refcount[b] >= 0
                           /\ b \in exported => (b \in released <=> refcount[b] = 0)

\* Without early closes a call between dma_buf_fd and get_dma_buf still has
\* the descriptor it installed, and no other call has it.
FdInv ==
    ~early =>
        \A t \in Thread : th[t].pc = "get" =>
            /\ fdTable[th[t].fd] = th[t].buf
            /\ \A u \in Thread : th[u].pc = "get" /\ th[u].fd = th[t].fd => u = t

SafeInv == ~early => ~uaf

IInv ==
    /\ TypeOK /\ TableInv /\ RefAccounting
    /\ UnexportedInv /\ ReleasedInv /\ FdInv /\ SafeInv

\* An early close stays recorded.
LEMMA EarlyStep ==
  ASSUME [Next]_vars, early
  PROVE  early'
<1>1. ASSUME NEW b \in Buf, NEW f \in Fd, Export(b, f) PROVE early'
  BY <1>1 DEF Export
<1>2. ASSUME NEW f \in Fd, CloseFd(f) PROVE early'
  BY <1>2 DEF CloseFd
<1>3. ASSUME NEW c \in Ctx, KiumdOpen(c) \/ KiumdClose(c) \/ CloseDone(c) PROVE early'
  BY <1>3 DEF KiumdOpen, KiumdClose, CloseDone
<1>4. ASSUME NEW c \in Ctx, NEW h \in Handle,
             ClosePut(c, h) \/ CloseSkip(c, h) \/ CloseHandle(c, h)
      PROVE  early'
  BY <1>4 DEF ClosePut, CloseSkip, CloseHandle
<1>5. ASSUME NEW t \in Thread, NEW c \in Ctx, NEW f \in Fd, FdToHandleGet(t, c, f) PROVE early'
  BY <1>5 DEF FdToHandleGet
<1>6. ASSUME NEW t \in Thread,
             \/ FdToHandleShare(t) \/ FdToHandleAlloc(t)
             \/ FdToHandleFail(t) \/ HandleToFdGet(t)
      PROVE  early'
  BY <1>6 DEF FdToHandleShare, FdToHandleAlloc, FdToHandleFail, HandleToFdGet
<1>7. ASSUME NEW t \in Thread, NEW c \in Ctx, NEW h \in Handle, NEW f \in Fd,
             HandleToFdInstall(t, c, h, f)
      PROVE  early'
  BY <1>7 DEF HandleToFdInstall
<1>8. CASE UNCHANGED vars
  BY <1>8 DEF vars
<1>. QED
  BY <1>1, <1>2, <1>3, <1>4, <1>5, <1>6, <1>7, <1>8, Zenon DEF Next

-----------------------------------------------------------------------------
(* Type correctness *)

\* The initial state has the types of TypeOK.
LEMMA TypeInit == Init => TypeOK
<1> SUFFICES ASSUME Init PROVE TypeOK
  OBVIOUS
<1>1. fdTable \in [Fd -> Buf \cup {NoBuf}]
  BY DEF Init
<1>2. refcount \in [Buf -> Int]
  BY DEF Init
<1>3. status \in [Ctx -> {"closed", "open", "closing"}]
  BY DEF Init
<1>4. xa \in [Ctx -> [Handle -> Buf \cup {NoEntry, ErrPtr}]]
  BY DEF Init
<1>5. hrc \in [Ctx -> [Handle -> 0 .. MaxRef]]
  BY HandleAssumption DEF Init
<1>6. mutex \in [Ctx -> Thread \cup {NoThread}]
  BY DEF Init
<1>7. th \in [Thread -> ThreadStates]
  BY DEF Init, ThreadStates
<1>. QED
  BY <1>1, <1>2, <1>3, <1>4, <1>5, <1>6, <1>7 DEF Init, TypeOK

\* What the reference count operations and the mutex sections preserve.
LEMMA RefTypes ==
  ASSUME TypeOK, NEW b \in Buf, DmaBufGet(b) \/ DmaBufPut(b)
  PROVE  refcount' \in [Buf -> Int] /\ released' \in SUBSET Buf /\ uaf' \in BOOLEAN
<1>1. refcount' \in [Buf -> Int]
  BY DEF TypeOK, DmaBufGet, DmaBufPut
<1>2. released' \in SUBSET Buf
  BY DEF TypeOK, DmaBufGet, DmaBufPut
<1>3. uaf' \in BOOLEAN
  BY DEF TypeOK, DmaBufGet, DmaBufPut
<1>. QED
  BY <1>1, <1>2, <1>3

\* Returning from the ioctl keeps the types of the thread and of the mutex.
LEMMA LeaveTypes ==
  ASSUME TypeOK, NEW t \in Thread, Leave(t)
  PROVE  mutex' \in [Ctx -> Thread \cup {NoThread}] /\ th' \in [Thread -> ThreadStates]
<1>1. Idle \in ThreadStates
  BY DEF ThreadStates
<1>. QED
  BY <1>1 DEF TypeOK, Leave

\* Entering the ioctl keeps the types of the thread and of the mutex.
LEMMA EnterTypes ==
  ASSUME TypeOK, NEW t \in Thread, NEW c \in Ctx, NEW s \in ThreadStates, Enter(t, c, s)
  PROVE  mutex' \in [Ctx -> Thread \cup {NoThread}] /\ th' \in [Thread -> ThreadStates]
  BY DEF TypeOK, Enter

\* The fields of a thread state.
LEMMA ThreadFields ==
  ASSUME TypeOK, NEW t \in Thread
  PROVE  /\ th[t].pc \in {"idle", "insert", "get"}
         /\ th[t].pc = "idle" => th[t] = Idle
         /\ th[t].pc = "insert" => th[t].ctx \in Ctx /\ th[t].buf \in Buf \cup {ErrPtr}
         /\ th[t].pc = "get" => /\ th[t].ctx \in Ctx /\ th[t].buf \in Buf
                                /\ th[t].fd \in Fd /\ th[t].handle \in Handle
<1>1. th[t] \in ThreadStates
  BY DEF TypeOK
<1>2. CASE th[t] = Idle
  BY <1>2 DEF Idle
<1>3. CASE th[t] # Idle
  BY <1>1, <1>3 DEF ThreadStates
<1>. QED
  BY <1>2, <1>3

\* Every step of the module keeps TypeOK.
LEMMA TypeStep ==
  ASSUME TypeOK, EntryInv, BoundInv, [Next]_vars
  PROVE  TypeOK'
<1>1. ASSUME NEW b \in Buf, NEW f \in Fd, Export(b, f) PROVE TypeOK'
  BY <1>1 DEF Export, TypeOK
<1>2. ASSUME NEW f \in Fd, CloseFd(f) PROVE TypeOK'
  <2>1. fdTable[f] \in Buf /\ DmaBufPut(fdTable[f])
    BY <1>2 DEF CloseFd, TypeOK
  <2>. QED
    BY <1>2, <2>1, RefTypes DEF CloseFd, TypeOK
<1>3. ASSUME NEW c \in Ctx, KiumdOpen(c) \/ KiumdClose(c) \/ CloseDone(c) PROVE TypeOK'
  BY <1>3 DEF KiumdOpen, KiumdClose, CloseDone, TypeOK
<1>4. ASSUME NEW c \in Ctx, NEW h \in Handle, xa[c][h] # NoEntry
      PROVE  /\ [hrc EXCEPT ![c][h] = @ - 1] \in [Ctx -> [Handle -> 0 .. MaxRef]]
             /\ [hrc EXCEPT ![c][h] = 0] \in [Ctx -> [Handle -> 0 .. MaxRef]]
             /\ [xa EXCEPT ![c][h] = NoEntry] \in [Ctx -> [Handle -> Buf \cup {NoEntry, ErrPtr}]]
  <2>1. hrc[c][h] \in 0 .. MaxRef /\ hrc[c][h] # 0
    BY <1>4 DEF TypeOK, EntryInv
  <2>2. hrc[c][h] - 1 \in 0 .. MaxRef
    BY <2>1, HandleAssumption
  <2>. QED
    BY <2>1, <2>2, HandleAssumption DEF TypeOK
<1>5. ASSUME NEW c \in Ctx, NEW h \in Handle, ClosePut(c, h) PROVE TypeOK'
  <2>1. xa[c][h] # NoEntry /\ xa[c][h] \in Buf
    BY <1>5, HandleAssumption DEF ClosePut
  <2>2. refcount' \in [Buf -> Int] /\ released' \in SUBSET Buf /\ uaf' \in BOOLEAN
    BY <1>5, <2>1, RefTypes DEF ClosePut
  <2>. QED
    BY <1>4, <1>5, <2>1, <2>2 DEF ClosePut, TypeOK
<1>6. ASSUME NEW c \in Ctx, NEW h \in Handle, CloseSkip(c, h) PROVE TypeOK'
  <2>1. xa[c][h] # NoEntry
    BY <1>6, HandleAssumption DEF CloseSkip
  <2>. QED
    BY <1>4, <1>6, <2>1 DEF CloseSkip, TypeOK
<1>7. ASSUME NEW c \in Ctx, NEW h \in Handle, CloseHandle(c, h) PROVE TypeOK'
  <2>1. xa[c][h] # NoEntry
    BY <1>7 DEF CloseHandle
  <2>2. refcount' \in [Buf -> Int] /\ released' \in SUBSET Buf /\ uaf' \in BOOLEAN
    BY <1>7, RefTypes DEF CloseHandle, TypeOK
  <2>. QED
    BY <1>4, <1>7, <2>1, <2>2 DEF CloseHandle, TypeOK
<1>8. ASSUME NEW t \in Thread, NEW c \in Ctx, NEW f \in Fd, FdToHandleGet(t, c, f) PROVE TypeOK'
  <2>1. 0 \in Handle
    BY HandleAssumption DEF Handle
  <2>2. /\ mutex' \in [Ctx -> Thread \cup {NoThread}]
        /\ th' \in [Thread -> ThreadStates]
    <3>1. fdTable[f] # NoBuf => fdTable[f] \in Buf
      BY DEF TypeOK
    <3>2. ASSUME NEW x \in Buf \cup {ErrPtr}
          PROVE  [pc |-> "insert", ctx |-> c, buf |-> x, fd |-> NoBuf, handle |-> 0]
                    \in ThreadStates
      BY <2>1 DEF ThreadStates
    <3>. QED
      BY <1>8, <3>1, <3>2, EnterTypes DEF FdToHandleGet
  <2>3. refcount' \in [Buf -> Int] /\ released' \in SUBSET Buf /\ uaf' \in BOOLEAN
    BY <1>8, RefTypes DEF FdToHandleGet, TypeOK
  <2>. QED
    BY <1>8, <2>2, <2>3 DEF FdToHandleGet, TypeOK
<1>9. ASSUME NEW t \in Thread, FdToHandleShare(t) PROVE TypeOK'
  <2>1. mutex' \in [Ctx -> Thread \cup {NoThread}] /\ th' \in [Thread -> ThreadStates]
    BY <1>9, LeaveTypes DEF FdToHandleShare
  <2>2. PICK h \in Handle : hrc' = [hrc EXCEPT ![th[t].ctx][h] = @ + 1]
    BY <1>9 DEF FdToHandleShare, First
  <2>3. th[t].ctx \in Ctx /\ hrc[th[t].ctx][h] < MaxRef
    BY <1>9, ThreadFields DEF FdToHandleShare, BoundInv
  <2>4. hrc[th[t].ctx][h] + 1 \in 0 .. MaxRef
    BY <2>3, HandleAssumption DEF TypeOK
  <2>5. hrc' \in [Ctx -> [Handle -> 0 .. MaxRef]]
    BY <2>2, <2>4 DEF TypeOK
  <2>. QED
    BY <1>9, <2>1, <2>5 DEF FdToHandleShare, TypeOK
<1>10. ASSUME NEW t \in Thread, FdToHandleAlloc(t) PROVE TypeOK'
  <2>1. mutex' \in [Ctx -> Thread \cup {NoThread}] /\ th' \in [Thread -> ThreadStates]
    BY <1>10, LeaveTypes DEF FdToHandleAlloc
  <2>2. th[t].ctx \in Ctx /\ th[t].buf \in Buf \cup {ErrPtr}
    BY <1>10, ThreadFields DEF FdToHandleAlloc
  <2>3. 1 \in 0 .. MaxRef
    BY HandleAssumption
  <2>4. PICK h \in Handle : /\ xa' = [xa EXCEPT ![th[t].ctx][h] = th[t].buf]
                            /\ hrc' = [hrc EXCEPT ![th[t].ctx][h] = 1]
    BY <1>10 DEF FdToHandleAlloc, First
  <2>5. /\ hrc' \in [Ctx -> [Handle -> 0 .. MaxRef]]
        /\ xa' \in [Ctx -> [Handle -> Buf \cup {NoEntry, ErrPtr}]]
    BY <2>2, <2>3, <2>4 DEF TypeOK
  <2>. QED
    BY <1>10, <2>1, <2>5 DEF FdToHandleAlloc, TypeOK
<1>11. ASSUME NEW t \in Thread, FdToHandleFail(t) PROVE TypeOK'
  <2>1. mutex' \in [Ctx -> Thread \cup {NoThread}] /\ th' \in [Thread -> ThreadStates]
    BY <1>11, LeaveTypes DEF FdToHandleFail
  <2>2. refcount' \in [Buf -> Int] /\ released' \in SUBSET Buf /\ uaf' \in BOOLEAN
    BY <1>11, RefTypes DEF FdToHandleFail, TypeOK
  <2>. QED
    BY <1>11, <2>1, <2>2 DEF FdToHandleFail, TypeOK
<1>12. ASSUME NEW t \in Thread, NEW c \in Ctx, NEW h \in Handle, NEW f \in Fd,
              HandleToFdInstall(t, c, h, f)
       PROVE  TypeOK'
  <2>1. xa[c][h] \in Buf
    BY <1>12 DEF HandleToFdInstall
  <2>2. [pc |-> "get", ctx |-> c, buf |-> xa[c][h], fd |-> f, handle |-> h] \in ThreadStates
    BY <2>1 DEF ThreadStates
  <2>3. mutex' \in [Ctx -> Thread \cup {NoThread}] /\ th' \in [Thread -> ThreadStates]
    BY <1>12, <2>2, EnterTypes DEF HandleToFdInstall
  <2>. QED
    BY <1>12, <2>1, <2>3 DEF HandleToFdInstall, TypeOK
<1>13. ASSUME NEW t \in Thread, HandleToFdGet(t) PROVE TypeOK'
  <2>1. mutex' \in [Ctx -> Thread \cup {NoThread}] /\ th' \in [Thread -> ThreadStates]
    BY <1>13, LeaveTypes DEF HandleToFdGet
  <2>2. refcount' \in [Buf -> Int] /\ released' \in SUBSET Buf /\ uaf' \in BOOLEAN
    BY <1>13, ThreadFields, RefTypes DEF HandleToFdGet
  <2>. QED
    BY <1>13, <2>1, <2>2 DEF HandleToFdGet, TypeOK
<1>14. CASE UNCHANGED vars
  BY <1>14 DEF vars, TypeOK
<1>. QED
  BY <1>1, <1>2, <1>3, <1>5, <1>6, <1>7, <1>8, <1>9, <1>10, <1>11, <1>12, <1>13, <1>14 DEF Next

-----------------------------------------------------------------------------
(* The handle table *)

\* Entering and leaving the mutex section.
LEMMA EnterMutex ==
  ASSUME TypeOK, MutexInv, NEW t \in Thread, NEW c \in Ctx, NEW s \in ThreadStates,
         CanEnter(t, c), s.ctx = c, Enter(t, c, s), UNCHANGED status
  PROVE  /\ MutexInv'
         /\ \A u \in Thread : u # t => th'[u] = th[u]
         /\ th'[t] = s
         /\ \A u \in Thread : u # t /\ th[u].pc # "idle" => th[u].ctx # c
  BY HandleAssumption, ThreadFields DEF CanEnter, Enter, MutexInv, TypeOK, Idle

\* A thread that returns leaves the mutex and the others as they were.
LEMMA LeaveMutex ==
  ASSUME TypeOK, MutexInv, NEW t \in Thread, th[t].pc # "idle", Leave(t), UNCHANGED status
  PROVE  /\ MutexInv'
         /\ \A u \in Thread : u # t => th'[u] = th[u]
         /\ th'[t] = Idle /\ th'[t].pc = "idle"
         /\ \A u \in Thread : u # t /\ th[u].pc # "idle" => th[u].ctx # th[t].ctx
<1>1. \A u \in Thread : u # t /\ th[u].pc # "idle" => th[u].ctx # th[t].ctx
  BY DEF MutexInv
<1>2. /\ \A u \in Thread : u # t => th'[u] = th[u]
      /\ th'[t] = Idle /\ th'[t].pc = "idle"
  BY DEF Leave, TypeOK, Idle
<1>3. MutexInv'
  BY <1>1, <1>2, ThreadFields DEF Leave, MutexInv, TypeOK
<1>. QED
  BY <1>1, <1>2, <1>3

\* What one entry losing one reference does to the table.
LEMMA DropEntry ==
  ASSUME TypeOK, TableInv, NEW c \in Ctx, NEW h \in Handle, xa[c][h] # NoEntry,
         \A t \in Thread : th[t].pc # "idle" => th[t].ctx # c,
         UNCHANGED <<status, mutex, th>>,
         \/ /\ hrc' = [hrc EXCEPT ![c][h] = @ - 1]
            /\ xa' = IF hrc[c][h] = 1 THEN [xa EXCEPT ![c][h] = NoEntry] ELSE xa
         \/ /\ hrc' = [hrc EXCEPT ![c][h] = 0]
            /\ xa' = [xa EXCEPT ![c][h] = NoEntry]
  PROVE  TableInv'
<1>1. hrc[c][h] \in 1 .. MaxRef
  BY HandleAssumption DEF TableInv, EntryInv, TypeOK
<1>2. \A t \in Thread : th[t].pc # "idle" => th[t].ctx # c /\ th[t].ctx \in Ctx
  BY ThreadFields
<1>3. ASSUME NEW d \in Ctx, NEW g \in Handle
      PROVE
         /\ (d # c \/ g # h) => xa'[d][g] = xa[d][g] /\ hrc'[d][g] = hrc[d][g]
         /\ xa'[d][g] \in {xa[d][g], NoEntry}
         /\ xa'[c][h] = NoEntry <=> hrc'[c][h] = 0
  <2>1. CASE hrc' = [hrc EXCEPT ![c][h] = 0] /\ xa' = [xa EXCEPT ![c][h] = NoEntry]
    BY <2>1 DEF TypeOK
  <2>2. CASE /\ hrc' = [hrc EXCEPT ![c][h] = @ - 1]
             /\ xa' = [xa EXCEPT ![c][h] = NoEntry]
             /\ hrc[c][h] = 1
    BY <2>2 DEF TypeOK
  <2>3. CASE /\ hrc' = [hrc EXCEPT ![c][h] = @ - 1]
             /\ xa' = xa
             /\ hrc[c][h] # 1
    <3>1. hrc'[c][h] # 0
      BY <1>1, <2>3, HandleAssumption DEF TypeOK
    <3>. QED
      BY <2>3, <3>1 DEF TypeOK
  <2>. QED
    BY <2>1, <2>2, <2>3
<1>4. EntryInv'
  BY <1>3 DEF TableInv, EntryInv
<1>5. MutexInv'
  BY DEF TableInv, MutexInv
<1>6. BoundInv'
  BY <1>2, <1>3 DEF TableInv, BoundInv
<1>7. WindowInv'
  BY <1>2, <1>3, ThreadFields DEF TableInv, WindowInv
<1>8. ClosedInv'
  BY <1>3 DEF TableInv, ClosedInv
<1>9. UniqueHandle'
  BY <1>3 DEF TableInv, UniqueHandle
<1>. QED
  BY <1>4, <1>5, <1>6, <1>7, <1>8, <1>9 DEF TableInv

\* No thread works on a context that kiumd_open starts.
LEMMA OpenMutex ==
  ASSUME TypeOK, MutexInv, NEW c \in Ctx, mutex[c] = NoThread
  PROVE  \A t \in Thread : th[t].pc # "idle" => th[t].ctx # c
  BY HandleAssumption DEF MutexInv

\* A context that kiumd_close works on has no call inside it.
LEMMA ClosingMutex ==
  ASSUME TypeOK, MutexInv, NEW c \in Ctx, status[c] = "closing"
  PROVE  \A t \in Thread : th[t].pc # "idle" => th[t].ctx # c
  BY DEF MutexInv

\* TableInv holds initially: no table has an entry.
LEMMA TableInit == Init => TableInv
<1> SUFFICES ASSUME Init PROVE TableInv
  OBVIOUS
<1>1. \A t \in Thread : th[t].pc = "idle"
  BY DEF Init, Idle
<1>. QED
  BY <1>1 DEF Init, TableInv, EntryInv, MutexInv, BoundInv, WindowInv, ClosedInv, UniqueHandle

\* Every step of the module keeps TableInv.
LEMMA TableStep ==
  ASSUME TypeOK, TableInv, [Next]_vars
  PROVE  TableInv'
<1> USE DEF TableInv
<1>1. ASSUME UNCHANGED <<status, xa, hrc, mutex, th>> PROVE TableInv'
  BY <1>1 DEF EntryInv, MutexInv, BoundInv, WindowInv, ClosedInv, UniqueHandle
<1>2. ASSUME NEW b \in Buf, NEW f \in Fd, Export(b, f) PROVE TableInv'
  BY <1>1, <1>2 DEF Export
<1>3. ASSUME NEW f \in Fd, CloseFd(f) PROVE TableInv'
  BY <1>1, <1>3 DEF CloseFd
<1>4. ASSUME NEW c \in Ctx, KiumdOpen(c) \/ KiumdClose(c) \/ CloseDone(c) PROVE TableInv'
  <2>1. UNCHANGED <<xa, hrc, mutex, th>>
    BY <1>4 DEF KiumdOpen, KiumdClose, CloseDone
  <2>2. \A d \in Ctx : d # c => status'[d] = status[d]
    BY <1>4 DEF KiumdOpen, KiumdClose, CloseDone, TypeOK
  <2>3. EntryInv' /\ BoundInv' /\ WindowInv' /\ UniqueHandle'
    BY <2>1 DEF EntryInv, BoundInv, WindowInv, UniqueHandle
  <2>4. \A t \in Thread : th[t].pc # "idle" => th[t].ctx # c
    BY <1>4 DEF KiumdOpen, KiumdClose, CloseDone, MutexInv
  <2>5. MutexInv'
    BY <2>1, <2>2, <2>4, ThreadFields DEF MutexInv
  <2>6. ClosedInv'
    <3>1. status'[c] = "closed" => \A h \in Handle : xa[c][h] = NoEntry
      BY <1>4 DEF KiumdOpen, KiumdClose, CloseDone, TypeOK
    <3>. QED
      BY <2>1, <2>2, <3>1 DEF ClosedInv
  <2>. QED
    BY <2>3, <2>5, <2>6
<1>5. ASSUME NEW c \in Ctx, NEW h \in Handle, ClosePut(c, h) PROVE TableInv'
  <2>1. xa[c][h] # NoEntry
    BY <1>5, HandleAssumption DEF ClosePut
  <2>2. \A t \in Thread : th[t].pc # "idle" => th[t].ctx # c
    BY <1>5, ClosingMutex DEF ClosePut
  <2>. QED
    BY <1>5, <2>1, <2>2, DropEntry DEF ClosePut
<1>6. ASSUME NEW c \in Ctx, NEW h \in Handle, CloseSkip(c, h) PROVE TableInv'
  <2>1. xa[c][h] # NoEntry
    BY <1>6, HandleAssumption DEF CloseSkip
  <2>2. \A t \in Thread : th[t].pc # "idle" => th[t].ctx # c
    BY <1>6, ClosingMutex DEF CloseSkip
  <2>. QED
    BY <1>6, <2>1, <2>2, DropEntry DEF CloseSkip
<1>7. ASSUME NEW c \in Ctx, NEW h \in Handle, CloseHandle(c, h) PROVE TableInv'
  <2>1. \A t \in Thread : th[t].pc # "idle" => th[t].ctx # c
    BY <1>7, OpenMutex DEF CloseHandle
  <2>. QED
    BY <1>7, <2>1, DropEntry DEF CloseHandle
<1>8. ASSUME NEW t \in Thread, NEW c \in Ctx, NEW f \in Fd, FdToHandleGet(t, c, f)
      PROVE  TableInv'
  <2>1. PICK x \in Buf \cup {ErrPtr} :
          Enter(t, c, [pc |-> "insert", ctx |-> c, buf |-> x, fd |-> NoBuf, handle |-> 0])
    BY <1>8 DEF FdToHandleGet, TypeOK
  <2> DEFINE s == [pc |-> "insert", ctx |-> c, buf |-> x, fd |-> NoBuf, handle |-> 0]
  <2>2. s \in ThreadStates /\ s.ctx = c /\ s.pc = "insert"
    BY HandleAssumption DEF ThreadStates, Handle
  <2>3. CanEnter(t, c) /\ UNCHANGED <<status, xa, hrc>> /\ \A h \in Handle : hrc[c][h] < MaxRef
    BY <1>8 DEF FdToHandleGet
  <2>4. /\ MutexInv'
        /\ \A u \in Thread : u # t => th'[u] = th[u]
        /\ th'[t] = s
    <3> HIDE DEF s
    <3>. QED
      BY <2>1, <2>2, <2>3, EnterMutex DEF s
  <2>5. EntryInv' /\ ClosedInv' /\ UniqueHandle'
    BY <2>3 DEF EntryInv, ClosedInv, UniqueHandle
  <2>6. BoundInv'
    BY <2>2, <2>3, <2>4 DEF BoundInv
  <2>7. WindowInv'
    BY <2>2, <2>3, <2>4 DEF WindowInv
  <2>. QED
    BY <2>4, <2>5, <2>6, <2>7
<1>9. ASSUME NEW t \in Thread, NEW c \in Ctx, NEW h \in Handle, NEW f \in Fd,
             HandleToFdInstall(t, c, h, f)
      PROVE  TableInv'
  <2> DEFINE s == [pc |-> "get", ctx |-> c, buf |-> xa[c][h], fd |-> f, handle |-> h]
  <2>1. CanEnter(t, c) /\ UNCHANGED <<status, xa, hrc>> /\ xa[c][h] \in Buf /\ Enter(t, c, s)
    BY <1>9 DEF HandleToFdInstall
  <2>2. /\ s \in ThreadStates /\ s.ctx = c /\ s.pc = "get"
        /\ s.handle = h /\ s.buf = xa[c][h]
    BY <2>1 DEF ThreadStates
  <2>3. /\ MutexInv'
        /\ \A u \in Thread : u # t => th'[u] = th[u]
        /\ th'[t] = s
    <3> HIDE DEF s
    <3>. QED
      BY <2>1, <2>2, EnterMutex
  <2>4. EntryInv' /\ ClosedInv' /\ UniqueHandle'
    BY <2>1 DEF EntryInv, ClosedInv, UniqueHandle
  <2>5. BoundInv'
    BY <2>1, <2>2, <2>3 DEF BoundInv
  <2>6. WindowInv'
    BY <2>1, <2>2, <2>3 DEF WindowInv
  <2>. QED
    BY <2>3, <2>4, <2>5, <2>6
<1>10. ASSUME NEW t \in Thread, th[t].pc # "idle", Leave(t), UNCHANGED <<status, xa, hrc>>
       PROVE  TableInv'
  <2>1. /\ MutexInv'
        /\ \A u \in Thread : u # t => th'[u] = th[u]
        /\ th'[t].pc = "idle"
    BY <1>10, LeaveMutex
  <2>. QED
    BY <1>10, <2>1 DEF EntryInv, BoundInv, WindowInv, ClosedInv, UniqueHandle
<1>11. ASSUME NEW t \in Thread, FdToHandleFail(t) \/ HandleToFdGet(t) PROVE TableInv'
  BY <1>10, <1>11 DEF FdToHandleFail, HandleToFdGet
<1>12. ASSUME NEW t \in Thread, FdToHandleShare(t) \/ FdToHandleAlloc(t) PROVE TableInv'
  <2> DEFINE c == th[t].ctx
  <2>1. c \in Ctx /\ th[t].pc = "insert" /\ th[t].buf \in Buf \cup {ErrPtr}
    BY <1>12, ThreadFields DEF FdToHandleShare, FdToHandleAlloc
  <2>2. /\ MutexInv'
        /\ \A u \in Thread : u # t => th'[u] = th[u]
        /\ th'[t].pc = "idle"
        /\ \A u \in Thread : u # t /\ th[u].pc # "idle" => th[u].ctx # c
    BY <1>12, <2>1, LeaveMutex DEF FdToHandleShare, FdToHandleAlloc
  <2>3. status[c] = "open" /\ status' = status
    BY <1>12, <2>1 DEF FdToHandleShare, FdToHandleAlloc, MutexInv
  <2>4. PICK h \in Handle :
          /\ \A d \in Ctx, g \in Handle :
                (d # c \/ g # h) => xa'[d][g] = xa[d][g] /\ hrc'[d][g] = hrc[d][g]
          /\ xa'[c][h] = th[t].buf /\ hrc'[c][h] # 0
          /\ \A g \in Handle : xa[c][g] = th[t].buf => g = h
    <3>1. CASE FdToHandleShare(t)
      <4>1. PICK h \in First(c, th[t].buf) : hrc' = [hrc EXCEPT ![c][h] = @ + 1]
        BY <3>1 DEF FdToHandleShare
      <4>2. xa' = xa
        BY <3>1 DEF FdToHandleShare
      <4>3. h \in Handle /\ xa[c][h] = th[t].buf
        BY DEF First
      <4>4. \A g \in Handle : xa[c][g] = th[t].buf => g = h
        BY <2>1, <4>3, HandleAssumption DEF UniqueHandle
      <4>5. hrc'[c][h] # 0
        BY <2>1, <4>1, <4>3, HandleAssumption DEF TypeOK
      <4>6. \A d \in Ctx, g \in Handle : (d # c \/ g # h) => hrc'[d][g] = hrc[d][g]
        BY <2>1, <4>1, <4>3 DEF TypeOK
      <4>. QED
        BY <4>2, <4>3, <4>4, <4>5, <4>6
    <3>2. CASE FdToHandleAlloc(t)
      <4>1. PICK h \in Handle : /\ xa' = [xa EXCEPT ![c][h] = th[t].buf]
                                /\ hrc' = [hrc EXCEPT ![c][h] = 1]
        BY <3>2 DEF FdToHandleAlloc, First
      <4>2. /\ xa'[c][h] = th[t].buf /\ hrc'[c][h] = 1
            /\ \A d \in Ctx, g \in Handle :
                 (d # c \/ g # h) => xa'[d][g] = xa[d][g] /\ hrc'[d][g] = hrc[d][g]
        BY <2>1, <4>1 DEF TypeOK
      <4>3. \A g \in Handle : xa[c][g] # th[t].buf
        BY <3>2 DEF FdToHandleAlloc
      <4>. QED
        BY <4>2, <4>3
    <3>. QED
      BY <1>12, <3>1, <3>2
  <2>5. EntryInv'
    BY <2>1, <2>4, HandleAssumption DEF EntryInv
  <2>6. BoundInv'
    BY <2>2, <2>4, ThreadFields DEF BoundInv
  <2>7. WindowInv'
    BY <2>2, <2>4, ThreadFields DEF WindowInv
  <2>8. ClosedInv'
    BY <2>3, <2>4 DEF ClosedInv
  <2>9. UniqueHandle'
    BY <2>1, <2>4 DEF UniqueHandle
  <2>. QED
    BY <2>2, <2>5, <2>6, <2>7, <2>8, <2>9
<1>13. CASE UNCHANGED vars
  BY <1>1, <1>13 DEF vars
<1>. QED
  BY <1>2, <1>3, <1>4, <1>5, <1>6, <1>7, <1>8, <1>9, <1>11, <1>12, <1>13 DEF Next

-----------------------------------------------------------------------------
(* Reference accounting *)

\* Adding a new element to a finite set raises its cardinality by one.
LEMMA Added ==
  ASSUME NEW S, IsFiniteSet(S), NEW x, x \notin S, NEW T, T = S \cup {x}
  PROVE  IsFiniteSet(T) /\ Cardinality(S) \in Nat /\ Cardinality(T) = Cardinality(S) + 1
  BY FS_AddElement, FS_CardinalityType

\* Removing an element of a finite set lowers its cardinality by one.
LEMMA Removed ==
  ASSUME NEW S, IsFiniteSet(S), NEW x, x \in S, NEW T, T = S \ {x}
  PROVE  IsFiniteSet(T) /\ Cardinality(S) \in Nat /\ Cardinality(T) = Cardinality(S) - 1
  BY FS_RemoveElement, FS_CardinalityType

\* The sets that RefAccounting counts are finite.
LEMMA OwnersFinite ==
  ASSUME TypeOK, NEW b \in Buf
  PROVE  /\ IsFiniteSet(FdRefs(b)) /\ Cardinality(FdRefs(b)) \in Nat
         /\ IsFiniteSet(HandleRefs(b)) /\ Cardinality(HandleRefs(b)) \in Nat
         /\ IsFiniteSet(InsertRefs(b)) /\ Cardinality(InsertRefs(b)) \in Nat
         /\ IsFiniteSet(Windows(b)) /\ Cardinality(Windows(b)) \in Nat
<1>1. IsFiniteSet(FdRefs(b))
  BY HandleAssumption, FS_Subset DEF FdRefs
<1>2. IsFiniteSet(InsertRefs(b))
  BY HandleAssumption, FS_Subset DEF InsertRefs
<1>3. IsFiniteSet(Windows(b))
  BY HandleAssumption, FS_Subset DEF Windows
<1>4. IsFiniteSet(Handle) /\ IsFiniteSet(1 .. MaxRef)
  BY HandleAssumption, FS_Interval DEF Handle
<1>5. IsFiniteSet(Ctx \X Handle)
  BY <1>4, HandleAssumption, FS_Product
<1>6. IsFiniteSet((Ctx \X Handle) \X (1 .. MaxRef))
  BY <1>4, <1>5, FS_Product
<1>7. IsFiniteSet(HandleRefs(b))
  BY <1>6, FS_Subset DEF HandleRefs
<1>. QED
  BY <1>1, <1>2, <1>3, <1>7, FS_CardinalityType

\* What membership in HandleRefs means.
LEMMA HandleRefsMember ==
  ASSUME NEW b, NEW c \in Ctx, NEW h \in Handle, NEW i \in 1 .. MaxRef
  PROVE  <<<<c, h>>, i>> \in HandleRefs(b) <=> xa[c][h] = b /\ i <= hrc[c][h]
  BY DEF HandleRefs

\* CLOSE_HANDLE and kiumd_close remove one reference of the handle.
LEMMA HandleRefsDrop ==
  ASSUME TypeOK, EntryInv, NEW c \in Ctx, NEW h \in Handle, xa[c][h] # NoEntry,
         hrc' = [hrc EXCEPT ![c][h] = @ - 1],
         xa' = IF hrc[c][h] = 1 THEN [xa EXCEPT ![c][h] = NoEntry] ELSE xa,
         NEW b \in Buf
  PROVE  /\ xa[c][h] # b => HandleRefs(b)' = HandleRefs(b)
         /\ xa[c][h] = b => /\ <<<<c, h>>, hrc[c][h]>> \in HandleRefs(b)
                            /\ HandleRefs(b)' = HandleRefs(b) \ {<<<<c, h>>, hrc[c][h]>>}
<1>1. hrc[c][h] \in 1 .. MaxRef
  BY HandleAssumption DEF EntryInv, TypeOK
<1>2. ASSUME NEW d \in Ctx, NEW g \in Handle, d # c \/ g # h
      PROVE  xa'[d][g] = xa[d][g] /\ hrc'[d][g] = hrc[d][g]
  BY <1>2 DEF TypeOK
<1>3. /\ hrc'[c][h] = hrc[c][h] - 1
      /\ hrc[c][h] = 1 => xa'[c][h] = NoEntry
      /\ hrc[c][h] # 1 => xa'[c][h] = xa[c][h]
  BY DEF TypeOK
<1>4. ASSUME NEW d \in Ctx, NEW g \in Handle, NEW i \in 1 .. MaxRef
      PROVE  xa'[d][g] = b /\ i <= hrc'[d][g] <=>
                xa[d][g] = b /\ i <= hrc[d][g] /\ <<<<d, g>>, i>> # <<<<c, h>>, hrc[c][h]>>
  <2>1. CASE d = c /\ g = h
    <3>1. CASE hrc[c][h] = 1
      BY <1>3, <2>1, <3>1, HandleAssumption
    <3>2. CASE hrc[c][h] # 1
      BY <1>1, <1>3, <2>1, <3>2, HandleAssumption
    <3>. QED
      BY <3>1, <3>2
  <2>2. CASE d # c \/ g # h
    BY <1>2, <2>2
  <2>. QED
    BY <2>1, <2>2
<1>5. xa[c][h] = b => <<<<c, h>>, hrc[c][h]>> \in HandleRefs(b)
  BY <1>1, HandleRefsMember
<1>6. HandleRefs(b)' = HandleRefs(b) \ {<<<<c, h>>, hrc[c][h]>>}
  BY <1>4 DEF HandleRefs
<1>7. xa[c][h] # b => <<<<c, h>>, hrc[c][h]>> \notin HandleRefs(b)
  BY DEF HandleRefs
<1>. QED
  BY <1>5, <1>6, <1>7

\* FD_TO_HANDLE adds one reference to a handle, new or not.
LEMMA HandleRefsGrow ==
  ASSUME TypeOK, NEW c \in Ctx, NEW h \in Handle, NEW v \in Buf \cup {ErrPtr},
         hrc[c][h] + 1 \in 1 .. MaxRef,
         hrc' = [hrc EXCEPT ![c][h] = @ + 1],
         \/ xa' = xa /\ xa[c][h] = v
         \/ xa' = [xa EXCEPT ![c][h] = v] /\ hrc[c][h] = 0,
         NEW b \in Buf
  PROVE  /\ v # b => HandleRefs(b)' = HandleRefs(b)
         /\ v = b => /\ <<<<c, h>>, hrc[c][h] + 1>> \notin HandleRefs(b)
                     /\ HandleRefs(b)' = HandleRefs(b) \cup {<<<<c, h>>, hrc[c][h] + 1>>}
<1>1. hrc[c][h] \in Nat
  BY HandleAssumption DEF TypeOK
<1>2. ASSUME NEW d \in Ctx, NEW g \in Handle, d # c \/ g # h
      PROVE  xa'[d][g] = xa[d][g] /\ hrc'[d][g] = hrc[d][g]
  BY <1>2 DEF TypeOK
<1>3. hrc'[c][h] = hrc[c][h] + 1 /\ xa'[c][h] = v
  BY DEF TypeOK
<1>4. ASSUME NEW d \in Ctx, NEW g \in Handle, NEW i \in 1 .. MaxRef
      PROVE  xa'[d][g] = b /\ i <= hrc'[d][g] <=>
                \/ xa[d][g] = b /\ i <= hrc[d][g]
                \/ v = b /\ <<<<d, g>>, i>> = <<<<c, h>>, hrc[c][h] + 1>>
  <2>1. CASE d = c /\ g = h
    BY <1>1, <1>3, <2>1
  <2>2. CASE d # c \/ g # h
    BY <1>2, <2>2
  <2>. QED
    BY <2>1, <2>2
<1>5. <<<<c, h>>, hrc[c][h] + 1>> \notin HandleRefs(b)
  BY <1>1 DEF HandleRefs
<1>6. v # b => HandleRefs(b)' = HandleRefs(b)
  BY <1>4 DEF HandleRefs
<1>7. v = b => HandleRefs(b)' = HandleRefs(b) \cup {<<<<c, h>>, hrc[c][h] + 1>>}
  BY <1>4 DEF HandleRefs
<1>. QED
  BY <1>5, <1>6, <1>7

\* The owners of a buffer that a step leaves alone.
LEMMA SameOwners ==
  ASSUME NEW b \in Buf
  PROVE  /\ UNCHANGED fdTable => FdRefs(b)' = FdRefs(b)
         /\ UNCHANGED <<xa, hrc>> => HandleRefs(b)' = HandleRefs(b)
         /\ UNCHANGED th => InsertRefs(b)' = InsertRefs(b) /\ Windows(b)' = Windows(b)
  BY DEF FdRefs, HandleRefs, InsertRefs, Windows

\* A thread that leaves the mutex stops owning, or owing, its reference.
LEMMA LeaveOwners ==
  ASSUME TypeOK, NEW t \in Thread, Leave(t), NEW b \in Buf
  PROVE  /\ InsertRefs(b)' = InsertRefs(b) \ {t}
         /\ Windows(b)' = Windows(b) \ {t}
  BY DEF TypeOK, Leave, Idle, InsertRefs, Windows

\* RefAccounting holds initially: nothing is owned and every count is 0.
LEMMA AccountingInit == Init => RefAccounting
<1> SUFFICES ASSUME Init, NEW b \in Buf
             PROVE  refcount[b] + Cardinality(Windows(b)) =
                      Cardinality(FdRefs(b)) + Cardinality(HandleRefs(b))
                        + Cardinality(InsertRefs(b))
  BY DEF RefAccounting
<1>1. FdRefs(b) = {} /\ HandleRefs(b) = {} /\ InsertRefs(b) = {} /\ Windows(b) = {}
  BY HandleAssumption DEF Init, Idle, FdRefs, HandleRefs, InsertRefs, Windows
<1>2. refcount[b] = 0
  BY DEF Init
<1>. QED
  BY <1>1, <1>2, FS_EmptySet

\* Every step of the module keeps RefAccounting.
LEMMA AccountingStep ==
  ASSUME TypeOK, TableInv, UnexportedInv, RefAccounting, [Next]_vars
  PROVE  RefAccounting'
<1> SUFFICES ASSUME NEW b \in Buf
             PROVE  refcount'[b] + Cardinality(Windows(b)') =
                      Cardinality(FdRefs(b)') + Cardinality(HandleRefs(b)')
                        + Cardinality(InsertRefs(b)')
  BY DEF RefAccounting
<1> DEFINE Goal == refcount'[b] + Cardinality(Windows(b)') =
                     Cardinality(FdRefs(b)') + Cardinality(HandleRefs(b)')
                       + Cardinality(InsertRefs(b)')
<1>a. refcount[b] + Cardinality(Windows(b)) =
        Cardinality(FdRefs(b)) + Cardinality(HandleRefs(b)) + Cardinality(InsertRefs(b))
  BY DEF RefAccounting
<1>b. refcount[b] \in Int
  BY DEF TypeOK
<1>c. /\ IsFiniteSet(FdRefs(b)) /\ Cardinality(FdRefs(b)) \in Nat
      /\ IsFiniteSet(HandleRefs(b)) /\ Cardinality(HandleRefs(b)) \in Nat
      /\ IsFiniteSet(InsertRefs(b)) /\ Cardinality(InsertRefs(b)) \in Nat
      /\ IsFiniteSet(Windows(b)) /\ Cardinality(Windows(b)) \in Nat
  BY OwnersFinite
<1>d. ASSUME NEW x \in Buf, DmaBufGet(x)
      PROVE  refcount'[b] = IF x = b THEN refcount[b] + 1 ELSE refcount[b]
  BY <1>d DEF DmaBufGet, TypeOK
<1>e. ASSUME NEW x \in Buf, DmaBufPut(x)
      PROVE  refcount'[b] = IF x = b THEN refcount[b] - 1 ELSE refcount[b]
  BY <1>e DEF DmaBufPut, TypeOK
<1>1. ASSUME NEW x \in Buf, NEW f \in Fd, Export(x, f) PROVE Goal
  <2>1. HandleRefs(b)' = HandleRefs(b) /\ InsertRefs(b)' = InsertRefs(b) /\ Windows(b)' = Windows(b)
    BY <1>1, SameOwners DEF Export
  <2>2. CASE x = b
    <3>1. FdRefs(b)' = FdRefs(b) \cup {f} /\ f \notin FdRefs(b)
      BY <1>1, <2>2, HandleAssumption DEF Export, FdRefs, TypeOK
    <3>2. refcount'[b] = 1 /\ refcount[b] = 0
      BY <1>1, <2>2 DEF Export, UnexportedInv, TypeOK
    <3>3. Cardinality(FdRefs(b)') = Cardinality(FdRefs(b)) + 1
      BY <1>c, <3>1, Added
    <3>. QED
      BY <1>a, <1>c, <2>1, <3>2, <3>3
  <2>3. CASE x # b
    <3>1. FdRefs(b)' = FdRefs(b)
      BY <1>1, <2>3, HandleAssumption DEF Export, FdRefs, TypeOK
    <3>2. refcount'[b] = refcount[b]
      BY <1>1, <2>3 DEF Export, TypeOK
    <3>. QED
      BY <1>a, <2>1, <3>1, <3>2
  <2>. QED
    BY <2>2, <2>3
<1>2. ASSUME NEW f \in Fd, CloseFd(f) PROVE Goal
  <2>1. HandleRefs(b)' = HandleRefs(b) /\ InsertRefs(b)' = InsertRefs(b) /\ Windows(b)' = Windows(b)
    BY <1>2, SameOwners DEF CloseFd
  <2>2. fdTable[f] \in Buf
    BY <1>2 DEF CloseFd, TypeOK
  <2>3. refcount'[b] = IF fdTable[f] = b THEN refcount[b] - 1 ELSE refcount[b]
    BY <1>2, <1>e, <2>2 DEF CloseFd
  <2>4. FdRefs(b)' = FdRefs(b) \ {f}
    BY <1>2, HandleAssumption DEF CloseFd, FdRefs, TypeOK
  <2>5. CASE fdTable[f] = b
    <3>1. f \in FdRefs(b)
      BY <2>5 DEF FdRefs
    <3>2. Cardinality(FdRefs(b)') = Cardinality(FdRefs(b)) - 1
      BY <1>c, <2>4, <3>1, Removed
    <3>. QED
      BY <1>a, <1>b, <1>c, <2>1, <2>3, <2>5, <3>2
  <2>6. CASE fdTable[f] # b
    <3>1. FdRefs(b)' = FdRefs(b)
      BY <2>4, <2>6 DEF FdRefs
    <3>. QED
      BY <1>a, <2>1, <2>3, <2>6, <3>1
  <2>. QED
    BY <2>5, <2>6
<1>3. ASSUME UNCHANGED <<fdTable, refcount, xa, hrc, th>> PROVE Goal
  BY <1>3, <1>a, SameOwners
<1>4. ASSUME NEW c \in Ctx, KiumdOpen(c) \/ KiumdClose(c) \/ CloseDone(c) PROVE Goal
  BY <1>3, <1>4 DEF KiumdOpen, KiumdClose, CloseDone
<1>5. ASSUME NEW c \in Ctx, NEW h \in Handle, xa[c][h] # NoEntry,
             hrc' = [hrc EXCEPT ![c][h] = @ - 1],
             xa' = IF hrc[c][h] = 1 THEN [xa EXCEPT ![c][h] = NoEntry] ELSE xa,
             IF xa[c][h] \in Buf THEN DmaBufPut(xa[c][h]) ELSE UNCHANGED refcount,
             UNCHANGED <<fdTable, th>>
      PROVE  Goal
  <2>1. FdRefs(b)' = FdRefs(b) /\ InsertRefs(b)' = InsertRefs(b) /\ Windows(b)' = Windows(b)
    BY <1>5, SameOwners
  <2>2. /\ xa[c][h] # b => HandleRefs(b)' = HandleRefs(b)
        /\ xa[c][h] = b => /\ <<<<c, h>>, hrc[c][h]>> \in HandleRefs(b)
                           /\ HandleRefs(b)' = HandleRefs(b) \ {<<<<c, h>>, hrc[c][h]>>}
    BY <1>5, HandleRefsDrop DEF TableInv
  <2>3. refcount'[b] = IF xa[c][h] = b THEN refcount[b] - 1 ELSE refcount[b]
    BY <1>5, <1>e
  <2>4. CASE xa[c][h] = b
    <3>1. Cardinality(HandleRefs(b)') = Cardinality(HandleRefs(b)) - 1
      BY <1>c, <2>2, <2>4, Removed
    <3>. QED
      BY <1>a, <1>b, <1>c, <2>1, <2>3, <2>4, <3>1
  <2>5. CASE xa[c][h] # b
    BY <1>a, <2>1, <2>2, <2>3, <2>5
  <2>. QED
    BY <2>4, <2>5
<1>6. ASSUME NEW c \in Ctx, NEW h \in Handle, ClosePut(c, h) PROVE Goal
  <2>1. xa[c][h] # NoEntry
    BY <1>6, HandleAssumption DEF ClosePut
  <2>. QED
    BY <1>5, <1>6, <2>1 DEF ClosePut
<1>7. ASSUME NEW c \in Ctx, NEW h \in Handle, CloseHandle(c, h) PROVE Goal
  BY <1>5, <1>7 DEF CloseHandle
<1>8. ASSUME NEW c \in Ctx, NEW h \in Handle, CloseSkip(c, h) PROVE Goal
  <2>1. FdRefs(b)' = FdRefs(b) /\ InsertRefs(b)' = InsertRefs(b) /\ Windows(b)' = Windows(b)
    BY <1>8, SameOwners DEF CloseSkip
  <2>2. ASSUME NEW d \in Ctx, NEW g \in Handle, NEW i \in 1 .. MaxRef
        PROVE  xa'[d][g] = b /\ i <= hrc'[d][g] <=> xa[d][g] = b /\ i <= hrc[d][g]
    BY <1>8, HandleAssumption DEF CloseSkip, TypeOK
  <2>3. HandleRefs(b)' = HandleRefs(b)
    BY <2>2 DEF HandleRefs
  <2>. QED
    BY <1>8, <1>a, <2>1, <2>3 DEF CloseSkip
<1>9. ASSUME NEW t \in Thread, NEW c \in Ctx, NEW f \in Fd, FdToHandleGet(t, c, f) PROVE Goal
  <2>1. FdRefs(b)' = FdRefs(b) /\ HandleRefs(b)' = HandleRefs(b)
    BY <1>9, SameOwners DEF FdToHandleGet
  <2>3. th[t].pc = "idle"
    BY <1>9 DEF FdToHandleGet, CanEnter
  <2>x. /\ \A u \in Thread : u # t => th'[u] = th[u]
        /\ th'[t].pc = "insert"
        /\ th'[t].buf = IF fdTable[f] # NoBuf THEN fdTable[f] ELSE ErrPtr
    BY <1>9 DEF FdToHandleGet, Enter, TypeOK
  <2>2. Windows(b)' = Windows(b)
    BY <2>3, <2>x DEF Windows
  <2>4. CASE fdTable[f] = b
    <3>1. InsertRefs(b)' = InsertRefs(b) \cup {t} /\ t \notin InsertRefs(b)
      BY <2>3, <2>4, <2>x, HandleAssumption DEF InsertRefs
    <3>2. refcount'[b] = refcount[b] + 1
      BY <1>9, <1>d, <2>4, HandleAssumption DEF FdToHandleGet
    <3>3. Cardinality(InsertRefs(b)') = Cardinality(InsertRefs(b)) + 1
      BY <1>c, <3>1, Added
    <3>. QED
      BY <1>a, <1>b, <1>c, <2>1, <2>2, <3>2, <3>3
  <2>5. CASE fdTable[f] # b
    <3>1. InsertRefs(b)' = InsertRefs(b)
      BY <2>3, <2>5, <2>x, HandleAssumption DEF InsertRefs
    <3>2. refcount'[b] = refcount[b]
      BY <1>9, <1>d, <2>5, HandleAssumption DEF FdToHandleGet, TypeOK
    <3>. QED
      BY <1>a, <2>1, <2>2, <3>1, <3>2
  <2>. QED
    BY <2>4, <2>5
<1>10. ASSUME NEW t \in Thread, FdToHandleShare(t) \/ FdToHandleAlloc(t) PROVE Goal
  <2> DEFINE c == th[t].ctx
  <2>1. c \in Ctx /\ th[t].pc = "insert" /\ th[t].buf \in Buf \cup {ErrPtr}
    BY <1>10, ThreadFields DEF FdToHandleShare, FdToHandleAlloc
  <2>2. FdRefs(b)' = FdRefs(b) /\ refcount'[b] = refcount[b]
    BY <1>10, SameOwners DEF FdToHandleShare, FdToHandleAlloc
  <2>3. InsertRefs(b)' = InsertRefs(b) \ {t} /\ Windows(b)' = Windows(b) \ {t}
    BY <1>10, LeaveOwners DEF FdToHandleShare, FdToHandleAlloc
  <2>4. Windows(b)' = Windows(b)
    BY <2>1, <2>3 DEF Windows
  <2>5. PICK h \in Handle :
          /\ hrc' = [hrc EXCEPT ![c][h] = @ + 1]
          /\ \/ xa' = xa /\ xa[c][h] = th[t].buf
             \/ xa' = [xa EXCEPT ![c][h] = th[t].buf] /\ hrc[c][h] = 0
    <3>1. CASE FdToHandleShare(t)
      BY <3>1 DEF FdToHandleShare, First
    <3>2. CASE FdToHandleAlloc(t)
      <4>1. PICK h \in Handle : /\ hrc' = [hrc EXCEPT ![c][h] = 1]
                                /\ xa' = [xa EXCEPT ![c][h] = th[t].buf]
                                /\ xa[c][h] = NoEntry
        BY <3>2 DEF FdToHandleAlloc, First
      <4>2. hrc[c][h] = 0
        BY <2>1, <4>1 DEF TableInv, EntryInv
      <4>3. hrc' = [hrc EXCEPT ![c][h] = @ + 1]
        BY <4>1, <4>2, <2>1 DEF TypeOK
      <4>. QED
        BY <4>1, <4>2, <4>3
    <3>. QED
      BY <1>10, <3>1, <3>2
  <2>6. hrc[c][h] + 1 \in 1 .. MaxRef
    BY <2>1, HandleAssumption DEF TypeOK, TableInv, BoundInv
  <2>7. /\ th[t].buf # b => HandleRefs(b)' = HandleRefs(b)
        /\ th[t].buf = b =>
             /\ <<<<c, h>>, hrc[c][h] + 1>> \notin HandleRefs(b)
             /\ HandleRefs(b)' = HandleRefs(b) \cup {<<<<c, h>>, hrc[c][h] + 1>>}
    <3>1. PICK d \in Ctx, v \in Buf \cup {ErrPtr} : d = c /\ v = th[t].buf
      BY <2>1
    <3>2. /\ hrc[d][h] + 1 \in 1 .. MaxRef
          /\ hrc' = [hrc EXCEPT ![d][h] = @ + 1]
          /\ \/ xa' = xa /\ xa[d][h] = v
             \/ xa' = [xa EXCEPT ![d][h] = v] /\ hrc[d][h] = 0
      BY <2>5, <2>6, <3>1
    <3>3. /\ v # b => HandleRefs(b)' = HandleRefs(b)
          /\ v = b => /\ <<<<d, h>>, hrc[d][h] + 1>> \notin HandleRefs(b)
                      /\ HandleRefs(b)' = HandleRefs(b) \cup {<<<<d, h>>, hrc[d][h] + 1>>}
      BY <3>2, HandleRefsGrow
    <3>. QED
      BY <3>1, <3>3
  <2>8. CASE th[t].buf = b
    <3>1. t \in InsertRefs(b)
      BY <2>1, <2>8 DEF InsertRefs
    <3>2. Cardinality(InsertRefs(b)') = Cardinality(InsertRefs(b)) - 1
      BY <1>c, <2>3, <3>1, Removed
    <3>3. Cardinality(HandleRefs(b)') = Cardinality(HandleRefs(b)) + 1
      BY <1>c, <2>7, <2>8, Added
    <3>. QED
      BY <1>a, <1>b, <1>c, <2>2, <2>4, <3>2, <3>3
  <2>9. CASE th[t].buf # b
    <3>1. InsertRefs(b)' = InsertRefs(b)
      BY <2>3, <2>9 DEF InsertRefs
    <3>. QED
      BY <1>a, <2>2, <2>4, <2>7, <2>9, <3>1
  <2>. QED
    BY <2>8, <2>9
<1>11. ASSUME NEW t \in Thread, FdToHandleFail(t) PROVE Goal
  <2>1. th[t].pc = "insert" /\ th[t].buf \in Buf \cup {ErrPtr}
    BY <1>11, ThreadFields DEF FdToHandleFail
  <2>2. FdRefs(b)' = FdRefs(b) /\ HandleRefs(b)' = HandleRefs(b)
    BY <1>11, SameOwners DEF FdToHandleFail
  <2>3. InsertRefs(b)' = InsertRefs(b) \ {t} /\ Windows(b)' = Windows(b) \ {t}
    BY <1>11, LeaveOwners DEF FdToHandleFail
  <2>4. Windows(b)' = Windows(b)
    BY <2>1, <2>3 DEF Windows
  <2>5. refcount'[b] = IF th[t].buf = b THEN refcount[b] - 1 ELSE refcount[b]
    BY <1>11, <1>e, HandleAssumption DEF FdToHandleFail
  <2>6. CASE th[t].buf = b
    <3>1. t \in InsertRefs(b)
      BY <2>1, <2>6 DEF InsertRefs
    <3>2. Cardinality(InsertRefs(b)') = Cardinality(InsertRefs(b)) - 1
      BY <1>c, <2>3, <3>1, Removed
    <3>. QED
      BY <1>a, <1>b, <1>c, <2>2, <2>4, <2>5, <2>6, <3>2
  <2>7. CASE th[t].buf # b
    <3>1. InsertRefs(b)' = InsertRefs(b)
      BY <2>3, <2>7 DEF InsertRefs
    <3>. QED
      BY <1>a, <2>2, <2>4, <2>5, <2>7, <3>1
  <2>. QED
    BY <2>6, <2>7
<1>12. ASSUME NEW t \in Thread, NEW c \in Ctx, NEW h \in Handle, NEW f \in Fd,
              HandleToFdInstall(t, c, h, f)
       PROVE  Goal
  <2>1. HandleRefs(b)' = HandleRefs(b) /\ refcount'[b] = refcount[b]
    BY <1>12, SameOwners DEF HandleToFdInstall
  <2>2. InsertRefs(b)' = InsertRefs(b)
    BY <1>12 DEF HandleToFdInstall, CanEnter, Enter, InsertRefs, TypeOK
  <2>3. CASE xa[c][h] = b
    <3>1. Windows(b)' = Windows(b) \cup {t} /\ t \notin Windows(b)
      BY <1>12, <2>3 DEF HandleToFdInstall, CanEnter, Enter, Windows, TypeOK
    <3>2. FdRefs(b)' = FdRefs(b) \cup {f} /\ f \notin FdRefs(b)
      BY <1>12, <2>3, HandleAssumption DEF HandleToFdInstall, FdRefs, TypeOK
    <3>3. /\ Cardinality(Windows(b)') = Cardinality(Windows(b)) + 1
          /\ Cardinality(FdRefs(b)') = Cardinality(FdRefs(b)) + 1
      BY <1>c, <3>1, <3>2, Added
    <3>. QED
      BY <1>a, <1>b, <1>c, <2>1, <2>2, <3>3
  <2>4. CASE xa[c][h] # b
    <3>1. Windows(b)' = Windows(b)
      BY <1>12, <2>4 DEF HandleToFdInstall, CanEnter, Enter, Windows, TypeOK
    <3>2. FdRefs(b)' = FdRefs(b)
      BY <1>12, <2>4, HandleAssumption DEF HandleToFdInstall, FdRefs, TypeOK
    <3>. QED
      BY <1>a, <2>1, <2>2, <3>1, <3>2
  <2>. QED
    BY <2>3, <2>4
<1>13. ASSUME NEW t \in Thread, HandleToFdGet(t) PROVE Goal
  <2>1. th[t].pc = "get" /\ th[t].buf \in Buf
    BY <1>13, ThreadFields DEF HandleToFdGet
  <2>2. FdRefs(b)' = FdRefs(b) /\ HandleRefs(b)' = HandleRefs(b)
    BY <1>13, SameOwners DEF HandleToFdGet
  <2>3. InsertRefs(b)' = InsertRefs(b) \ {t} /\ Windows(b)' = Windows(b) \ {t}
    BY <1>13, LeaveOwners DEF HandleToFdGet
  <2>4. InsertRefs(b)' = InsertRefs(b)
    BY <2>1, <2>3 DEF InsertRefs
  <2>5. refcount'[b] = IF th[t].buf = b THEN refcount[b] + 1 ELSE refcount[b]
    BY <1>13, <1>d, <2>1 DEF HandleToFdGet
  <2>6. CASE th[t].buf = b
    <3>1. t \in Windows(b)
      BY <2>1, <2>6 DEF Windows
    <3>2. Cardinality(Windows(b)') = Cardinality(Windows(b)) - 1
      BY <1>c, <2>3, <3>1, Removed
    <3>. QED
      BY <1>a, <1>b, <1>c, <2>2, <2>4, <2>5, <2>6, <3>2
  <2>7. CASE th[t].buf # b
    <3>1. Windows(b)' = Windows(b)
      BY <2>3, <2>7 DEF Windows
    <3>. QED
      BY <1>a, <2>2, <2>4, <2>5, <2>7, <3>1
  <2>. QED
    BY <2>6, <2>7
<1>14. CASE UNCHANGED vars
  BY <1>3, <1>14 DEF vars
<1>. QED
  BY <1>1, <1>2, <1>4, <1>6, <1>7, <1>8, <1>9, <1>10, <1>11, <1>12, <1>13, <1>14, Zenon DEF Next

-----------------------------------------------------------------------------
(* Lifetime of the buffers *)

\* UnexportedInv holds initially.
LEMMA UnexportedInit == Init => UnexportedInv
  BY HandleAssumption DEF Init, UnexportedInv, Idle

\* Every step of the module keeps UnexportedInv.
LEMMA UnexportedStep ==
  ASSUME TypeOK, UnexportedInv, [Next]_vars
  PROVE  UnexportedInv'
<1> SUFFICES ASSUME NEW b \in Buf, b \notin exported'
             PROVE  /\ refcount'[b] = 0 /\ b \notin released'
                    /\ \A f \in Fd : fdTable'[f] # b
                    /\ \A c \in Ctx, h \in Handle : xa'[c][h] # b
                    /\ \A t \in Thread : th'[t].buf # b
  BY DEF UnexportedInv
<1> DEFINE Goal == /\ refcount'[b] = 0 /\ b \notin released'
                   /\ \A f \in Fd : fdTable'[f] # b
                   /\ \A c \in Ctx, h \in Handle : xa'[c][h] # b
                   /\ \A t \in Thread : th'[t].buf # b
<1>a. \/ exported' = exported
      \/ \E x \in Buf, f \in Fd : Export(x, f)
  BY DEF Next, vars, CloseFd, KiumdOpen, KiumdClose, CloseDone, ClosePut, CloseSkip, CloseHandle,
         FdToHandleGet, FdToHandleShare, FdToHandleAlloc, FdToHandleFail,
         HandleToFdInstall, HandleToFdGet
<1>b. b \notin exported
  BY <1>a DEF Export
<1>c. /\ refcount[b] = 0 /\ b \notin released
      /\ \A f \in Fd : fdTable[f] # b
      /\ \A c \in Ctx, h \in Handle : xa[c][h] # b
      /\ \A t \in Thread : th[t].buf # b
  BY <1>b DEF UnexportedInv
<1>d. ASSUME NEW x \in Buf, x # b, DmaBufGet(x) \/ DmaBufPut(x)
      PROVE  refcount'[b] = 0 /\ b \notin released'
  BY <1>c, <1>d DEF DmaBufGet, DmaBufPut, TypeOK
<1>e. ASSUME NEW t \in Thread, Leave(t)
      PROVE  \A u \in Thread : th'[u].buf # b
  <2>1. Idle.buf # b
    BY HandleAssumption DEF Idle
  <2>2. \A u \in Thread : th'[u] \in {th[u], Idle}
    BY <1>e DEF Leave, TypeOK
  <2>. QED
    BY <1>c, <2>1, <2>2
<1>1. ASSUME NEW x \in Buf, NEW f \in Fd, Export(x, f) PROVE Goal
  <2>1. x # b
    BY <1>1 DEF Export, TypeOK
  <2>. QED
    BY <1>1, <1>c, <2>1 DEF Export, TypeOK
<1>2. ASSUME NEW f \in Fd, CloseFd(f) PROVE Goal
  <2>1. fdTable[f] \in Buf /\ fdTable[f] # b
    BY <1>2, <1>c DEF CloseFd, TypeOK
  <2>2. refcount'[b] = 0 /\ b \notin released'
    BY <1>2, <1>d, <2>1 DEF CloseFd
  <2>3. \A g \in Fd : fdTable'[g] # b
    BY <1>2, <1>c, HandleAssumption DEF CloseFd, TypeOK
  <2>. QED
    BY <1>2, <1>c, <2>2, <2>3 DEF CloseFd
<1>3. ASSUME UNCHANGED <<fdTable, refcount, released, xa, th>> PROVE Goal
  BY <1>3, <1>c
<1>4. ASSUME NEW c \in Ctx, KiumdOpen(c) \/ KiumdClose(c) \/ CloseDone(c) PROVE Goal
  BY <1>3, <1>4 DEF KiumdOpen, KiumdClose, CloseDone
<1>5. ASSUME NEW c \in Ctx, NEW h \in Handle,
             ClosePut(c, h) \/ CloseSkip(c, h) \/ CloseHandle(c, h)
      PROVE  Goal
  <2>1. fdTable' = fdTable /\ th' = th
    BY <1>5 DEF ClosePut, CloseSkip, CloseHandle
  <2>2. \A d \in Ctx, g \in Handle : xa'[d][g] \in {xa[d][g], NoEntry}
    BY <1>5 DEF ClosePut, CloseSkip, CloseHandle, TypeOK
  <2>3. refcount'[b] = 0 /\ b \notin released'
    BY <1>5, <1>c, <1>d DEF ClosePut, CloseSkip, CloseHandle
  <2>. QED
    BY <1>c, <2>1, <2>2, <2>3, HandleAssumption
<1>6. ASSUME NEW t \in Thread, NEW c \in Ctx, NEW f \in Fd, FdToHandleGet(t, c, f) PROVE Goal
  <2>1. refcount'[b] = 0 /\ b \notin released'
    BY <1>6, <1>c, <1>d DEF FdToHandleGet, TypeOK
  <2>2. \A u \in Thread : th'[u].buf # b
    <3>1. /\ \A u \in Thread : u # t => th'[u] = th[u]
          /\ th'[t].buf = IF fdTable[f] # NoBuf THEN fdTable[f] ELSE ErrPtr
      BY <1>6 DEF FdToHandleGet, Enter, TypeOK
    <3>. QED
      BY <1>c, <3>1, HandleAssumption
  <2>. QED
    BY <1>6, <1>c, <2>1, <2>2 DEF FdToHandleGet
<1>7. ASSUME NEW t \in Thread, FdToHandleShare(t) PROVE Goal
  BY <1>7, <1>c, <1>e DEF FdToHandleShare
<1>8. ASSUME NEW t \in Thread, FdToHandleAlloc(t) PROVE Goal
  <2>1. \A d \in Ctx, g \in Handle : xa'[d][g] \in {xa[d][g], th[t].buf}
    <3>1. PICK h \in Handle : xa' = [xa EXCEPT ![th[t].ctx][h] = th[t].buf]
      BY <1>8 DEF FdToHandleAlloc, First
    <3>. QED
      BY <3>1 DEF TypeOK
  <2>. QED
    BY <1>8, <1>c, <1>e, <2>1 DEF FdToHandleAlloc
<1>9. ASSUME NEW t \in Thread, FdToHandleFail(t) PROVE Goal
  <2>1. refcount'[b] = 0 /\ b \notin released'
    BY <1>9, <1>c, <1>d DEF FdToHandleFail
  <2>. QED
    BY <1>9, <1>c, <1>e, <2>1 DEF FdToHandleFail
<1>10. ASSUME NEW t \in Thread, NEW c \in Ctx, NEW h \in Handle, NEW f \in Fd,
              HandleToFdInstall(t, c, h, f)
       PROVE  Goal
  <2>1. \A g \in Fd : fdTable'[g] # b
    BY <1>10, <1>c DEF HandleToFdInstall, TypeOK
  <2>2. \A u \in Thread : th'[u].buf # b
    BY <1>10, <1>c DEF HandleToFdInstall, Enter, TypeOK
  <2>. QED
    BY <1>10, <1>c, <2>1, <2>2 DEF HandleToFdInstall
<1>11. ASSUME NEW t \in Thread, HandleToFdGet(t) PROVE Goal
  <2>1. th[t].buf \in Buf /\ th[t].buf # b
    BY <1>11, <1>c, ThreadFields DEF HandleToFdGet
  <2>2. refcount'[b] = 0 /\ b \notin released'
    BY <1>11, <1>d, <2>1 DEF HandleToFdGet
  <2>. QED
    BY <1>11, <1>c, <1>e, <2>2 DEF HandleToFdGet
<1>12. CASE UNCHANGED vars
  BY <1>3, <1>12 DEF vars
<1>. QED
  BY <1>1, <1>2, <1>4, <1>5, <1>6, <1>7, <1>8, <1>9, <1>10, <1>11, <1>12, Zenon DEF Next

\* FdInv holds initially: no descriptor is open.
LEMMA FdInit == Init => FdInv
  BY DEF Init, FdInv, Idle

\* Every step of the module keeps FdInv.
LEMMA FdStep ==
  ASSUME TypeOK, MutexInv, FdInv, [Next]_vars
  PROVE  FdInv'
<1> SUFFICES ASSUME ~early' PROVE FdInv'
  BY DEF FdInv
<1>e. ~early
  BY EarlyStep
<1>a. \A t \in Thread : th[t].pc = "get" =>
        /\ th[t].fd \in Fd
        /\ fdTable[th[t].fd] = th[t].buf /\ th[t].buf \in Buf
        /\ \A u \in Thread : th[u].pc = "get" /\ th[u].fd = th[t].fd => u = t
  BY <1>e, ThreadFields DEF FdInv
<1>1. ASSUME UNCHANGED <<fdTable, th>> PROVE FdInv'
  BY <1>1, <1>e DEF FdInv
<1>2. ASSUME NEW x \in Buf, NEW f \in Fd, Export(x, f) PROVE FdInv'
  BY <1>2, <1>a, HandleAssumption DEF Export, FdInv, TypeOK
<1>3. ASSUME NEW f \in Fd, CloseFd(f) PROVE FdInv'
  BY <1>3, <1>a, HandleAssumption DEF CloseFd, FdInv, TypeOK
<1>4. ASSUME NEW c \in Ctx, KiumdOpen(c) \/ KiumdClose(c) \/ CloseDone(c) PROVE FdInv'
  BY <1>1, <1>4 DEF KiumdOpen, KiumdClose, CloseDone
<1>5. ASSUME NEW c \in Ctx, NEW h \in Handle,
             ClosePut(c, h) \/ CloseSkip(c, h) \/ CloseHandle(c, h)
      PROVE  FdInv'
  BY <1>1, <1>5 DEF ClosePut, CloseSkip, CloseHandle
<1>6. ASSUME NEW t \in Thread, NEW c \in Ctx, NEW f \in Fd, FdToHandleGet(t, c, f) PROVE FdInv'
  <2>1. /\ \A u \in Thread : u # t => th'[u] = th[u]
        /\ th'[t].pc = "insert" /\ fdTable' = fdTable
    BY <1>6 DEF FdToHandleGet, Enter, TypeOK
  <2>. QED
    BY <1>a, <2>1 DEF FdInv
<1>7. ASSUME NEW t \in Thread, Leave(t), UNCHANGED fdTable PROVE FdInv'
  <2>1. /\ \A u \in Thread : u # t => th'[u] = th[u]
        /\ th'[t].pc = "idle"
    BY <1>7 DEF Leave, TypeOK, Idle
  <2>. QED
    BY <1>7, <1>a, <2>1 DEF FdInv
<1>8. ASSUME NEW t \in Thread,
             \/ FdToHandleShare(t) \/ FdToHandleAlloc(t)
             \/ FdToHandleFail(t) \/ HandleToFdGet(t)
      PROVE  FdInv'
  BY <1>7, <1>8 DEF FdToHandleShare, FdToHandleAlloc, FdToHandleFail, HandleToFdGet
<1>9. ASSUME NEW t \in Thread, NEW c \in Ctx, NEW h \in Handle, NEW f \in Fd,
             HandleToFdInstall(t, c, h, f)
      PROVE  FdInv'
  <2>1. /\ \A u \in Thread : u # t => th'[u] = th[u]
        /\ th'[t].pc = "get" /\ th'[t].fd = f /\ th'[t].buf = xa[c][h]
        /\ fdTable[f] = NoBuf /\ fdTable' = [fdTable EXCEPT ![f] = xa[c][h]]
    BY <1>9 DEF HandleToFdInstall, Enter, TypeOK
  <2>2. \A u \in Thread : u # t /\ th[u].pc = "get" => th[u].fd # f
    BY <1>a, <2>1, HandleAssumption
  <2>3. ASSUME NEW v \in Thread, th'[v].pc = "get"
        PROVE  fdTable'[th'[v].fd] = th'[v].buf
    <3>1. CASE v = t
      BY <2>1, <3>1 DEF TypeOK
    <3>2. CASE v # t
      BY <1>a, <2>1, <2>2, <2>3, <3>2 DEF TypeOK
    <3>. QED
      BY <3>1, <3>2
  <2>4. ASSUME NEW v \in Thread, NEW u \in Thread,
               th'[v].pc = "get", th'[u].pc = "get", th'[u].fd = th'[v].fd
        PROVE  u = v
    BY <1>a, <2>1, <2>2, <2>4
  <2>. QED
    BY <2>3, <2>4 DEF FdInv
<1>10. CASE UNCHANGED vars
  BY <1>1, <1>10 DEF vars
<1>. QED
  BY <1>2, <1>3, <1>4, <1>5, <1>6, <1>8, <1>9, <1>10 DEF Next

\* With their descriptors all there, the calls between dma_buf_fd and
\* get_dma_buf are no more than the descriptors of the buffer.
LEMMA WindowsBound ==
  ASSUME TypeOK, FdInv, ~early, NEW b \in Buf, NEW S, IsFiniteSet(S),
         \A t \in Windows(b) : th[t].fd \in S
  PROVE  Cardinality(Windows(b)) <= Cardinality(S)
<1> DEFINE f == [t \in Windows(b) |-> th[t].fd]
<1>1. \A t, u \in Windows(b) : f[t] = f[u] => t = u
  BY DEF FdInv, Windows
<1>2. f \in Injection(Windows(b), S)
  BY <1>1 DEF Injection, IsInjective
<1> HIDE DEF f
<1>. QED
  BY <1>2, FS_Injection

\* A handle of the buffer is among its owners.
LEMMA HandleOwns ==
  ASSUME TypeOK, EntryInv, NEW b \in Buf, NEW c \in Ctx, NEW h \in Handle, xa[c][h] = b
  PROVE  Cardinality(HandleRefs(b)) >= 1
<1>1. hrc[c][h] >= 1 /\ 1 \in 1 .. MaxRef
  BY HandleAssumption DEF EntryInv, TypeOK
<1>2. <<<<c, h>>, 1>> \in HandleRefs(b)
  BY <1>1, HandleRefsMember
<1>3. IsFiniteSet(HandleRefs(b)) /\ Cardinality(HandleRefs(b)) \in Nat
  BY OwnersFinite
<1>4. Cardinality(HandleRefs(b)) # 0
  BY <1>2, <1>3, FS_EmptySet
<1>. QED
  BY <1>3, <1>4

\* Without early closes the owners keep a buffer alive while a handle names
\* it, and while it has a descriptor that no call is about to return.
LEMMA Alive ==
  ASSUME TypeOK, TableInv, RefAccounting, FdInv, ~early, NEW b \in Buf,
         \/ \E c \in Ctx, h \in Handle : xa[c][h] = b
         \/ \E t \in Thread : th[t].pc = "insert" /\ th[t].buf = b
         \/ \E f \in Fd : fdTable[f] = b
  PROVE  refcount[b] >= 1
<1>a. refcount[b] + Cardinality(Windows(b)) =
        Cardinality(FdRefs(b)) + Cardinality(HandleRefs(b)) + Cardinality(InsertRefs(b))
  BY DEF RefAccounting
<1>b. refcount[b] \in Int
  BY DEF TypeOK
<1>c. /\ IsFiniteSet(FdRefs(b)) /\ Cardinality(FdRefs(b)) \in Nat
      /\ Cardinality(HandleRefs(b)) \in Nat
      /\ IsFiniteSet(InsertRefs(b)) /\ Cardinality(InsertRefs(b)) \in Nat
      /\ Cardinality(Windows(b)) \in Nat
  BY OwnersFinite
<1>d. Cardinality(Windows(b)) <= Cardinality(FdRefs(b))
  <2>1. \A t \in Windows(b) : th[t].fd \in FdRefs(b)
    BY ThreadFields DEF Windows, FdRefs, FdInv
  <2>. QED
    BY <1>c, <2>1, WindowsBound
<1>1. CASE \E c \in Ctx, h \in Handle : xa[c][h] = b
  BY <1>a, <1>b, <1>c, <1>d, <1>1, HandleOwns DEF TableInv
<1>2. CASE \E t \in Thread : th[t].pc = "insert" /\ th[t].buf = b
  <2>1. InsertRefs(b) # {}
    BY <1>2 DEF InsertRefs
  <2>2. Cardinality(InsertRefs(b)) >= 1
    BY <1>c, <2>1, FS_EmptySet
  <2>. QED
    BY <1>a, <1>b, <1>c, <1>d, <2>2
<1>3. ASSUME NEW f \in Fd, fdTable[f] = b PROVE refcount[b] >= 1
  <2>1. CASE \E t \in Windows(b) : th[t].fd = f
    <3>1. PICK t \in Thread : th[t].pc = "get" /\ th[t].buf = b
      BY <2>1 DEF Windows
    <3>2. th[t].ctx \in Ctx /\ th[t].handle \in Handle /\ xa[th[t].ctx][th[t].handle] = b
      BY <3>1, ThreadFields DEF TableInv, WindowInv
    <3>. QED
      BY <1>1, <3>2
  <2>2. CASE \A t \in Windows(b) : th[t].fd # f
    <3>1. \A t \in Windows(b) : th[t].fd \in FdRefs(b) \ {f}
      BY <2>2, ThreadFields DEF Windows, FdRefs, FdInv
    <3>2. f \in FdRefs(b)
      BY <1>3 DEF FdRefs
    <3>3. /\ IsFiniteSet(FdRefs(b) \ {f})
          /\ Cardinality(FdRefs(b) \ {f}) = Cardinality(FdRefs(b)) - 1
      BY <1>c, <3>2, Removed
    <3>4. Cardinality(Windows(b)) <= Cardinality(FdRefs(b)) - 1
      BY <3>1, <3>3, WindowsBound
    <3>. QED
      BY <1>a, <1>b, <1>c, <3>4
  <2>. QED
    BY <2>1, <2>2
<1>. QED
  BY <1>1, <1>2, <1>3

\* What the reference count operations do to a buffer that is in use.
LEMMA GetPutSafe ==
  ASSUME TypeOK, UnexportedInv, ReleasedInv, ~uaf, NEW x \in Buf,
         DmaBufGet(x) \/ DmaBufPut(x), x \in exported
  PROVE  /\ \A b \in Buf : ~uaf' =>
               /\ refcount'[b] >= 0
               /\ b \in exported => (b \in released' <=> refcount'[b] = 0)
         /\ refcount[x] >= 1 => ~uaf'
<1>1. /\ refcount[x] \in Int /\ refcount[x] >= 0
      /\ x \in released <=> refcount[x] = 0
  BY DEF ReleasedInv, TypeOK
<1>2. refcount[x] >= 1 => ~uaf'
  <2>1. refcount[x] >= 1 => x \notin released
    BY <1>1
  <2>2. x \notin released => ~uaf'
    BY Zenon DEF DmaBufGet, DmaBufPut
  <2>. QED
    BY <2>1, <2>2
<1>3. ~uaf' => x \notin released
  BY DEF DmaBufGet, DmaBufPut
<1>4. ASSUME NEW b \in Buf, ~uaf'
      PROVE  refcount'[b] >= 0 /\ (b \in exported => (b \in released' <=> refcount'[b] = 0))
  <2>1. CASE b # x
    <3>1. refcount'[b] = refcount[b] /\ (b \in released' <=> b \in released)
      BY <2>1 DEF DmaBufGet, DmaBufPut, TypeOK
    <3>. QED
      BY <3>1 DEF ReleasedInv
  <2>2. CASE b = x /\ DmaBufGet(x)
    <3>1. refcount'[b] = refcount[b] + 1 /\ released' = released
      BY <2>2 DEF DmaBufGet, TypeOK
    <3>. QED
      BY <1>1, <1>3, <1>4, <2>2, <3>1
  <2>3. CASE b = x /\ DmaBufPut(x)
    <3>1. /\ refcount'[b] = refcount[b] - 1
          /\ released' = IF refcount[b] = 1 THEN released \cup {b} ELSE released
      BY <2>3 DEF DmaBufPut, TypeOK
    <3>. QED
      BY <1>1, <1>3, <1>4, <2>3, <3>1
  <2>. QED
    BY <2>1, <2>2, <2>3
<1>. QED
  BY <1>2, <1>4

\* ReleasedInv and SafeInv hold initially.
LEMMA LifetimeInit == Init => ReleasedInv /\ SafeInv
  BY DEF Init, ReleasedInv, SafeInv

\* Every step of the module keeps ReleasedInv and SafeInv.
LEMMA LifetimeStep ==
  ASSUME IInv, [Next]_vars
  PROVE  ReleasedInv' /\ SafeInv'
<1> USE DEF IInv
<1>e. ~early' => ~early
  BY EarlyStep
<1>1. ASSUME UNCHANGED <<refcount, exported, released, uaf>>
      PROVE  ReleasedInv' /\ SafeInv'
  BY <1>1, <1>e DEF ReleasedInv, SafeInv
\* Every use of a reference count is of a buffer that some owner refers to.
<1>2. ASSUME NEW x \in Buf, DmaBufGet(x) \/ DmaBufPut(x), exported' = exported,
             \/ \E c \in Ctx, h \in Handle : xa[c][h] = x
             \/ \E t \in Thread : th[t].pc = "insert" /\ th[t].buf = x
             \/ \E f \in Fd : fdTable[f] = x
      PROVE  ReleasedInv' /\ SafeInv'
  <2>1. ~uaf
    BY <1>2 DEF DmaBufGet, DmaBufPut
  <2>2. x \in exported
    BY <1>2 DEF UnexportedInv
  <2>3. /\ \A b \in Buf : ~uaf' =>
              /\ refcount'[b] >= 0
              /\ b \in exported => (b \in released' <=> refcount'[b] = 0)
        /\ refcount[x] >= 1 => ~uaf'
    BY <1>2, <2>1, <2>2, GetPutSafe
  <2>4. ~early => refcount[x] >= 1
    BY <1>2, Alive
  <2>5. ReleasedInv'
    BY <1>2, <2>3 DEF ReleasedInv
  <2>. QED
    BY <1>e, <2>3, <2>4, <2>5 DEF SafeInv
<1>3. ASSUME NEW x \in Buf, NEW f \in Fd, Export(x, f) PROVE ReleasedInv' /\ SafeInv'
  <2>1. x \notin released /\ refcount' = [refcount EXCEPT ![x] = 1] /\ released' = released
    BY <1>3 DEF Export, UnexportedInv
  <2>2. exported' = exported \cup {x} /\ uaf' = uaf
    BY <1>3 DEF Export
  <2>. QED
    BY <1>e, <2>1, <2>2 DEF ReleasedInv, SafeInv, TypeOK
<1>4. ASSUME NEW f \in Fd, CloseFd(f) PROVE ReleasedInv' /\ SafeInv'
  <2>1. fdTable[f] \in Buf /\ DmaBufPut(fdTable[f]) /\ exported' = exported
    BY <1>4 DEF CloseFd, TypeOK
  <2>. QED
    BY <1>2, <2>1
<1>5. ASSUME NEW c \in Ctx, KiumdOpen(c) \/ KiumdClose(c) \/ CloseDone(c)
      PROVE  ReleasedInv' /\ SafeInv'
  BY <1>1, <1>5 DEF KiumdOpen, KiumdClose, CloseDone
<1>6. ASSUME NEW c \in Ctx, NEW h \in Handle, ClosePut(c, h) PROVE ReleasedInv' /\ SafeInv'
  <2>1. xa[c][h] \in Buf /\ DmaBufPut(xa[c][h]) /\ exported' = exported
    BY <1>6 DEF ClosePut
  <2>. QED
    BY <1>2, <2>1
<1>7. ASSUME NEW c \in Ctx, NEW h \in Handle, CloseSkip(c, h) PROVE ReleasedInv' /\ SafeInv'
  BY <1>1, <1>7 DEF CloseSkip
<1>8. ASSUME NEW c \in Ctx, NEW h \in Handle, CloseHandle(c, h)
      PROVE  ReleasedInv' /\ SafeInv'
  <2>1. CASE xa[c][h] \in Buf
    <3>1. DmaBufPut(xa[c][h]) /\ exported' = exported
      BY <1>8, <2>1 DEF CloseHandle
    <3>. QED
      BY <1>2, <2>1, <3>1
  <2>2. CASE xa[c][h] \notin Buf
    BY <1>1, <1>8, <2>2 DEF CloseHandle
  <2>. QED
    BY <2>1, <2>2
<1>9. ASSUME NEW t \in Thread, NEW c \in Ctx, NEW f \in Fd, FdToHandleGet(t, c, f)
      PROVE  ReleasedInv' /\ SafeInv'
  <2>1. CASE fdTable[f] # NoBuf
    <3>1. fdTable[f] \in Buf /\ DmaBufGet(fdTable[f]) /\ exported' = exported
      BY <1>9, <2>1 DEF FdToHandleGet, TypeOK
    <3>. QED
      BY <1>2, <3>1
  <2>2. CASE fdTable[f] = NoBuf
    BY <1>1, <1>9, <2>2 DEF FdToHandleGet
  <2>. QED
    BY <2>1, <2>2
<1>10. ASSUME NEW t \in Thread, FdToHandleShare(t) \/ FdToHandleAlloc(t)
       PROVE  ReleasedInv' /\ SafeInv'
  BY <1>1, <1>10 DEF FdToHandleShare, FdToHandleAlloc
<1>11. ASSUME NEW t \in Thread, FdToHandleFail(t) PROVE ReleasedInv' /\ SafeInv'
  <2>1. CASE th[t].buf \in Buf
    <3>1. DmaBufPut(th[t].buf) /\ exported' = exported /\ th[t].pc = "insert"
      BY <1>11, <2>1 DEF FdToHandleFail
    <3>. QED
      BY <1>2, <2>1, <3>1
  <2>2. CASE th[t].buf \notin Buf
    BY <1>1, <1>11, <2>2 DEF FdToHandleFail
  <2>. QED
    BY <2>1, <2>2
<1>12. ASSUME NEW t \in Thread, NEW c \in Ctx, NEW h \in Handle, NEW f \in Fd,
              HandleToFdInstall(t, c, h, f)
       PROVE  ReleasedInv' /\ SafeInv'
  BY <1>1, <1>12 DEF HandleToFdInstall
<1>13. ASSUME NEW t \in Thread, HandleToFdGet(t) PROVE ReleasedInv' /\ SafeInv'
  <2>1. /\ th[t].ctx \in Ctx /\ th[t].handle \in Handle /\ th[t].buf \in Buf
        /\ xa[th[t].ctx][th[t].handle] = th[t].buf
    BY <1>13, ThreadFields DEF HandleToFdGet, TableInv, WindowInv
  <2>2. DmaBufGet(th[t].buf) /\ exported' = exported
    BY <1>13 DEF HandleToFdGet
  <2>. QED
    BY <1>2, <2>1, <2>2
<1>14. CASE UNCHANGED vars
  BY <1>1, <1>14 DEF vars
<1>. QED
  BY <1>3, <1>4, <1>5, <1>6, <1>7, <1>8, <1>9, <1>10, <1>11, <1>12, <1>13, <1>14, Zenon DEF Next

-----------------------------------------------------------------------------
(* The theorems *)

\* The inductive invariant holds initially.
LEMMA InvInit == Init => IInv
  BY TypeInit, TableInit, AccountingInit, UnexportedInit, FdInit, LifetimeInit DEF IInv

\* The inductive invariant is preserved by every step.
LEMMA InvStep == IInv /\ [Next]_vars => IInv'
<1> SUFFICES ASSUME IInv, [Next]_vars PROVE IInv'
  OBVIOUS
<1> USE DEF IInv
<1>1. TypeOK'
  BY TypeStep DEF TableInv
<1>2. TableInv'
  BY TableStep
<1>3. RefAccounting'
  BY AccountingStep
<1>4. UnexportedInv' /\ FdInv'
  BY UnexportedStep, FdStep DEF TableInv
<1>5. ReleasedInv' /\ SafeInv'
  BY LifetimeStep
<1>. QED
  BY <1>1, <1>2, <1>3, <1>4, <1>5

\* The inductive invariant, the conjunction of what the other theorems rest on.
THEOREM Invariance == Spec => []IInv
  BY InvInit, InvStep, PTL DEF Spec

(* Every variable of the handle table keeps its type, handle_refcount         *)
(* between zero and its bound, and a context never has two handles for one    *)
(* buffer, whatever the number of threads that convert descriptors in it.      *)
THEOREM HandlesUnique == Spec => []HandleInv
<1>1. IInv => HandleInv
  BY DEF IInv, TableInv, HandleInv
<1>. QED
  BY <1>1, Invariance, PTL

(* The file count of a dma-buf is the number of its descriptors, handle       *)
(* conversions and calls in flight, less the calls between dma_buf_fd and      *)
(* get_dma_buf, along every path of the handler and of kiumd_close.            *)
THEOREM Accounting == Spec => []RefAccounting
<1>1. IInv => RefAccounting
  BY DEF IInv
<1>. QED
  BY <1>1, Invariance, PTL

\* The inductive invariant keeps the buffers of handles from release.
LEMMA HandlesKeep == IInv => NoUseAfterRelease
<1>1. ASSUME IInv, ~early, NEW c \in Ctx, NEW h \in Handle
      PROVE  xa[c][h] \notin released
  <2>1. CASE xa[c][h] \in Buf
    <3>1. refcount[xa[c][h]] >= 1
      BY <1>1, <2>1, Alive DEF IInv
    <3>2. xa[c][h] \in exported /\ ~uaf
      BY <1>1, <2>1 DEF IInv, UnexportedInv, SafeInv
    <3>. QED
      BY <2>1, <3>1, <3>2, <1>1 DEF IInv, ReleasedInv
  <2>2. CASE xa[c][h] \notin Buf
    BY <1>1, <2>2 DEF IInv, TypeOK
  <2>. QED
    BY <2>1, <2>2
<1>. QED
  BY <1>1 DEF IInv, SafeInv, NoUseAfterRelease

(* A process that closes only descriptors it was given never makes the driver *)
(* use a released buffer, and no handle outlives its buffer.                   *)
THEOREM NoUseAfterReleaseHolds == Spec => []NoUseAfterRelease
  BY HandlesKeep, Invariance, PTL

(* Even when descriptors are closed early, a handle loses its buffer only     *)
(* while a HANDLE_TO_FD call is between dma_buf_fd and get_dma_buf.            *)
THEOREM LostOnlyInWindowHolds == Spec => []LostOnlyInWindow
<1>1. ASSUME IInv, ~uaf, NEW c \in Ctx, NEW h \in Handle, xa[c][h] \in released
      PROVE  Windows(xa[c][h]) # {}
  <2>1. PICK b \in Buf : b = xa[c][h]
    BY <1>1 DEF IInv, TypeOK
  <2>2. b \in exported /\ refcount[b] = 0
    BY <1>1, <2>1 DEF IInv, UnexportedInv, ReleasedInv
  <2>3. Cardinality(HandleRefs(b)) >= 1
    BY <1>1, <2>1, HandleOwns DEF IInv, TableInv
  <2>4. refcount[b] + Cardinality(Windows(b)) =
          Cardinality(FdRefs(b)) + Cardinality(HandleRefs(b)) + Cardinality(InsertRefs(b))
    BY <1>1 DEF IInv, RefAccounting
  <2>5. /\ Cardinality(FdRefs(b)) \in Nat /\ Cardinality(HandleRefs(b)) \in Nat
        /\ Cardinality(InsertRefs(b)) \in Nat /\ Cardinality(Windows(b)) \in Nat
    BY <1>1, OwnersFinite DEF IInv
  <2>6. Cardinality(Windows(b)) # 0
    BY <2>2, <2>3, <2>4, <2>5
  <2>7. Windows(b) # {}
    BY <2>6, FS_EmptySet
  <2>. QED
    BY <2>1, <2>7
<1>2. IInv => LostOnlyInWindow
  BY <1>1 DEF LostOnlyInWindow
<1>. QED
  BY <1>2, Invariance, PTL

(* When every context is closed and no descriptor is left, every buffer has   *)
(* been released: the driver keeps no reference.                              *)
THEOREM NothingLeftHolds == Spec => []NothingLeft
<1>1. ASSUME IInv, ~uaf, \A c \in Ctx : status[c] = "closed",
             \A f \in Fd : fdTable[f] = NoBuf
      PROVE  exported = released
  <2>1. \A t \in Thread : th[t].pc = "idle"
    BY <1>1, ThreadFields DEF IInv, TableInv, MutexInv
  <2>2. ASSUME NEW b \in Buf PROVE refcount[b] = 0
    <3>1. InsertRefs(b) = {} /\ Windows(b) = {}
      BY <2>1 DEF InsertRefs, Windows
    <3>2. FdRefs(b) = {}
      BY <1>1, HandleAssumption DEF FdRefs
    <3>3. HandleRefs(b) = {}
      BY <1>1, HandleAssumption DEF HandleRefs, IInv, TableInv, ClosedInv
    <3>4. refcount[b] + 0 = 0 + 0 + 0
      BY <1>1, <3>1, <3>2, <3>3, FS_EmptySet DEF IInv, RefAccounting
    <3>. QED
      BY <1>1, <3>4 DEF IInv, TypeOK
  <2>. QED
    BY <1>1, <2>2 DEF IInv, TypeOK, ReleasedInv, UnexportedInv
<1>2. IInv => NothingLeft
  BY <1>1 DEF NothingLeft
<1>. QED
  BY <1>2, Invariance, PTL

-----------------------------------------------------------------------------
(* KiumdHandles implements HandleStore: what a step does to the conversions *)

\* The conversions depend on the table only.
LEMMA ConvSame ==
  ASSUME UNCHANGED <<xa, hrc>>
  PROVE  UNCHANGED [c \in Ctx |-> Conversions(c)]
  BY DEF Conversions

\* Slots that name no buffer count for nothing.
LEMMA ConvOther ==
  ASSUME TypeOK, NEW c \in Ctx, NEW h \in Handle, xa[c][h] \notin Buf,
         NEW v, v \notin Buf, NEW n,
         xa' = xa \/ xa' = [xa EXCEPT ![c][h] = v],
         hrc' = [hrc EXCEPT ![c][h] = n]
  PROVE  UNCHANGED [d \in Ctx |-> Conversions(d)]
<1>1. ASSUME NEW d \in Ctx, NEW g \in Handle, NEW b \in Buf, NEW i
      PROVE  xa'[d][g] = b /\ i <= hrc'[d][g] <=> xa[d][g] = b /\ i <= hrc[d][g]
  <2>1. CASE d = c /\ g = h
    BY <2>1 DEF TypeOK
  <2>2. CASE ~(d = c /\ g = h)
    BY <2>2 DEF TypeOK
  <2>. QED
    BY <2>1, <2>2
<1>2. ASSUME NEW d \in Ctx PROVE Conversions(d)' = Conversions(d)
  BY <1>1 DEF Conversions
<1>. QED
  BY <1>2

\* A put takes the last conversion of its handle away.
LEMMA ConvDrop ==
  ASSUME TypeOK, EntryInv, UniqueHandle, NEW c \in Ctx, NEW h \in Handle, xa[c][h] \in Buf,
         hrc' = [hrc EXCEPT ![c][h] = @ - 1],
         xa' = IF hrc[c][h] = 1 THEN [xa EXCEPT ![c][h] = NoEntry] ELSE xa
  PROVE  \E x \in Conversions(c) :
            [d \in Ctx |-> Conversions(d)]' =
                [[d \in Ctx |-> Conversions(d)] EXCEPT ![c] = @ \ {x}]
<1> DEFINE x == <<xa[c][h], hrc[c][h]>>
<1>1. /\ hrc[c][h] \in 1 .. MaxRef /\ NoEntry \notin Buf
      /\ \A d \in Ctx, g \in Handle : hrc[d][g] \in 0 .. MaxRef
  BY HandleAssumption DEF TypeOK, EntryInv
<1>2. x \in Conversions(c)
  BY <1>1 DEF Conversions
<1>3. ASSUME NEW b \in Buf, NEW i \in 1 .. MaxRef
      PROVE  <<b, i>> \in Conversions(c)' <=> <<b, i>> \in Conversions(c) /\ <<b, i>> # x
  <2>1. \A g \in Handle \ {h} : xa'[c][g] = xa[c][g] /\ hrc'[c][g] = hrc[c][g]
    BY DEF TypeOK
  <2>2. /\ hrc'[c][h] = hrc[c][h] - 1
        /\ hrc[c][h] # 1 => xa'[c][h] = xa[c][h]
        /\ hrc[c][h] = 1 => xa'[c][h] = NoEntry
    BY DEF TypeOK
  <2>3. /\ <<b, i>> \in Conversions(c)' <=> \E g \in Handle : xa'[c][g] = b /\ i <= hrc'[c][g]
        /\ <<b, i>> \in Conversions(c) <=> \E g \in Handle : xa[c][g] = b /\ i <= hrc[c][g]
    BY DEF Conversions
  <2>4. CASE b = xa[c][h]
    <3>1. \A g \in Handle : xa[c][g] = b => g = h
      BY <1>1, <2>4 DEF UniqueHandle
    <3>2. <<b, i>> \in Conversions(c) <=> i <= hrc[c][h]
      BY <2>3, <2>4, <3>1
    <3>3. <<b, i>> \in Conversions(c)' <=> i <= hrc[c][h] - 1
      <4>1. \A g \in Handle \ {h} : xa'[c][g] # b
        BY <2>1, <3>1
      <4>2. CASE hrc[c][h] = 1
        BY <1>1, <2>2, <2>3, <4>1, <4>2
      <4>3. CASE hrc[c][h] # 1
        BY <2>2, <2>3, <2>4, <4>1, <4>3
      <4>. QED
        BY <4>2, <4>3
    <3>. QED
      BY <1>1, <2>4, <3>2, <3>3
  <2>5. CASE b # xa[c][h]
    <3>1. xa'[c][h] # b
      BY <1>1, <2>2, <2>5
    <3>. QED
      BY <2>1, <2>3, <2>5, <3>1
  <2>. QED
    BY <2>4, <2>5
<1>4. Conversions(c)' = Conversions(c) \ {x}
  <2>1. Conversions(c) \subseteq Buf \X (1 .. MaxRef) /\ Conversions(c)' \subseteq Buf \X (1 .. MaxRef)
    BY DEF Conversions
  <2>. QED
    BY <1>3, <2>1
<1>5. ASSUME NEW d \in Ctx, d # c PROVE Conversions(d)' = Conversions(d)
  <2>1. \A g \in Handle : xa'[d][g] = xa[d][g] /\ hrc'[d][g] = hrc[d][g]
    BY <1>5 DEF TypeOK
  <2>. QED
    BY <2>1 DEF Conversions
<1>. QED
  BY <1>2, <1>4, <1>5

\* What FD_TO_HANDLE does to the table, found or allocated.
AddConversion(c, b, h) ==
    /\ hrc' = [hrc EXCEPT ![c][h] = @ + 1]
    /\ \/ xa[c][h] = b /\ xa' = xa
       \/ /\ xa[c][h] = NoEntry /\ \A g \in Handle : xa[c][g] # b
          /\ xa' = [xa EXCEPT ![c][h] = b]

\* FD_TO_HANDLE adds a conversion the context did not hold.
LEMMA ConvGrow ==
  ASSUME TypeOK, EntryInv, UniqueHandle, NEW c \in Ctx, NEW h \in Handle, NEW b \in Buf,
         hrc[c][h] + 1 \in 1 .. MaxRef,
         AddConversion(c, b, h)
  PROVE  \E i \in 1 .. MaxRef :
            /\ <<b, i>> \notin Conversions(c)
            /\ [d \in Ctx |-> Conversions(d)]' =
                  [[d \in Ctx |-> Conversions(d)] EXCEPT ![c] = @ \cup {<<b, i>>}]
<1> DEFINE n == hrc[c][h] + 1
<1>1. \A d \in Ctx, g \in Handle : hrc[d][g] \in 0 .. MaxRef
  BY DEF TypeOK
<1>2. /\ \A g \in Handle \ {h} : /\ xa'[c][g] = xa[c][g] /\ hrc'[c][g] = hrc[c][g]
                                 /\ xa[c][g] # b
      /\ hrc'[c][h] = n /\ xa'[c][h] = b
      /\ xa[c][h] # b => hrc[c][h] = 0 /\ xa[c][h] = NoEntry
  BY HandleAssumption DEF TypeOK, UniqueHandle, EntryInv, AddConversion
<1>3. ASSUME NEW a \in Buf, NEW i \in 1 .. MaxRef
      PROVE  /\ <<a, i>> \in Conversions(c)' <=> <<a, i>> \in Conversions(c) \/ <<a, i>> = <<b, n>>
             /\ <<b, n>> \notin Conversions(c)
  <2>1. \A x \in Buf, j \in 1 .. MaxRef :
          /\ <<x, j>> \in Conversions(c)' <=> \E g \in Handle : xa'[c][g] = x /\ j <= hrc'[c][g]
          /\ <<x, j>> \in Conversions(c) <=> \E g \in Handle : xa[c][g] = x /\ j <= hrc[c][g]
    BY DEF Conversions
  <2>2. \A j \in 1 .. MaxRef : <<b, j>> \in Conversions(c) <=> j <= hrc[c][h]
    BY <1>1, <1>2, <2>1
  <2>3. \A j \in 1 .. MaxRef : <<b, j>> \in Conversions(c)' <=> j <= n
    BY <1>2, <2>1
  <2>4. <<b, n>> \notin Conversions(c)
    BY <1>1, <2>2
  <2>5. CASE a = b
    BY <1>1, <2>2, <2>3, <2>4, <2>5
  <2>6. CASE a # b
    <3>1. xa[c][h] # a
      BY <1>2, <2>6, HandleAssumption
    <3>. QED
      BY <1>2, <2>1, <2>4, <2>6, <3>1
  <2>. QED
    BY <2>5, <2>6
<1>4. Conversions(c)' = Conversions(c) \cup {<<b, n>>}
  <2>1. Conversions(c) \subseteq Buf \X (1 .. MaxRef) /\ Conversions(c)' \subseteq Buf \X (1 .. MaxRef)
    BY DEF Conversions
  <2>. QED
    BY <1>3, <2>1
<1>5. ASSUME NEW d \in Ctx, d # c PROVE Conversions(d)' = Conversions(d)
  <2>1. \A g \in Handle : xa'[d][g] = xa[d][g] /\ hrc'[d][g] = hrc[d][g]
    BY <1>5 DEF TypeOK, AddConversion
  <2>. QED
    BY <2>1 DEF Conversions
<1>. QED
  BY <1>3, <1>4, <1>5

-----------------------------------------------------------------------------
(* What a step does to the life of the buffers *)

\* No released buffer has a conversion.
LEMMA ReleasedUnheld ==
  ASSUME NoUseAfterRelease, ~early, NEW b \in released, NEW c \in Ctx, NEW i
  PROVE  <<b, i>> \notin Conversions(c)
  BY DEF NoUseAfterRelease, Conversions

\* A step that only releases buffers, each without a conversion.
LEMMA ReleaseStep ==
  ASSUME NoUseAfterRelease', ~early', exported' = exported, released \subseteq released'
  PROVE  Store!ReleaseUnheld
<1> SUFFICES ASSUME NEW b \in Buf
             PROVE  \/ LifeOf(b)' = LifeOf(b)
                    \/ /\ LifeOf(b) = "live" /\ LifeOf(b)' = "released"
                       /\ \A c \in Ctx, i \in 1 .. MaxRef : <<b, i>> \notin Conversions(c)'
  BY DEF Store!ReleaseUnheld
<1>1. CASE b \in exported /\ b \in released' /\ b \notin released
  <2>1. \A c \in Ctx, h \in Handle : xa'[c][h] # b
    BY <1>1 DEF NoUseAfterRelease
  <2>2. \A c \in Ctx, i \in 1 .. MaxRef : <<b, i>> \notin Conversions(c)'
    BY <2>1 DEF Conversions
  <2>. QED
    BY <1>1, <2>2 DEF LifeOf
<1>2. CASE ~(b \in exported /\ b \in released' /\ b \notin released)
  BY <1>2 DEF LifeOf
<1>. QED
  BY <1>1, <1>2

\* A step of the table that moves no conversion: at most buffers are released.
LEMMA ForgetStep ==
  ASSUME NoUseAfterRelease', ~early, ~early', TypeOK, TypeOK',
         UNCHANGED <<exported, status>>, released \subseteq released',
         UNCHANGED [c \in Ctx |-> Conversions(c)]
  PROVE  Store!StoreNext
<1>1. Store!ReleaseUnheld
  BY ReleaseStep
<1>2. Store!Forget
  BY <1>1 DEF Store!Forget
<1>3. early' = early
  BY DEF TypeOK
<1>. QED
  BY <1>2, <1>3 DEF Store!StoreNext

\* A put of CLOSE_HANDLE or kiumd_close.
LEMMA GiveBackStep ==
  ASSUME NoUseAfterRelease', ~early, ~early', TypeOK, TypeOK', EntryInv, UniqueHandle,
         NEW c \in Ctx, NEW h \in Handle, xa[c][h] \in Buf, status[c] # "closed",
         hrc' = [hrc EXCEPT ![c][h] = @ - 1],
         xa' = IF hrc[c][h] = 1 THEN [xa EXCEPT ![c][h] = NoEntry] ELSE xa,
         UNCHANGED <<exported, status>>, released \subseteq released'
  PROVE  Store!StoreNext
<1>1. Store!ReleaseUnheld
  BY ReleaseStep
<1>2. PICK x \in Conversions(c) :
         [d \in Ctx |-> Conversions(d)]' =
             [[d \in Ctx |-> Conversions(d)] EXCEPT ![c] = @ \ {x}]
  BY ConvDrop
<1>3. Store!GiveBack
  BY <1>1, <1>2 DEF Store!GiveBack
<1>4. early' = early
  BY DEF TypeOK
<1>. QED
  BY <1>3, <1>4 DEF Store!StoreNext

\* FD_TO_HANDLE converts a descriptor of a buffer.
LEMMA ConvertStep ==
  ASSUME IInv, ~early, ~early', TypeOK', NEW t \in Thread, NEW c \in Ctx, NEW b \in Buf,
         th[t].pc = "insert", th[t].ctx = c, th[t].buf = b,
         NEW h \in Handle, AddConversion(c, b, h),
         UNCHANGED <<exported, status, released>>
  PROVE  Store!StoreNext
<1>1. TypeOK /\ EntryInv /\ UniqueHandle /\ MutexInv /\ BoundInv
  BY DEF IInv, TableInv
<1>2. status[c] = "open"
  BY <1>1 DEF MutexInv
<1>3. hrc[c][h] + 1 \in 1 .. MaxRef
  BY <1>1, HandleAssumption DEF BoundInv, TypeOK
<1>4. LifeOf(b) = "live"
  <2>1. refcount[b] >= 1
    BY Alive DEF IInv
  <2>2. b \in exported /\ ~uaf
    BY DEF IInv, UnexportedInv, SafeInv
  <2>3. b \notin released
    BY <2>1, <2>2 DEF IInv, ReleasedInv
  <2>. QED
    BY <2>2, <2>3 DEF LifeOf
<1>5. PICK i \in 1 .. MaxRef :
         /\ <<b, i>> \notin Conversions(c)
         /\ [d \in Ctx |-> Conversions(d)]' =
               [[d \in Ctx |-> Conversions(d)] EXCEPT ![c] = @ \cup {<<b, i>>}]
  BY <1>1, <1>3, ConvGrow
<1>6. UNCHANGED [a \in Buf |-> LifeOf(a)]
  BY DEF LifeOf
<1>7. Store!Convert
  <2> DEFINE K == [d \in Ctx |-> Conversions(d)]
             L == [a \in Buf |-> LifeOf(a)]
  <2>1. status[c] = "open" /\ L[b] = "live" /\ <<b, i>> \notin K[c] /\ i \in 1 .. MaxRef
    BY <1>2, <1>4, <1>5
  <2>2. K' = [K EXCEPT ![c] = @ \cup {<<b, i>>}]
    BY <1>5
  <2>3. UNCHANGED <<L, status>>
    BY <1>6
  <2>4. Store!Convert <=>
          /\ \E e \in Ctx, a \in Buf, j \in 1 .. MaxRef :
                /\ status[e] = "open" /\ L[a] = "live" /\ <<a, j>> \notin K[e]
                /\ K' = [K EXCEPT ![e] = @ \cup {<<a, j>>}]
          /\ UNCHANGED <<L, status>>
    BY DEF Store!Convert
  <2> HIDE DEF K, L
  <2>. QED
    BY <2>1, <2>2, <2>3, <2>4
<1>8. early' = early
  BY <1>1 DEF TypeOK
<1>. QED
  BY <1>7, <1>8 DEF Store!StoreNext

-----------------------------------------------------------------------------
(* The steps of the module *)

\* A reference count operation only adds to the released buffers.
LEMMA PutReleases ==
  ASSUME NEW b, DmaBufGet(b) \/ DmaBufPut(b)
  PROVE  released \subseteq released'
  BY DEF DmaBufGet, DmaBufPut

\* The process and the heaps.
LEMMA OutsideSteps ==
  ASSUME IInv, IInv', NoUseAfterRelease', ~early, ~early',
         NEW f \in Fd, (\E b \in Buf : Export(b, f)) \/ CloseFd(f)
  PROVE  Store!StoreNext
<1>1. TypeOK /\ TypeOK'
  BY DEF IInv
<1>2. ASSUME NEW b \in Buf, Export(b, f) PROVE Store!StoreNext
  <2>1. [a \in Buf |-> LifeOf(a)]' = [[a \in Buf |-> LifeOf(a)] EXCEPT ![b] = "live"]
    BY <1>2 DEF Export, LifeOf, IInv, UnexportedInv
  <2>2. LifeOf(b) = "absent"
    BY <1>2 DEF Export, LifeOf
  <2>3. UNCHANGED [c \in Ctx |-> Conversions(c)] /\ UNCHANGED <<status, early>>
    BY <1>2, ConvSame DEF Export
  <2>. QED
    BY <2>1, <2>2, <2>3 DEF Store!Create, Store!StoreNext
<1>3. ASSUME CloseFd(f) PROVE Store!StoreNext
  <2>1. UNCHANGED <<exported, status, xa, hrc>> /\ released \subseteq released'
    BY <1>3, PutReleases DEF CloseFd
  <2>. QED
    BY <1>1, <2>1, ConvSame, ForgetStep
<1>. QED
  BY <1>2, <1>3

\* open and release of a file.
LEMMA FileSteps ==
  ASSUME IInv, IInv', ~early, NEW c \in Ctx,
         KiumdOpen(c) \/ KiumdClose(c) \/ CloseDone(c)
  PROVE  Store!StoreNext
<1>1. UNCHANGED <<exported, released, xa, hrc, early>>
  BY DEF KiumdOpen, KiumdClose, CloseDone
<1>2. /\ UNCHANGED [b \in Buf |-> LifeOf(b)]
      /\ UNCHANGED [d \in Ctx |-> Conversions(d)]
  BY <1>1, ConvSame DEF LifeOf
<1>3. \/ status[c] = "closed" /\ status' = [status EXCEPT ![c] = "open"]
      \/ status[c] = "open" /\ status' = [status EXCEPT ![c] = "closing"]
      \/ /\ status[c] = "closing" /\ Conversions(c) = {}
         /\ status' = [status EXCEPT ![c] = "closed"]
  BY HandleAssumption DEF KiumdOpen, KiumdClose, CloseDone, Conversions
<1>4. Store!OpenOrClose
  BY <1>2, <1>3 DEF Store!OpenOrClose
<1>. QED
  BY <1>1, <1>4 DEF Store!StoreNext

\* kiumd_close and CLOSE_HANDLE on one entry.
LEMMA EntrySteps ==
  ASSUME IInv, IInv', NoUseAfterRelease', ~early, ~early', NEW c \in Ctx, NEW h \in Handle,
         ClosePut(c, h) \/ CloseSkip(c, h) \/ CloseHandle(c, h)
  PROVE  Store!StoreNext
<1>1. TypeOK /\ TypeOK' /\ EntryInv /\ UniqueHandle
  BY DEF IInv, TableInv
<1>2. UNCHANGED <<exported, status>> /\ status[c] # "closed" /\ released \subseteq released'
  BY PutReleases DEF ClosePut, CloseSkip, CloseHandle
<1>3. CASE xa[c][h] \in Buf
  <2>1. /\ hrc' = [hrc EXCEPT ![c][h] = @ - 1]
        /\ xa' = IF hrc[c][h] = 1 THEN [xa EXCEPT ![c][h] = NoEntry] ELSE xa
    BY <1>3, HandleAssumption DEF ClosePut, CloseSkip, CloseHandle
  <2>. QED
    BY <1>1, <1>2, <1>3, <2>1, GiveBackStep
<1>4. CASE xa[c][h] \notin Buf
  <2>1. /\ xa' = xa \/ xa' = [xa EXCEPT ![c][h] = NoEntry]
        /\ \E n \in {0, hrc[c][h] - 1} : hrc' = [hrc EXCEPT ![c][h] = n]
    BY <1>4 DEF ClosePut, CloseSkip, CloseHandle
  <2>2. UNCHANGED [d \in Ctx |-> Conversions(d)]
    BY <1>1, <1>4, <2>1, ConvOther, HandleAssumption
  <2>. QED
    BY <1>1, <1>2, <2>2, ForgetStep
<1>. QED
  BY <1>3, <1>4

\* FD_TO_HANDLE in the table: a buffer is converted, an error pointer is not.
LEMMA InsertSteps ==
  ASSUME IInv, IInv', NoUseAfterRelease', ~early, ~early', NEW t \in Thread,
         FdToHandleShare(t) \/ FdToHandleAlloc(t)
  PROVE  Store!StoreNext
<1>1. TypeOK /\ TypeOK' /\ EntryInv
  BY DEF IInv, TableInv
<1>2. /\ th[t].pc = "insert" /\ th[t].ctx \in Ctx /\ th[t].buf \in Buf \cup {ErrPtr}
      /\ UNCHANGED <<exported, status, released>>
  BY <1>1, ThreadFields DEF FdToHandleShare, FdToHandleAlloc
<1>3. PICK c \in Ctx, b \in Buf \cup {ErrPtr} : th[t].ctx = c /\ th[t].buf = b
  BY <1>2
<1>4. PICK h \in Handle : AddConversion(c, b, h)
  <2>1. CASE FdToHandleShare(t)
    BY <1>3, <2>1 DEF FdToHandleShare, First, AddConversion
  <2>2. CASE FdToHandleAlloc(t)
    <3>1. PICK h \in Handle :
             /\ xa[c][h] = NoEntry /\ xa' = [xa EXCEPT ![c][h] = b]
             /\ hrc' = [hrc EXCEPT ![c][h] = 1]
      BY <1>3, <2>2 DEF FdToHandleAlloc, First
    <3>2. hrc[c][h] = 0 /\ \A g \in Handle : xa[c][g] # b
      BY <1>1, <1>3, <2>2, <3>1 DEF EntryInv, FdToHandleAlloc
    <3>3. hrc' = [hrc EXCEPT ![c][h] = @ + 1]
      BY <3>1, <3>2
    <3>. QED
      BY <3>1, <3>2, <3>3 DEF AddConversion
  <2>. QED
    BY <2>1, <2>2
<1>5. CASE b \in Buf
  BY <1>1, <1>2, <1>3, <1>4, <1>5, ConvertStep
<1>6. CASE b = ErrPtr
  <2>1. /\ ErrPtr \notin Buf /\ xa[c][h] \notin Buf
        /\ xa' = xa \/ xa' = [xa EXCEPT ![c][h] = b]
        /\ hrc' = [hrc EXCEPT ![c][h] = hrc[c][h] + 1]
    BY <1>4, <1>6, HandleAssumption DEF AddConversion
  <2>2. UNCHANGED [d \in Ctx |-> Conversions(d)]
    BY <1>1, <1>6, <2>1, ConvOther
  <2>. QED
    BY <1>1, <1>2, <2>2, ForgetStep
<1>. QED
  BY <1>5, <1>6

\* The steps of the handler that leave the table alone.
LEMMA OtherSteps ==
  ASSUME IInv, IInv', NoUseAfterRelease', ~early, ~early', NEW t \in Thread,
         \/ \E c \in Ctx, f \in Fd : FdToHandleGet(t, c, f)
         \/ FdToHandleFail(t) \/ HandleToFdGet(t)
         \/ \E c \in Ctx, h \in Handle, f \in Fd : HandleToFdInstall(t, c, h, f)
  PROVE  Store!StoreNext
<1>1. UNCHANGED <<exported, status, xa, hrc>> /\ released \subseteq released'
  BY PutReleases DEF FdToHandleGet, FdToHandleFail, HandleToFdGet, HandleToFdInstall
<1>2. TypeOK /\ TypeOK'
  BY DEF IInv
<1>. QED
  BY <1>1, <1>2, ConvSame, ForgetStep

\* A step of KiumdHandles is a step of HandleStore, or changes none of its
\* variables.
LEMMA StoreStep ==
  IInv /\ IInv' /\ NoUseAfterRelease' /\ [Next]_vars => [Store!StoreNext]_(Store!storeVars)
<1> SUFFICES ASSUME IInv, IInv', NoUseAfterRelease', [Next]_vars
             PROVE  [Store!StoreNext]_(Store!storeVars)
  OBVIOUS
<1>1. CASE early'
  BY <1>1 DEF Store!StoreNext
<1>2. CASE UNCHANGED vars
  <2>1. UNCHANGED <<exported, released, status, xa, hrc, early>>
    BY <1>2 DEF vars
  <2>. QED
    BY <2>1, ConvSame DEF LifeOf, Store!storeVars
<1>3. CASE Next /\ ~early'
  <2>e. ~early
    BY EarlyStep, <1>3
  <2>1. ASSUME NEW b \in Buf, NEW f \in Fd, Export(b, f) PROVE Store!StoreNext
    BY <1>3, <2>e, <2>1, OutsideSteps
  <2>2. ASSUME NEW f \in Fd, CloseFd(f) PROVE Store!StoreNext
    BY <1>3, <2>e, <2>2, OutsideSteps
  <2>3. ASSUME NEW c \in Ctx, KiumdOpen(c) \/ KiumdClose(c) \/ CloseDone(c)
        PROVE  Store!StoreNext
    BY <2>e, <2>3, FileSteps
  <2>4. ASSUME NEW c \in Ctx, NEW h \in Handle,
               ClosePut(c, h) \/ CloseSkip(c, h) \/ CloseHandle(c, h)
        PROVE  Store!StoreNext
    BY <1>3, <2>e, <2>4, EntrySteps
  <2>5. ASSUME NEW t \in Thread, FdToHandleShare(t) \/ FdToHandleAlloc(t)
        PROVE  Store!StoreNext
    BY <1>3, <2>e, <2>5, InsertSteps
  <2>6. ASSUME NEW t \in Thread,
               \/ \E c \in Ctx, f \in Fd : FdToHandleGet(t, c, f)
               \/ FdToHandleFail(t) \/ HandleToFdGet(t)
               \/ \E c \in Ctx, h \in Handle, f \in Fd : HandleToFdInstall(t, c, h, f)
        PROVE  Store!StoreNext
    BY <1>3, <2>e, <2>6, OtherSteps
  <2>. QED
    BY <1>3, <2>1, <2>2, <2>3, <2>4, <2>5, <2>6, Zenon DEF Next
<1>. QED
  BY <1>1, <1>2, <1>3

\* The initial states map to an initial state of the store.
LEMMA StoreStart == Init => Store!StoreInit
<1> SUFFICES ASSUME Init PROVE Store!StoreInit
  OBVIOUS
<1>1. \A b \in Buf : LifeOf(b) = "absent"
  BY DEF Init, LifeOf
<1>2. \A c \in Ctx : Conversions(c) = {}
  BY HandleAssumption DEF Init, Conversions
<1>. QED
  BY <1>1, <1>2 DEF Init, Store!StoreInit

(* The handles of kiumd implement the store: to a process that closes only     *)
(* descriptors it was given, a buffer held in any context is not released,       *)
(* conversions are given back one by one, and a closed context holds nothing.    *)
THEOREM StoreImplemented == Spec => StorePromise
<1>1. IInv => NoUseAfterRelease
  BY HandlesKeep
<1>. QED
  BY <1>1, StoreStart, StoreStep, Invariance, PTL DEF Spec, StorePromise, Store!StoreSpec

=============================================================================
