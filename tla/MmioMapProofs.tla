--------------------------- MODULE MmioMapProofs ---------------------------
(***************************************************************************)
(* Registers mapped through KIUMD, for every number of threads, files, map  *)
(* calls and pages: what is mapped can be unmapped, the cookie of the       *)
(* device is put back, and an entry is mapped, a fixed one where it was     *)
(* asked for less the unmappings that moved the cookie's address meanwhile. *)
(***************************************************************************)
EXTENDS MmioMap, TLAPS

SlotType == [mem : {"none", "call", "hashed", "freed"}, ctx : Ctx \cup {None},
             fixed : BOOLEAN, req : Iova, iova : Iova]

ThType == [pc : {"idle"} \cup MapPcs \cup UnmapPcs, n : 0 .. MaxMap,
           iova : Int, err : BOOLEAN]

\* What the call of a thread says of its entry and of the cookie's mutex.
ThreadOf(t) ==
    LET n == th[t].n IN
    /\ n <= calls
    /\ th[t].pc = "idle" <=> n = 0
    /\ th[t].pc \in {"set", "alloc", "map", "reset", "hash"} => slot[n].mem = "call"
    /\ th[t].pc \in {"copy", "del"} /\ ~th[t].err =>
          /\ slot[n].mem \in {"hashed", "freed"}
          /\ slot[n].mem = "hashed" => slot[n].iova = th[t].iova
    /\ th[t].pc = "del" /\ th[t].err => slot[n].mem = "call"
    /\ th[t].pc \in UnmapPcs => slot[n].mem \in {"hashed", "freed"}
    /\ th[t].pc \in {"set", "reset"} => slot[n].fixed
    /\ mutex = t <=> th[t].pc \in {"alloc", "map", "reset"} /\ slot[n].fixed
    /\ th[t].err => th[t].pc \in {"reset", "del"}
    /\ th[t].pc \in {"reset", "hash"} /\ ~th[t].err => th[t].iova \in Iova

\* Entries that no call has begun are unused, and a map call has one thread.
Unbegun == \A n \in Slot : n > calls => slot[n].mem = "none"
OneMapper ==
    \A t, u \in Thread :
        th[t].pc \in MapPcs /\ th[u].pc \in MapPcs /\ th[t].n = th[u].n => t = u

\* A file stays open while a call of it runs.
InOpen == \A t \in Thread : th[t].n # 0 => slot[th[t].n].ctx \in open

\* The cookie is an MSI cookie while the mutex is held.
MsiInMutex == mutex # None => cookie.type = "msi"

\* Calls whose entry has no page: not mapped yet, refused, or unmapped already.
Unplaced(t) ==
    \/ th[t].pc \in {"set", "alloc", "map", "del", "remove"}
    \/ th[t].pc = "reset" /\ th[t].err

UnplacedFree == ~bad => \A t \in Thread : Unplaced(t) => \A i \in Iova : table[i] # th[t].n

\* A careful process: an entry is in the hands of one thread, fixed and free maps do not
\* meet, and a fixed map takes the address it has put into the cookie, or one as far below
\* it as others have moved it.
Placed(t) == th[t].pc = "hash" \/ (th[t].pc = "reset" /\ ~th[t].err)

CarefulOf(t) ==
    LET n == th[t].n IN
    /\ th[t].pc \in {"copy"} \cup UnmapPcs => slot[n].mem = "hashed"
    /\ th[t].pc = "del" => slot[n].mem # "freed"
    /\ Placed(t) => table[th[t].iova] = n
    /\ th[t].pc = "alloc" /\ slot[n].fixed => cookie.msi = slot[n].req - pulled[n]
    /\ (th[t].pc = "map" \/ Placed(t)) /\ slot[n].fixed => th[t].iova = slot[n].req - pulled[n]

CarefulInv ==
    careful =>
        /\ ~bad
        /\ \A t, u \in Thread : th[t].n = th[u].n /\ th[t].n # 0 => t = u
        /\ \A t, u \in Thread :
              th[t].pc \in MapPcs /\ th[u].pc \in MapPcs => slot[th[t].n].fixed = slot[th[u].n].fixed
        /\ \A t \in Thread : CarefulOf(t)

IInv ==
    /\ TypeOK
    /\ \A t \in Thread : ThreadOf(t)
    /\ Unbegun /\ OneMapper /\ InOpen
    /\ CookieRestored /\ MsiInMutex
    /\ MappedOwned /\ UnplacedFree
    /\ CarefulInv /\ EntryPlaced

\* The numbers of the calls.
LEMMA Numbers ==
    ASSUME TypeOK, NEW u \in Thread, ThreadOf(u)
    PROVE  /\ calls \in Nat /\ th[u].n \in Nat /\ th[u].n <= calls /\ th[u].n # calls + 1
           /\ th[u].n # 0 => th[u].n \in Slot
<1>1. calls \in Nat /\ th[u].n \in Nat /\ MaxMap \in Nat /\ th[u].n <= MaxMap
  BY MmioAssumption DEF TypeOK
<1>2. th[u].n <= calls
  BY DEF ThreadOf
<1> QED
  BY <1>1, <1>2 DEF Slot

\* A thread that a step leaves alone, with its entry.
LEMMA OtherThread ==
    ASSUME TypeOK, NEW u \in Thread, ThreadOf(u), th'[u] = th[u], calls' \in {calls, calls + 1},
           th[u].n # 0 => slot'[th[u].n] = slot[th[u].n], mutex' = u <=> mutex = u
    PROVE  ThreadOf(u)'
<1>1. th[u].n <= calls'
  BY Numbers
<1>2. CASE th[u].n = 0
  BY <1>1, <1>2 DEF ThreadOf, UnmapPcs
<1>3. CASE th[u].n # 0
  BY <1>1, <1>3 DEF ThreadOf
<1> QED
  BY <1>2, <1>3

\* A thread whose call has returned.
LEMMA IdleThread ==
    ASSUME NEW t \in Thread, th'[t] = Idle, mutex' # t, calls' \in Nat
    PROVE  ThreadOf(t)'
<1>1. th'[t].pc = "idle" /\ th'[t].n = 0 /\ th'[t].err = FALSE
  BY DEF Idle
<1>2. ~(th'[t].pc \in {"alloc", "map", "reset"})
  BY <1>1
<1> QED
  BY <1>1, <1>2 DEF ThreadOf, UnmapPcs

\* Every step keeps what a thread's call says of its entry and of the mutex.
LEMMA ThreadsKept ==
    ASSUME IInv, Next
    PROVE  \A u \in Thread : ThreadOf(u)'
<1>a. TypeOK /\ Unbegun /\ OneMapper /\ InOpen /\ \A u \in Thread : ThreadOf(u)
  BY DEF IInv
<1>1. ASSUME NEW t \in Thread, NEW c \in Ctx, NEW fixed \in BOOLEAN, NEW req \in Iova, MapStart(t, c, fixed, req)
      PROVE  \A u \in Thread : ThreadOf(u)'
  <2> SUFFICES ASSUME NEW u \in Thread PROVE ThreadOf(u)'
    OBVIOUS
  <2>1. CASE u = t
    <3>1. th'[t] = [Idle EXCEPT !.n = calls + 1, !.pc = IF fixed THEN "set" ELSE "alloc"]
      BY <1>1, <1>a DEF MapStart, TypeOK
    <3>2. th'[t].pc = (IF fixed THEN "set" ELSE "alloc") /\ th'[t].n = calls + 1 /\ th'[t].err = FALSE
      BY <3>1 DEF Idle
    <3>3. calls + 1 \in Slot /\ calls' = calls + 1 /\ calls' # 0
      BY <1>1, <1>a, MmioAssumption DEF MapStart, TypeOK, Slot
    <3>4. slot'[calls + 1].mem = "call" /\ (slot'[calls + 1].fixed <=> fixed)
      BY <1>1, <1>a, <3>3 DEF MapStart, TypeOK, NewSlot
    <3>5. mutex' = mutex /\ mutex # t
      BY <1>1, <1>a DEF MapStart, ThreadOf, Idle
    <3> QED
      BY <2>1, <3>2, <3>3, <3>4, <3>5 DEF ThreadOf, UnmapPcs
  <2>2. CASE u # t
    <3>1. th'[u] = th[u] /\ calls' = calls + 1 /\ mutex' = mutex
      BY <1>1, <1>a, <2>2 DEF MapStart, TypeOK
    <3>2. th[u].n # 0 => slot'[th[u].n] = slot[th[u].n]
      BY <1>1, <1>a, Numbers DEF MapStart, TypeOK
    <3> QED
      BY <1>a, <3>1, <3>2, OtherThread
  <2> QED
    BY <2>1, <2>2
<1>2. ASSUME NEW t \in Thread, MapReject(t)
      PROVE  \A u \in Thread : ThreadOf(u)'
  <2> SUFFICES ASSUME NEW u \in Thread PROVE ThreadOf(u)'
    OBVIOUS
  <2>1. CASE u = t
    <3>1. th'[t] = Idle /\ calls' \in Nat
      BY <1>2, <1>a, MmioAssumption DEF MapReject, Return, Misuse, TypeOK
    <3>2. mutex' # t
      BY <1>2, <1>a, MmioAssumption DEF MapReject, Misuse, ThreadOf
    <3> QED
      BY <2>1, <3>1, <3>2, IdleThread
  <2>2. CASE u # t
    <3>1. th'[u] = th[u] /\ calls' = calls /\ mutex' = mutex
      BY <1>2, <1>a, <2>2 DEF MapReject, Return, TypeOK
    <3>2. th[u].n # 0 => th[u].n # th[t].n
      <4>1. slot[th[t].n].mem = "call" /\ th[t].pc \in MapPcs
        BY <1>2, <1>a DEF MapReject, ThreadOf, MapPcs
      <4>2. th[u].n # 0 => th[u].pc \in MapPcs \cup UnmapPcs
        BY <1>a DEF ThreadOf, TypeOK
      <4> QED
        BY <1>a, <2>2, <4>1, <4>2 DEF ThreadOf, OneMapper
    <3>3. th[u].n # 0 => slot'[th[u].n] = slot[th[u].n]
      BY <1>2, <1>a, <3>2, Numbers DEF MapReject, TypeOK
    <3> QED
      BY <1>a, <3>1, <3>3, OtherThread
  <2> QED
    BY <2>1, <2>2
<1>3. ASSUME NEW t \in Thread, MapSetCookie(t)
      PROVE  \A u \in Thread : ThreadOf(u)'
  <2> SUFFICES ASSUME NEW u \in Thread PROVE ThreadOf(u)'
    OBVIOUS
  <2>1. CASE u = t
    <3>1. /\ th'[t] = [th[t] EXCEPT !.pc = "alloc"] /\ th[t].pc = "set"
          /\ UNCHANGED <<calls, slot>> /\ mutex' = t
      BY <1>3, <1>a DEF MapSetCookie, Goto, TypeOK
    <3>2. th'[t].pc = "alloc" /\ th'[t].n = th[t].n /\ (th'[t].err <=> th[t].err)
      BY <1>a, <3>1 DEF TypeOK
    <3> QED
      BY <1>a, <2>1, <3>1, <3>2 DEF ThreadOf, UnmapPcs
  <2>2. CASE u # t
    BY <1>3, <1>a, <2>2, MmioAssumption DEF MapSetCookie, Goto, Return, UnmapResource, FreeIova, Misuse, TypeOK, ThreadOf, Idle, NewSlot, Slot, Iova, MapPcs, UnmapPcs, OneMapper, Unbegun
  <2> QED
    BY <2>1, <2>2
<1>4. ASSUME NEW t \in Thread, MapAllocMsi(t)
      PROVE  \A u \in Thread : ThreadOf(u)'
  <2> SUFFICES ASSUME NEW u \in Thread PROVE ThreadOf(u)'
    OBVIOUS
  <2>1. CASE u = t
    BY <1>4, <1>a, <2>1, MmioAssumption DEF MapAllocMsi, Goto, Return, UnmapResource, FreeIova, Misuse, TypeOK, ThreadOf, Idle, NewSlot, Slot, Iova, MapPcs, UnmapPcs
  <2>2. CASE u # t
    BY <1>4, <1>a, <2>2, MmioAssumption DEF MapAllocMsi, Goto, Return, UnmapResource, FreeIova, Misuse, TypeOK, ThreadOf, Idle, NewSlot, Slot, Iova, MapPcs, UnmapPcs, OneMapper, Unbegun
  <2> QED
    BY <2>1, <2>2
<1>5. ASSUME NEW t \in Thread, MapAllocIova(t)
      PROVE  \A u \in Thread : ThreadOf(u)'
  <2> SUFFICES ASSUME NEW u \in Thread PROVE ThreadOf(u)'
    OBVIOUS
  <2>1. CASE u = t
    <3>1. th[t].pc = "alloc" /\ UNCHANGED <<calls, slot, mutex>>
          /\ \E i \in Iova : th' = [th EXCEPT ![t].iova = i, ![t].pc = "map"]
      BY <1>5 DEF MapAllocIova
    <3>2. th'[t].pc = "map" /\ th'[t].n = th[t].n /\ (th'[t].err <=> th[t].err)
      BY <1>a, <3>1 DEF TypeOK
    <3> QED
      BY <1>a, <2>1, <3>1, <3>2 DEF ThreadOf, UnmapPcs
  <2>2. CASE u # t
    <3>1. th'[u] = th[u] /\ UNCHANGED <<calls, mutex, slot>>
      BY <1>5, <1>a, <2>2 DEF MapAllocIova, TypeOK
    <3> QED
      BY <1>a, <3>1, OtherThread
  <2> QED
    BY <2>1, <2>2
<1>6. ASSUME NEW t \in Thread, MapTable(t)
      PROVE  \A u \in Thread : ThreadOf(u)'
  <2> SUFFICES ASSUME NEW u \in Thread PROVE ThreadOf(u)'
    OBVIOUS
  <2>1. CASE u = t
    BY <1>6, <1>a, <2>1, MmioAssumption DEF MapTable, Goto, Return, UnmapResource, FreeIova, Misuse, TypeOK, ThreadOf, Idle, NewSlot, Slot, Iova, MapPcs, UnmapPcs
  <2>2. CASE u # t
    BY <1>6, <1>a, <2>2, MmioAssumption DEF MapTable, Goto, Return, UnmapResource, FreeIova, Misuse, TypeOK, ThreadOf, Idle, NewSlot, Slot, Iova, MapPcs, UnmapPcs, OneMapper, Unbegun
  <2> QED
    BY <2>1, <2>2
<1>7. ASSUME NEW t \in Thread, MapTableFail(t)
      PROVE  \A u \in Thread : ThreadOf(u)'
  <2> SUFFICES ASSUME NEW u \in Thread PROVE ThreadOf(u)'
    OBVIOUS
  <2>1. CASE u = t
    BY <1>7, <1>a, <2>1, MmioAssumption DEF MapTableFail, Goto, Return, UnmapResource, FreeIova, Misuse, TypeOK, ThreadOf, Idle, NewSlot, Slot, Iova, MapPcs, UnmapPcs
  <2>2. CASE u # t
    BY <1>7, <1>a, <2>2, MmioAssumption DEF MapTableFail, Goto, Return, UnmapResource, FreeIova, Misuse, TypeOK, ThreadOf, Idle, NewSlot, Slot, Iova, MapPcs, UnmapPcs, OneMapper, Unbegun
  <2> QED
    BY <2>1, <2>2
<1>8. ASSUME NEW t \in Thread, MapResetCookie(t)
      PROVE  \A u \in Thread : ThreadOf(u)'
  <2> SUFFICES ASSUME NEW u \in Thread PROVE ThreadOf(u)'
    OBVIOUS
  <2>1. CASE u = t
    BY <1>8, <1>a, <2>1, MmioAssumption DEF MapResetCookie, Goto, Return, UnmapResource, FreeIova, Misuse, TypeOK, ThreadOf, Idle, NewSlot, Slot, Iova, MapPcs, UnmapPcs
  <2>2. CASE u # t
    BY <1>8, <1>a, <2>2, MmioAssumption DEF MapResetCookie, Goto, Return, UnmapResource, FreeIova, Misuse, TypeOK, ThreadOf, Idle, NewSlot, Slot, Iova, MapPcs, UnmapPcs, OneMapper, Unbegun
  <2> QED
    BY <2>1, <2>2
<1>9. ASSUME NEW t \in Thread, MapHash(t)
      PROVE  \A u \in Thread : ThreadOf(u)'
  <2> DEFINE n == th[t].n
  <2>1. n \in Slot /\ slot[n].mem = "call" /\ th[t].iova \in Iova /\ ~th[t].err
    <3>1. th[t].pc = "hash" /\ ThreadOf(t)
      BY <1>9, <1>a DEF MapHash
    <3> QED
      BY <1>a, <3>1, Numbers DEF ThreadOf
  <2>2. /\ slot'[n].mem = "hashed" /\ slot'[n].iova = th[t].iova /\ slot'[n].fixed = slot[n].fixed
        /\ \A m \in Slot : m # n => slot'[m] = slot[m]
    BY <1>9, <1>a, <2>1 DEF MapHash, TypeOK
  <2>3. th'[t] = [th[t] EXCEPT !.pc = "copy"] /\ \A u \in Thread : u # t => th'[u] = th[u]
    BY <1>9, <1>a DEF MapHash, Goto, TypeOK
  <2>4. th'[t].pc = "copy" /\ th'[t].n = n /\ th'[t].iova = th[t].iova /\ (th'[t].err <=> th[t].err)
    BY <1>a, <2>3 DEF TypeOK
  <2>5. UNCHANGED <<calls, mutex>> /\ mutex # t /\ n <= calls /\ n # 0
    BY <1>9, <1>a, <2>1 DEF MapHash, ThreadOf, Slot
  <2>6. ThreadOf(t)'
    BY <2>1, <2>2, <2>4, <2>5 DEF ThreadOf, UnmapPcs
  <2>7. ASSUME NEW u \in Thread, u # t PROVE ThreadOf(u)'
    <3>1. th'[u] = th[u] /\ ThreadOf(u)
      BY <1>a, <2>3, <2>7
    <3>2. CASE th[u].n = n
      <4>1. th[u].pc \notin MapPcs
        BY <1>9, <1>a, <2>7, <3>2 DEF MapHash, OneMapper, MapPcs
      <4>2. th[u].pc \notin UnmapPcs /\ th[u].pc # "idle"
        BY <2>1, <2>5, <3>1, <3>2 DEF ThreadOf
      <4> QED
        BY <1>a, <4>1, <4>2 DEF TypeOK
    <3>3. CASE th[u].n # n
      <4>1. th[u].n = 0 \/ slot'[th[u].n] = slot[th[u].n]
        BY <1>a, <2>2, <3>3 DEF TypeOK, Slot
      <4> QED
        BY <2>5, <3>1, <4>1 DEF ThreadOf, UnmapPcs
    <3> QED
      BY <3>2, <3>3
  <2> QED
    BY <2>6, <2>7
<1>10. ASSUME NEW t \in Thread, MapReturn(t)
      PROVE  \A u \in Thread : ThreadOf(u)'
  <2> SUFFICES ASSUME NEW u \in Thread PROVE ThreadOf(u)'
    OBVIOUS
  <2>1. CASE u = t
    <3>1. th'[t] = Idle /\ calls' \in Nat
      BY <1>10, <1>a, MmioAssumption DEF MapReturn, Return, Misuse, TypeOK
    <3>2. mutex' # t
      BY <1>10, <1>a, MmioAssumption DEF MapReturn, Misuse, ThreadOf
    <3> QED
      BY <2>1, <3>1, <3>2, IdleThread
  <2>2. CASE u # t
    BY <1>10, <1>a, <2>2, MmioAssumption DEF MapReturn, Goto, Return, UnmapResource, FreeIova, Misuse, TypeOK, ThreadOf, Idle, NewSlot, Slot, Iova, MapPcs, UnmapPcs, OneMapper, Unbegun
  <2> QED
    BY <2>1, <2>2
<1>11. ASSUME NEW t \in Thread, MapCopyFail(t)
      PROVE  \A u \in Thread : ThreadOf(u)'
  <2> SUFFICES ASSUME NEW u \in Thread PROVE ThreadOf(u)'
    OBVIOUS
  <2>1. CASE u = t
    <3>1. /\ th'[t] = [th[t] EXCEPT !.pc = "del"] /\ th[t].pc = "copy"
          /\ UNCHANGED <<calls, slot, mutex>>
      BY <1>11, <1>a DEF MapCopyFail, Goto, TypeOK
    <3>2. th'[t].pc = "del" /\ th'[t].n = th[t].n /\ th'[t].iova = th[t].iova /\ (th'[t].err <=> th[t].err)
      BY <1>a, <3>1 DEF TypeOK
    <3> QED
      BY <1>a, <2>1, <3>1, <3>2 DEF ThreadOf, UnmapPcs
  <2>2. CASE u # t
    BY <1>11, <1>a, <2>2, MmioAssumption DEF MapCopyFail, Goto, Return, UnmapResource, FreeIova, Misuse, TypeOK, ThreadOf, Idle, NewSlot, Slot, Iova, MapPcs, UnmapPcs, OneMapper, Unbegun
  <2> QED
    BY <2>1, <2>2
<1>12. ASSUME NEW t \in Thread, MapDel(t)
      PROVE  \A u \in Thread : ThreadOf(u)'
  <2> SUFFICES ASSUME NEW u \in Thread PROVE ThreadOf(u)'
    OBVIOUS
  <2>1. CASE u = t
    <3>1. th'[t] = Idle /\ calls' \in Nat
      BY <1>12, <1>a, MmioAssumption DEF MapDel, Return, Misuse, TypeOK
    <3>2. mutex' # t
      BY <1>12, <1>a, MmioAssumption DEF MapDel, Misuse, ThreadOf
    <3> QED
      BY <2>1, <3>1, <3>2, IdleThread
  <2>2. CASE u # t
    <3>1. th'[u] = th[u] /\ calls' = calls /\ mutex' = mutex
      BY <1>12, <1>a, <2>2 DEF MapDel, Return, TypeOK
    <3>2. CASE th[u].n = th[t].n
      <4>1. th[u].pc \notin MapPcs
        BY <1>12, <1>a, <2>2, <3>2 DEF MapDel, OneMapper, MapPcs
      <4>2. th[u].n # 0 /\ th[u].n \in Slot
        BY <1>12, <1>a, <3>2, Numbers DEF MapDel, ThreadOf
      <4>3. slot'[th[u].n].mem = "freed" /\ slot'[th[u].n].fixed = slot[th[u].n].fixed
        BY <1>12, <1>a, <3>2, <4>2 DEF MapDel, TypeOK
      <4> QED
        BY <1>a, <3>1, <4>1, <4>2, <4>3 DEF ThreadOf, MapPcs
    <3>3. CASE th[u].n # th[t].n
      <4>1. th[u].n # 0 => slot'[th[u].n] = slot[th[u].n]
        BY <1>12, <1>a, <3>3, Numbers DEF MapDel, TypeOK
      <4> QED
        BY <1>a, <3>1, <4>1, OtherThread
    <3> QED
      BY <3>2, <3>3
  <2> QED
    BY <2>1, <2>2
<1>13. ASSUME NEW t \in Thread, NEW n \in Slot, UnmapFind(t, n)
      PROVE  \A u \in Thread : ThreadOf(u)'
  <2> SUFFICES ASSUME NEW u \in Thread PROVE ThreadOf(u)'
    OBVIOUS
  <2>1. CASE u = t
    <3>1. th'[t] = [Idle EXCEPT !.n = n, !.pc = "unmap"]
      BY <1>13, <1>a DEF UnmapFind, TypeOK
    <3>2. th'[t].pc = "unmap" /\ th'[t].n = n /\ th'[t].err = FALSE
      BY <3>1 DEF Idle
    <3>5. slot' = slot /\ calls' = calls /\ mutex' = mutex /\ slot[n].mem = "hashed"
      BY <1>13 DEF UnmapFind
    <3>6. ~(n > calls) /\ n \in Nat /\ calls \in Nat /\ n # 0
      <4>1. n \in Nat /\ n # 0 /\ calls \in Nat
        BY <1>a, Numbers DEF Slot
      <4>2. ~(n > calls)
        BY <1>a, <3>5 DEF Unbegun
      <4> QED
        BY <4>1, <4>2
    <3>3. slot'[n].mem = "hashed" /\ n <= calls /\ n # 0 /\ calls' = calls /\ mutex' = mutex
      BY <3>5, <3>6
    <3>4. mutex # t
      BY <1>13, <1>a DEF UnmapFind, ThreadOf, Idle
    <3> QED
      BY <2>1, <3>2, <3>3, <3>4 DEF ThreadOf, UnmapPcs
  <2>2. CASE u # t
    BY <1>13, <1>a, <2>2, MmioAssumption DEF UnmapFind, Goto, Return, UnmapResource, FreeIova, Misuse, TypeOK, ThreadOf, Idle, NewSlot, Slot, Iova, MapPcs, UnmapPcs, OneMapper, Unbegun
  <2> QED
    BY <2>1, <2>2
<1>14. ASSUME NEW t \in Thread, UnmapTable(t)
      PROVE  \A u \in Thread : ThreadOf(u)'
  <2> SUFFICES ASSUME NEW u \in Thread PROVE ThreadOf(u)'
    OBVIOUS
  <2>1. CASE u = t
    <3>1. /\ th'[t] = [th[t] EXCEPT !.pc = "remove"] /\ th[t].pc = "unmap"
          /\ UNCHANGED <<calls, slot, mutex>>
      BY <1>14, <1>a DEF UnmapTable, Goto, TypeOK
    <3>2. th'[t].pc = "remove" /\ th'[t].n = th[t].n /\ (th'[t].err <=> th[t].err)
      BY <1>a, <3>1 DEF TypeOK
    <3> QED
      BY <1>a, <2>1, <3>1, <3>2 DEF ThreadOf, UnmapPcs
  <2>2. CASE u # t
    BY <1>14, <1>a, <2>2, MmioAssumption DEF UnmapTable, Goto, Return, UnmapResource, FreeIova, Misuse, TypeOK, ThreadOf, Idle, NewSlot, Slot, Iova, MapPcs, UnmapPcs, OneMapper, Unbegun
  <2> QED
    BY <2>1, <2>2
<1>15. ASSUME NEW t \in Thread, UnmapDel(t)
      PROVE  \A u \in Thread : ThreadOf(u)'
  <2> SUFFICES ASSUME NEW u \in Thread PROVE ThreadOf(u)'
    OBVIOUS
  <2>1. CASE u = t
    <3>1. th'[t] = Idle /\ calls' \in Nat
      BY <1>15, <1>a, MmioAssumption DEF UnmapDel, Return, Misuse, TypeOK
    <3>2. mutex' # t
      BY <1>15, <1>a, MmioAssumption DEF UnmapDel, Misuse, ThreadOf
    <3> QED
      BY <2>1, <3>1, <3>2, IdleThread
  <2>2. CASE u # t
    <3>1. th'[u] = th[u] /\ calls' = calls /\ mutex' = mutex
      BY <1>15, <1>a, <2>2 DEF UnmapDel, Return, TypeOK
    <3>2. CASE th[u].n = th[t].n
      <4>1. th[u].n # 0 /\ th[u].n \in Slot /\ slot[th[u].n].mem = "hashed"
        BY <1>15, <1>a, <3>2, Numbers DEF UnmapDel, ThreadOf
      <4>2. slot'[th[u].n].mem = "freed" /\ slot'[th[u].n].fixed = slot[th[u].n].fixed
        BY <1>15, <1>a, <3>2, <4>1 DEF UnmapDel, TypeOK
      <4> QED
        BY <1>a, <3>1, <4>1, <4>2 DEF ThreadOf, UnmapPcs
    <3>3. CASE th[u].n # th[t].n
      <4>1. th[u].n # 0 => slot'[th[u].n] = slot[th[u].n]
        BY <1>15, <1>a, <3>3, Numbers DEF UnmapDel, TypeOK
      <4> QED
        BY <1>a, <3>1, <4>1, OtherThread
    <3> QED
      BY <3>2, <3>3
  <2> QED
    BY <2>1, <2>2
<1>16. ASSUME NEW t \in Thread, UseFreed(t)
      PROVE  \A u \in Thread : ThreadOf(u)'
  <2> SUFFICES ASSUME NEW u \in Thread PROVE ThreadOf(u)'
    OBVIOUS
  <2>1. CASE u = t
    <3>1. th'[t] = Idle /\ calls' \in Nat
      BY <1>16, <1>a, MmioAssumption DEF UseFreed, Return, Misuse, TypeOK
    <3>2. mutex' # t
      BY <1>16, <1>a, MmioAssumption DEF UseFreed, Misuse, ThreadOf
    <3> QED
      BY <2>1, <3>1, <3>2, IdleThread
  <2>2. CASE u # t
    BY <1>16, <1>a, <2>2, MmioAssumption DEF UseFreed, Goto, Return, UnmapResource, FreeIova, Misuse, TypeOK, ThreadOf, Idle, NewSlot, Slot, Iova, MapPcs, UnmapPcs, OneMapper, Unbegun
  <2> QED
    BY <2>1, <2>2
<1>17. ASSUME NEW c \in Ctx, Close(c)
      PROVE  \A u \in Thread : ThreadOf(u)'
  BY <1>17, <1>a, MmioAssumption DEF Close, TypeOK, ThreadOf, UnmapPcs
<1>18. ASSUME NEW n \in Slot, CloseEntry(n)
      PROVE  \A u \in Thread : ThreadOf(u)'
  <2> SUFFICES ASSUME NEW u \in Thread PROVE ThreadOf(u)'
    OBVIOUS
  <2>1. ThreadOf(u) /\ UNCHANGED <<open, calls, mutex, th>> /\ slot[n].ctx \notin open /\ n # 0
    BY <1>18, <1>a DEF CloseEntry, Slot
  <2>2. th[u].n # n
    BY <1>18, <1>a, <2>1 DEF InOpen, CloseEntry
  <2>3. slot'[th[u].n] = slot[th[u].n] \/ th[u].n = 0
    BY <1>18, <1>a, <2>2 DEF CloseEntry, TypeOK, Slot
  <2> QED
    BY <2>1, <2>3 DEF ThreadOf, UnmapPcs
<1> QED
  BY <1>1, <1>2, <1>3, <1>4, <1>5, <1>6, <1>7, <1>8, <1>9,
     <1>10, <1>11, <1>12, <1>13, <1>14, <1>15, <1>16, <1>17, <1>18 DEF Next, Map, Unmap

\* Entries are used in the order of the calls.
LEMMA UnbegunKept ==
    ASSUME IInv, Next
    PROVE  Unbegun'
<1>a. TypeOK /\ Unbegun /\ OneMapper /\ CookieRestored /\ MsiInMutex /\ \A u \in Thread : ThreadOf(u)
  BY DEF IInv
<1>1. ASSUME NEW t \in Thread, NEW c \in Ctx, NEW fixed \in BOOLEAN, NEW req \in Iova, MapStart(t, c, fixed, req)
      PROVE  Unbegun'
  BY <1>1, <1>a, MmioAssumption DEF MapStart, Return, UnmapResource, FreeIova, Misuse, TypeOK, Unbegun, Slot, ThreadOf, MapPcs, UnmapPcs
<1>2. ASSUME NEW t \in Thread, MapReject(t)
      PROVE  Unbegun'
  BY <1>2, <1>a, MmioAssumption DEF MapReject, Return, UnmapResource, FreeIova, Misuse, TypeOK, Unbegun, Slot, ThreadOf, MapPcs, UnmapPcs
<1>3. ASSUME NEW t \in Thread, MapSetCookie(t)
      PROVE  Unbegun'
  BY <1>3, <1>a, MmioAssumption DEF MapSetCookie, Return, UnmapResource, FreeIova, Misuse, TypeOK, Unbegun, Slot, ThreadOf, MapPcs, UnmapPcs
<1>4. ASSUME NEW t \in Thread, MapAllocMsi(t)
      PROVE  Unbegun'
  BY <1>4, <1>a, MmioAssumption DEF MapAllocMsi, Return, UnmapResource, FreeIova, Misuse, TypeOK, Unbegun, Slot, ThreadOf, MapPcs, UnmapPcs
<1>5. ASSUME NEW t \in Thread, MapAllocIova(t)
      PROVE  Unbegun'
  BY <1>5, <1>a, MmioAssumption DEF MapAllocIova, Return, UnmapResource, FreeIova, Misuse, TypeOK, Unbegun, Slot, ThreadOf, MapPcs, UnmapPcs
<1>6. ASSUME NEW t \in Thread, MapTable(t)
      PROVE  Unbegun'
  BY <1>6, <1>a, MmioAssumption DEF MapTable, Return, UnmapResource, FreeIova, Misuse, TypeOK, Unbegun, Slot, ThreadOf, MapPcs, UnmapPcs
<1>7. ASSUME NEW t \in Thread, MapTableFail(t)
      PROVE  Unbegun'
  BY <1>7, <1>a, MmioAssumption DEF MapTableFail, Return, UnmapResource, FreeIova, Misuse, TypeOK, Unbegun, Slot, ThreadOf, MapPcs, UnmapPcs
<1>8. ASSUME NEW t \in Thread, MapResetCookie(t)
      PROVE  Unbegun'
  BY <1>8, <1>a, MmioAssumption DEF MapResetCookie, Return, UnmapResource, FreeIova, Misuse, TypeOK, Unbegun, Slot, ThreadOf, MapPcs, UnmapPcs
<1>9. ASSUME NEW t \in Thread, MapHash(t)
      PROVE  Unbegun'
  BY <1>9, <1>a, MmioAssumption DEF MapHash, Return, UnmapResource, FreeIova, Misuse, TypeOK, Unbegun, Slot, ThreadOf, MapPcs, UnmapPcs
<1>10. ASSUME NEW t \in Thread, MapReturn(t)
      PROVE  Unbegun'
  BY <1>10, <1>a, MmioAssumption DEF MapReturn, Return, UnmapResource, FreeIova, Misuse, TypeOK, Unbegun, Slot, ThreadOf, MapPcs, UnmapPcs
<1>11. ASSUME NEW t \in Thread, MapCopyFail(t)
      PROVE  Unbegun'
  BY <1>11, <1>a, MmioAssumption DEF MapCopyFail, Return, UnmapResource, FreeIova, Misuse, TypeOK, Unbegun, Slot, ThreadOf, MapPcs, UnmapPcs
<1>12. ASSUME NEW t \in Thread, MapDel(t)
      PROVE  Unbegun'
  BY <1>12, <1>a, MmioAssumption DEF MapDel, Return, UnmapResource, FreeIova, Misuse, TypeOK, Unbegun, Slot, ThreadOf, MapPcs, UnmapPcs
<1>13. ASSUME NEW t \in Thread, NEW n \in Slot, UnmapFind(t, n)
      PROVE  Unbegun'
  BY <1>13, <1>a, MmioAssumption DEF UnmapFind, Return, UnmapResource, FreeIova, Misuse, TypeOK, Unbegun, Slot, ThreadOf, MapPcs, UnmapPcs
<1>14. ASSUME NEW t \in Thread, UnmapTable(t)
      PROVE  Unbegun'
  BY <1>14, <1>a, MmioAssumption DEF UnmapTable, Return, UnmapResource, FreeIova, Misuse, TypeOK, Unbegun, Slot, ThreadOf, MapPcs, UnmapPcs
<1>15. ASSUME NEW t \in Thread, UnmapDel(t)
      PROVE  Unbegun'
  BY <1>15, <1>a, MmioAssumption DEF UnmapDel, Return, UnmapResource, FreeIova, Misuse, TypeOK, Unbegun, Slot, ThreadOf, MapPcs, UnmapPcs
<1>16. ASSUME NEW t \in Thread, UseFreed(t)
      PROVE  Unbegun'
  BY <1>16, <1>a, MmioAssumption DEF UseFreed, Return, UnmapResource, FreeIova, Misuse, TypeOK, Unbegun, Slot, ThreadOf, MapPcs, UnmapPcs
<1>17. ASSUME NEW c \in Ctx, Close(c)
      PROVE  Unbegun'
  BY <1>17, <1>a DEF Close, Unbegun
<1>18. ASSUME NEW n \in Slot, CloseEntry(n)
      PROVE  Unbegun'
  BY <1>18, <1>a, MmioAssumption DEF CloseEntry, TypeOK, Unbegun, Slot
<1> QED
  BY <1>1, <1>2, <1>3, <1>4, <1>5, <1>6, <1>7, <1>8, <1>9,
     <1>10, <1>11, <1>12, <1>13, <1>14, <1>15, <1>16, <1>17, <1>18 DEF Next, Map, Unmap

\* A map call stays with its thread: the entry of a new call is new.
LEMMA MapperKept ==
    ASSUME IInv, Next
    PROVE  OneMapper'
<1>a. TypeOK /\ Unbegun /\ OneMapper /\ CookieRestored /\ MsiInMutex /\ \A u \in Thread : ThreadOf(u)
  BY DEF IInv
<1>1. ASSUME NEW t \in Thread, NEW c \in Ctx, NEW fixed \in BOOLEAN, NEW req \in Iova, MapStart(t, c, fixed, req)
      PROVE  OneMapper'
  BY <1>1, <1>a, MmioAssumption DEF MapStart, Goto, Return, Idle, Misuse, TypeOK, OneMapper, ThreadOf, MapPcs, UnmapPcs
<1>2. ASSUME NEW t \in Thread, MapReject(t)
      PROVE  OneMapper'
  BY <1>2, <1>a, MmioAssumption DEF MapReject, Goto, Return, Idle, Misuse, TypeOK, OneMapper, ThreadOf, MapPcs, UnmapPcs
<1>3. ASSUME NEW t \in Thread, MapSetCookie(t)
      PROVE  OneMapper'
  BY <1>3, <1>a, MmioAssumption DEF MapSetCookie, Goto, Return, Idle, Misuse, TypeOK, OneMapper, ThreadOf, MapPcs, UnmapPcs
<1>4. ASSUME NEW t \in Thread, MapAllocMsi(t)
      PROVE  OneMapper'
  BY <1>4, <1>a, MmioAssumption DEF MapAllocMsi, Goto, Return, Idle, Misuse, TypeOK, OneMapper, ThreadOf, MapPcs, UnmapPcs
<1>5. ASSUME NEW t \in Thread, MapAllocIova(t)
      PROVE  OneMapper'
  BY <1>5, <1>a, MmioAssumption DEF MapAllocIova, Goto, Return, Idle, Misuse, TypeOK, OneMapper, ThreadOf, MapPcs, UnmapPcs
<1>6. ASSUME NEW t \in Thread, MapTable(t)
      PROVE  OneMapper'
  BY <1>6, <1>a, MmioAssumption DEF MapTable, Goto, Return, Idle, Misuse, TypeOK, OneMapper, ThreadOf, MapPcs, UnmapPcs
<1>7. ASSUME NEW t \in Thread, MapTableFail(t)
      PROVE  OneMapper'
  BY <1>7, <1>a, MmioAssumption DEF MapTableFail, Goto, Return, Idle, Misuse, TypeOK, OneMapper, ThreadOf, MapPcs, UnmapPcs
<1>8. ASSUME NEW t \in Thread, MapResetCookie(t)
      PROVE  OneMapper'
  BY <1>8, <1>a, MmioAssumption DEF MapResetCookie, Goto, Return, Idle, Misuse, TypeOK, OneMapper, ThreadOf, MapPcs, UnmapPcs
<1>9. ASSUME NEW t \in Thread, MapHash(t)
      PROVE  OneMapper'
  BY <1>9, <1>a, MmioAssumption DEF MapHash, Goto, Return, Idle, Misuse, TypeOK, OneMapper, ThreadOf, MapPcs, UnmapPcs
<1>10. ASSUME NEW t \in Thread, MapReturn(t)
      PROVE  OneMapper'
  BY <1>10, <1>a, MmioAssumption DEF MapReturn, Goto, Return, Idle, Misuse, TypeOK, OneMapper, ThreadOf, MapPcs, UnmapPcs
<1>11. ASSUME NEW t \in Thread, MapCopyFail(t)
      PROVE  OneMapper'
  BY <1>11, <1>a, MmioAssumption DEF MapCopyFail, Goto, Return, Idle, Misuse, TypeOK, OneMapper, ThreadOf, MapPcs, UnmapPcs
<1>12. ASSUME NEW t \in Thread, MapDel(t)
      PROVE  OneMapper'
  BY <1>12, <1>a, MmioAssumption DEF MapDel, Goto, Return, Idle, Misuse, TypeOK, OneMapper, ThreadOf, MapPcs, UnmapPcs
<1>13. ASSUME NEW t \in Thread, NEW n \in Slot, UnmapFind(t, n)
      PROVE  OneMapper'
  BY <1>13, <1>a, MmioAssumption DEF UnmapFind, Goto, Return, Idle, Misuse, TypeOK, OneMapper, ThreadOf, MapPcs, UnmapPcs
<1>14. ASSUME NEW t \in Thread, UnmapTable(t)
      PROVE  OneMapper'
  BY <1>14, <1>a, MmioAssumption DEF UnmapTable, Goto, Return, Idle, Misuse, TypeOK, OneMapper, ThreadOf, MapPcs, UnmapPcs
<1>15. ASSUME NEW t \in Thread, UnmapDel(t)
      PROVE  OneMapper'
  BY <1>15, <1>a, MmioAssumption DEF UnmapDel, Goto, Return, Idle, Misuse, TypeOK, OneMapper, ThreadOf, MapPcs, UnmapPcs
<1>16. ASSUME NEW t \in Thread, UseFreed(t)
      PROVE  OneMapper'
  BY <1>16, <1>a, MmioAssumption DEF UseFreed, Goto, Return, Idle, Misuse, TypeOK, OneMapper, ThreadOf, MapPcs, UnmapPcs
<1>17. ASSUME NEW c \in Ctx, Close(c)
      PROVE  OneMapper'
  BY <1>17, <1>a DEF Close, OneMapper
<1>18. ASSUME NEW n \in Slot, CloseEntry(n)
      PROVE  OneMapper'
  BY <1>18, <1>a DEF CloseEntry, OneMapper
<1> QED
  BY <1>1, <1>2, <1>3, <1>4, <1>5, <1>6, <1>7, <1>8, <1>9,
     <1>10, <1>11, <1>12, <1>13, <1>14, <1>15, <1>16, <1>17, <1>18 DEF Next, Map, Unmap

\* Giving an IOVA back moves an MSI cookie, and leaves its type.
LEMMA FreeKeepsType ==
    ASSUME TypeOK, CookieRestored, MsiInMutex, NEW i, FreeIova(i), mutex' = mutex
    PROVE  CookieRestored' /\ MsiInMutex'
<1>1. CASE cookie.type = "msi"
  BY <1>1 DEF TypeOK, FreeIova, CookieRestored, MsiInMutex, IovaCookie
<1>2. CASE cookie.type # "msi"
  BY <1>2 DEF TypeOK, FreeIova, CookieRestored, MsiInMutex
<1> QED
  BY <1>1, <1>2

\* The cookie is an MSI cookie exactly while the mutex is held.
LEMMA CookieKept ==
    ASSUME IInv, Next
    PROVE  CookieRestored' /\ MsiInMutex'
<1>a. TypeOK /\ Unbegun /\ OneMapper /\ CookieRestored /\ MsiInMutex /\ \A u \in Thread : ThreadOf(u)
  BY DEF IInv
<1>1. ASSUME NEW t \in Thread, NEW c \in Ctx, NEW fixed \in BOOLEAN, NEW req \in Iova, MapStart(t, c, fixed, req)
      PROVE  CookieRestored' /\ MsiInMutex'
  BY <1>1, <1>a, MmioAssumption DEF MapStart, Misuse, TypeOK, CookieRestored, MsiInMutex, IovaCookie, ThreadOf
<1>2. ASSUME NEW t \in Thread, MapReject(t)
      PROVE  CookieRestored' /\ MsiInMutex'
  BY <1>2, <1>a, MmioAssumption DEF MapReject, Misuse, TypeOK, CookieRestored, MsiInMutex, IovaCookie, ThreadOf
<1>3. ASSUME NEW t \in Thread, MapSetCookie(t)
      PROVE  CookieRestored' /\ MsiInMutex'
  BY <1>3, <1>a, MmioAssumption DEF MapSetCookie, Misuse, TypeOK, CookieRestored, MsiInMutex, IovaCookie, ThreadOf
<1>4. ASSUME NEW t \in Thread, MapAllocMsi(t)
      PROVE  CookieRestored' /\ MsiInMutex'
  BY <1>4, <1>a, MmioAssumption DEF MapAllocMsi, Misuse, TypeOK, CookieRestored, MsiInMutex, IovaCookie, ThreadOf
<1>5. ASSUME NEW t \in Thread, MapAllocIova(t)
      PROVE  CookieRestored' /\ MsiInMutex'
  BY <1>5, <1>a, MmioAssumption DEF MapAllocIova, Misuse, TypeOK, CookieRestored, MsiInMutex, IovaCookie, ThreadOf
<1>6. ASSUME NEW t \in Thread, MapTable(t)
      PROVE  CookieRestored' /\ MsiInMutex'
  BY <1>6, <1>a, MmioAssumption DEF MapTable, Misuse, TypeOK, CookieRestored, MsiInMutex, IovaCookie, ThreadOf
<1>7. ASSUME NEW t \in Thread, MapTableFail(t)
      PROVE  CookieRestored' /\ MsiInMutex'
  BY <1>7, <1>a, FreeKeepsType DEF MapTableFail
<1>8. ASSUME NEW t \in Thread, MapResetCookie(t)
      PROVE  CookieRestored' /\ MsiInMutex'
  BY <1>8, <1>a, MmioAssumption DEF MapResetCookie, Misuse, TypeOK, CookieRestored, MsiInMutex, IovaCookie, ThreadOf
<1>9. ASSUME NEW t \in Thread, MapHash(t)
      PROVE  CookieRestored' /\ MsiInMutex'
  BY <1>9, <1>a, MmioAssumption DEF MapHash, Misuse, TypeOK, CookieRestored, MsiInMutex, IovaCookie, ThreadOf
<1>10. ASSUME NEW t \in Thread, MapReturn(t)
      PROVE  CookieRestored' /\ MsiInMutex'
  BY <1>10, <1>a, MmioAssumption DEF MapReturn, Misuse, TypeOK, CookieRestored, MsiInMutex, IovaCookie, ThreadOf
<1>11. ASSUME NEW t \in Thread, MapCopyFail(t)
      PROVE  CookieRestored' /\ MsiInMutex'
  BY <1>11, <1>a, FreeKeepsType DEF MapCopyFail, UnmapResource
<1>12. ASSUME NEW t \in Thread, MapDel(t)
      PROVE  CookieRestored' /\ MsiInMutex'
  BY <1>12, <1>a, MmioAssumption DEF MapDel, Misuse, TypeOK, CookieRestored, MsiInMutex, IovaCookie, ThreadOf
<1>13. ASSUME NEW t \in Thread, NEW n \in Slot, UnmapFind(t, n)
      PROVE  CookieRestored' /\ MsiInMutex'
  BY <1>13, <1>a, MmioAssumption DEF UnmapFind, Misuse, TypeOK, CookieRestored, MsiInMutex, IovaCookie, ThreadOf
<1>14. ASSUME NEW t \in Thread, UnmapTable(t)
      PROVE  CookieRestored' /\ MsiInMutex'
  BY <1>14, <1>a, FreeKeepsType DEF UnmapTable, UnmapResource
<1>15. ASSUME NEW t \in Thread, UnmapDel(t)
      PROVE  CookieRestored' /\ MsiInMutex'
  BY <1>15, <1>a, MmioAssumption DEF UnmapDel, Misuse, TypeOK, CookieRestored, MsiInMutex, IovaCookie, ThreadOf
<1>16. ASSUME NEW t \in Thread, UseFreed(t)
      PROVE  CookieRestored' /\ MsiInMutex'
  BY <1>16, <1>a, MmioAssumption DEF UseFreed, Misuse, TypeOK, CookieRestored, MsiInMutex, IovaCookie, ThreadOf
<1>17. ASSUME NEW c \in Ctx, Close(c)
      PROVE  CookieRestored' /\ MsiInMutex'
  BY <1>17, <1>a DEF Close, CookieRestored, MsiInMutex
<1>18. ASSUME NEW n \in Slot, CloseEntry(n)
      PROVE  CookieRestored' /\ MsiInMutex'
  BY <1>18, <1>a, FreeKeepsType DEF CloseEntry, UnmapResource
<1> QED
  BY <1>1, <1>2, <1>3, <1>4, <1>5, <1>6, <1>7, <1>8, <1>9,
     <1>10, <1>11, <1>12, <1>13, <1>14, <1>15, <1>16, <1>17, <1>18 DEF Next, Map, Unmap

\* The bounds are numbers, and there is a page.
LEMMA Addresses == MaxMap \in Nat /\ Iovas \in Nat /\ Iovas > 0 /\ Iova \subseteq Int /\ 0 \in Iova
  BY MmioAssumption DEF Iova

\* The pieces the actions are made of keep their types.
LEMMA GotoType ==
    ASSUME TypeOK, NEW t \in Thread, NEW pc \in MapPcs \cup UnmapPcs, Goto(t, pc)
    PROVE  th' \in [Thread -> ThType]
<1>1. th \in [Thread -> ThType]
  BY DEF TypeOK, ThType
<1>2. [th[t] EXCEPT !.pc = pc] \in ThType
  BY <1>1 DEF ThType
<1> QED
  BY <1>1, <1>2 DEF Goto

\* A step of one thread gives it a state of the right type.
LEMMA StepType ==
    ASSUME TypeOK, NEW t \in Thread, NEW r \in ThType, th' = [th EXCEPT ![t] = r]
    PROVE  th' \in [Thread -> ThType]
<1>1. th \in [Thread -> ThType]
  BY DEF TypeOK, ThType
<1> QED
  BY <1>1

\* A thread at rest has one.
LEMMA IdleType == Idle \in ThType
  BY Addresses DEF Idle, ThType

\* So has one that begins a call.
LEMMA BeginType ==
    ASSUME NEW r \in ThType, NEW n \in 0 .. MaxMap, NEW pc \in MapPcs \cup UnmapPcs
    PROVE  [r EXCEPT !.n = n, !.pc = pc] \in ThType
  BY DEF ThType

\* Entries are written as entries.
LEMMA EntryType ==
    ASSUME TypeOK, NEW n \in Slot, NEW r \in SlotType, slot' = [slot EXCEPT ![n] = r]
    PROVE  slot' \in [Slot -> SlotType]
<1>1. slot \in [Slot -> SlotType]
  BY DEF TypeOK, SlotType
<1> QED
  BY <1>1

\* Freeing one changes only where its memory is.
LEMMA FreedType ==
    ASSUME TypeOK, NEW n \in Slot, slot' = [slot EXCEPT ![n].mem = "freed"]
    PROVE  slot' \in [Slot -> SlotType]
<1>1. slot[n] \in SlotType
  BY DEF TypeOK, SlotType
<1>2. [slot[n] EXCEPT !.mem = "freed"] \in SlotType
  BY <1>1 DEF SlotType
<1> QED
  BY <1>2, EntryType

\* Entries keep their file, and calls their entry until they return.
LEMMA OpenForm ==
    ASSUME TypeOK, InOpen, open' = open,
           \A n \in Slot : slot'[n].ctx = slot[n].ctx,
           \A u \in Thread : th'[u].n \in {0, th[u].n}
    PROVE  InOpen'
<1> SUFFICES ASSUME NEW u \in Thread, th'[u].n # 0 PROVE slot'[th'[u].n].ctx \in open'
  BY DEF InOpen
<1>1. th'[u].n = th[u].n /\ th[u].n \in Slot
  BY Addresses DEF TypeOK, Slot
<1> QED
  BY <1>1 DEF InOpen

\* Every step keeps the files of running calls open: kiumd_close comes after them.
LEMMA OpenKept ==
    ASSUME IInv, Next
    PROVE  InOpen'
<1>a. TypeOK /\ InOpen
  BY DEF IInv
<1>b. MaxMap \in Nat
  BY Addresses
<1>1. ASSUME NEW t \in Thread, NEW c \in Ctx, NEW fixed \in BOOLEAN, NEW req \in Iova, MapStart(t, c, fixed, req)
      PROVE  InOpen'
  <2> SUFFICES ASSUME NEW u \in Thread, th'[u].n # 0 PROVE slot'[th'[u].n].ctx \in open
    BY <1>1 DEF MapStart, InOpen
  <2>1. calls + 1 \in Slot /\ c \in open /\ slot'[calls + 1].ctx = c
    BY <1>1, <1>a, <1>b DEF MapStart, TypeOK, Slot, NewSlot
  <2>2. CASE u = t
    BY <1>1, <1>a, <2>1, <2>2 DEF MapStart, TypeOK, Idle
  <2>3. CASE u # t
    <3>1. th'[u] = th[u] /\ th[u].n \in Slot
      BY <1>1, <1>a, <1>b, <2>3 DEF MapStart, TypeOK, Slot
    <3>2. CASE th[u].n = calls + 1
      BY <2>1, <3>1, <3>2
    <3>3. CASE th[u].n # calls + 1
      BY <1>1, <1>a, <3>1, <3>3 DEF MapStart, TypeOK, InOpen
    <3> QED
      BY <3>2, <3>3
  <2> QED
    BY <2>2, <2>3
<1>2. ASSUME NEW t \in Thread, MapReject(t)
      PROVE  InOpen'
  <2>1. open' = open /\ \A n \in Slot : slot'[n].ctx = slot[n].ctx
    BY <1>2, <1>a DEF MapReject, Misuse, TypeOK
  <2>2. \A u \in Thread : th'[u].n \in {0, th[u].n}
    BY <1>2, <1>a DEF MapReject, Misuse, Goto, Return, Idle, TypeOK
  <2> QED
    BY <1>a, <2>1, <2>2, OpenForm
<1>3. ASSUME NEW t \in Thread, MapSetCookie(t)
      PROVE  InOpen'
  <2>1. open' = open /\ \A n \in Slot : slot'[n].ctx = slot[n].ctx
    BY <1>3, <1>a DEF MapSetCookie, Misuse, TypeOK
  <2>2. \A u \in Thread : th'[u].n \in {0, th[u].n}
    BY <1>3, <1>a DEF MapSetCookie, Misuse, Goto, Return, Idle, TypeOK
  <2> QED
    BY <1>a, <2>1, <2>2, OpenForm
<1>4. ASSUME NEW t \in Thread, MapAllocMsi(t)
      PROVE  InOpen'
  <2>1. open' = open /\ \A n \in Slot : slot'[n].ctx = slot[n].ctx
    BY <1>4, <1>a DEF MapAllocMsi, Misuse, TypeOK
  <2>2. \A u \in Thread : th'[u].n \in {0, th[u].n}
    BY <1>4, <1>a DEF MapAllocMsi, Misuse, Goto, Return, Idle, TypeOK
  <2> QED
    BY <1>a, <2>1, <2>2, OpenForm
<1>5. ASSUME NEW t \in Thread, MapAllocIova(t)
      PROVE  InOpen'
  <2>1. open' = open /\ \A n \in Slot : slot'[n].ctx = slot[n].ctx
    BY <1>5, <1>a DEF MapAllocIova, Misuse, TypeOK
  <2>2. \A u \in Thread : th'[u].n \in {0, th[u].n}
    BY <1>5, <1>a DEF MapAllocIova, Misuse, Goto, Return, Idle, TypeOK
  <2> QED
    BY <1>a, <2>1, <2>2, OpenForm
<1>6. ASSUME NEW t \in Thread, MapTable(t)
      PROVE  InOpen'
  <2>1. open' = open /\ \A n \in Slot : slot'[n].ctx = slot[n].ctx
    BY <1>6, <1>a DEF MapTable, Misuse, TypeOK
  <2>2. \A u \in Thread : th'[u].n \in {0, th[u].n}
    BY <1>6, <1>a DEF MapTable, Misuse, Goto, Return, Idle, TypeOK
  <2> QED
    BY <1>a, <2>1, <2>2, OpenForm
<1>7. ASSUME NEW t \in Thread, MapTableFail(t)
      PROVE  InOpen'
  <2>1. open' = open /\ \A n \in Slot : slot'[n].ctx = slot[n].ctx
    BY <1>7, <1>a DEF MapTableFail, Misuse, TypeOK
  <2>2. \A u \in Thread : th'[u].n \in {0, th[u].n}
    BY <1>7, <1>a DEF MapTableFail, Misuse, Goto, Return, Idle, TypeOK
  <2> QED
    BY <1>a, <2>1, <2>2, OpenForm
<1>8. ASSUME NEW t \in Thread, MapResetCookie(t)
      PROVE  InOpen'
  <2>1. open' = open /\ \A n \in Slot : slot'[n].ctx = slot[n].ctx
    BY <1>8, <1>a DEF MapResetCookie, Misuse, TypeOK
  <2>2. \A u \in Thread : th'[u].n \in {0, th[u].n}
    BY <1>8, <1>a DEF MapResetCookie, Misuse, Goto, Return, Idle, TypeOK
  <2> QED
    BY <1>a, <2>1, <2>2, OpenForm
<1>9. ASSUME NEW t \in Thread, MapHash(t)
      PROVE  InOpen'
  <2>1. open' = open /\ \A n \in Slot : slot'[n].ctx = slot[n].ctx
    BY <1>9, <1>a DEF MapHash, Misuse, TypeOK
  <2>2. \A u \in Thread : th'[u].n \in {0, th[u].n}
    BY <1>9, <1>a DEF MapHash, Misuse, Goto, Return, Idle, TypeOK
  <2> QED
    BY <1>a, <2>1, <2>2, OpenForm
<1>10. ASSUME NEW t \in Thread, MapReturn(t)
      PROVE  InOpen'
  <2>1. open' = open /\ \A n \in Slot : slot'[n].ctx = slot[n].ctx
    BY <1>10, <1>a DEF MapReturn, Misuse, TypeOK
  <2>2. \A u \in Thread : th'[u].n \in {0, th[u].n}
    BY <1>10, <1>a DEF MapReturn, Misuse, Goto, Return, Idle, TypeOK
  <2> QED
    BY <1>a, <2>1, <2>2, OpenForm
<1>11. ASSUME NEW t \in Thread, MapCopyFail(t)
      PROVE  InOpen'
  <2>1. open' = open /\ \A n \in Slot : slot'[n].ctx = slot[n].ctx
    BY <1>11, <1>a DEF MapCopyFail, Misuse, TypeOK
  <2>2. \A u \in Thread : th'[u].n \in {0, th[u].n}
    BY <1>11, <1>a DEF MapCopyFail, Misuse, Goto, Return, Idle, TypeOK
  <2> QED
    BY <1>a, <2>1, <2>2, OpenForm
<1>12. ASSUME NEW t \in Thread, MapDel(t)
      PROVE  InOpen'
  <2>1. open' = open /\ \A n \in Slot : slot'[n].ctx = slot[n].ctx
    BY <1>12, <1>a DEF MapDel, Misuse, TypeOK
  <2>2. \A u \in Thread : th'[u].n \in {0, th[u].n}
    BY <1>12, <1>a DEF MapDel, Misuse, Goto, Return, Idle, TypeOK
  <2> QED
    BY <1>a, <2>1, <2>2, OpenForm
<1>13. ASSUME NEW t \in Thread, NEW n \in Slot, UnmapFind(t, n)
      PROVE  InOpen'
  <2> SUFFICES ASSUME NEW u \in Thread, th'[u].n # 0 PROVE slot[th'[u].n].ctx \in open
    BY <1>13 DEF UnmapFind, InOpen
  <2>1. CASE u = t
    BY <1>13, <1>a, <2>1 DEF UnmapFind, TypeOK, Idle
  <2>2. CASE u # t
    BY <1>13, <1>a, <2>2 DEF UnmapFind, TypeOK, InOpen
  <2> QED
    BY <2>1, <2>2
<1>14. ASSUME NEW t \in Thread, UnmapTable(t)
      PROVE  InOpen'
  <2>1. open' = open /\ \A n \in Slot : slot'[n].ctx = slot[n].ctx
    BY <1>14, <1>a DEF UnmapTable, Misuse, TypeOK
  <2>2. \A u \in Thread : th'[u].n \in {0, th[u].n}
    BY <1>14, <1>a DEF UnmapTable, Misuse, Goto, Return, Idle, TypeOK
  <2> QED
    BY <1>a, <2>1, <2>2, OpenForm
<1>15. ASSUME NEW t \in Thread, UnmapDel(t)
      PROVE  InOpen'
  <2>1. open' = open /\ \A n \in Slot : slot'[n].ctx = slot[n].ctx
    BY <1>15, <1>a DEF UnmapDel, Misuse, TypeOK
  <2>2. \A u \in Thread : th'[u].n \in {0, th[u].n}
    BY <1>15, <1>a DEF UnmapDel, Misuse, Goto, Return, Idle, TypeOK
  <2> QED
    BY <1>a, <2>1, <2>2, OpenForm
<1>16. ASSUME NEW t \in Thread, UseFreed(t)
      PROVE  InOpen'
  <2>1. open' = open /\ \A n \in Slot : slot'[n].ctx = slot[n].ctx
    BY <1>16, <1>a DEF UseFreed, Misuse, TypeOK
  <2>2. \A u \in Thread : th'[u].n \in {0, th[u].n}
    BY <1>16, <1>a DEF UseFreed, Misuse, Goto, Return, Idle, TypeOK
  <2> QED
    BY <1>a, <2>1, <2>2, OpenForm
<1>17. ASSUME NEW c \in Ctx, Close(c)
      PROVE  InOpen'
  BY <1>17, <1>a DEF Close, InOpen
<1>18. ASSUME NEW k \in Slot, CloseEntry(k)
      PROVE  InOpen'
  BY <1>18, <1>a, OpenForm DEF CloseEntry, TypeOK
<1> QED
  BY <1>1, <1>2, <1>3, <1>4, <1>5, <1>6, <1>7, <1>8, <1>9,
     <1>10, <1>11, <1>12, <1>13, <1>14, <1>15, <1>16, <1>17, <1>18 DEF Next, Map, Unmap

\* Giving an IOVA back keeps the types of the allocator and of the cookie.
LEMMA FreeType ==
    ASSUME TypeOK, NEW i, FreeIova(i)
    PROVE  alloc' \subseteq Iova /\ cookie' \in [type : {"iova", "msi"}, msi : Int]
<1>1. CASE cookie.type = "msi"
  BY <1>1 DEF TypeOK, FreeIova
<1>2. CASE cookie.type # "msi"
  BY <1>2 DEF TypeOK, FreeIova
<1> QED
  BY <1>1, <1>2

\* So does an unmapping, which keeps those of the page table and of the history too.
LEMMA ResourceType ==
    ASSUME TypeOK, NEW i, UnmapResource(i)
    PROVE  /\ table' \in [Iova -> 0 .. MaxMap] /\ alloc' \subseteq Iova
           /\ cookie' \in [type : {"iova", "msi"}, msi : Int]
           /\ pulled' \in [Slot -> Nat]
<1>1. 0 \in 0 .. MaxMap /\ table \in [Iova -> 0 .. MaxMap]
  BY Addresses DEF TypeOK
<1>2. table' \in [Iova -> 0 .. MaxMap]
  BY <1>1 DEF UnmapResource
<1>3. pulled' \in [Slot -> Nat]
  BY DEF UnmapResource, TypeOK
<1> QED
  BY <1>2, <1>3, FreeType DEF UnmapResource

\* Every step keeps the types.
LEMMA TypesKept ==
    ASSUME IInv, Next
    PROVE  TypeOK'
<1>a. TypeOK
  BY DEF IInv
<1>b. \A u \in Thread : ThreadOf(u)
  BY DEF IInv
<1>d. MaxMap \in Nat /\ Iovas \in Nat /\ Iova \subseteq Int /\ 0 \in Iova /\ 0 \in Int
  BY Addresses
<1>e. \A u \in Thread : th[u].pc # "idle" => th[u].n \in Slot
  BY <1>a, <1>b, <1>d DEF TypeOK, ThreadOf, Slot
<1>1. ASSUME NEW t \in Thread, NEW c \in Ctx, NEW fixed \in BOOLEAN, NEW req \in Iova, MapStart(t, c, fixed, req)
      PROVE  TypeOK'
  <2>1. /\ careful' \in BOOLEAN /\ open' \subseteq Ctx /\ calls' \in 0 .. MaxMap
        /\ mutex' \in Thread \cup {None} /\ bad' \in BOOLEAN
    BY <1>1, <1>a, <1>d DEF MapStart, Misuse, TypeOK
  <2>2. slot' \in [Slot -> SlotType]
    <3>1. calls + 1 \in Slot
      BY <1>1, <1>a, <1>d DEF MapStart, TypeOK, Slot
    <3>2. [NewSlot EXCEPT !.mem = "call", !.ctx = c, !.fixed = fixed, !.req = req] \in SlotType
      BY <1>d DEF NewSlot, SlotType
    <3> QED
      BY <1>1, <1>a, <3>1, <3>2, EntryType DEF MapStart
  <2>3. th' \in [Thread -> ThType]
    <3>1. [Idle EXCEPT !.n = calls + 1, !.pc = IF fixed THEN "set" ELSE "alloc"] \in ThType
      <4>1. calls + 1 \in 0 .. MaxMap /\ (IF fixed THEN "set" ELSE "alloc") \in MapPcs \cup UnmapPcs
        BY <1>1, <1>a, <1>d DEF MapStart, TypeOK, MapPcs
      <4> QED
        BY <4>1, IdleType, BeginType
    <3> QED
      BY <1>1, <1>a, <3>1, StepType DEF MapStart
  <2>4. table' \in [Iova -> 0 .. MaxMap] /\ alloc' \subseteq Iova
    BY <1>1, <1>a DEF MapStart, Misuse, TypeOK
  <2>5. cookie' \in [type : {"iova", "msi"}, msi : Int]
    BY <1>1, <1>a DEF MapStart, Misuse, TypeOK
  <2>6. pulled' \in [Slot -> Nat]
    BY <1>1, <1>a DEF MapStart, Misuse, TypeOK
  <2> QED
    BY <2>1, <2>2, <2>3, <2>4, <2>5, <2>6 DEF TypeOK, SlotType, ThType
<1>2. ASSUME NEW t \in Thread, MapReject(t)
      PROVE  TypeOK'
  <2>1. /\ careful' \in BOOLEAN /\ open' \subseteq Ctx /\ calls' \in 0 .. MaxMap
        /\ mutex' \in Thread \cup {None} /\ bad' \in BOOLEAN
    BY <1>2, <1>a DEF MapReject, Misuse, TypeOK
  <2>2. slot' \in [Slot -> SlotType]
    BY <1>2, <1>a, <1>e, FreedType DEF MapReject
  <2>3. th' \in [Thread -> ThType]
    BY <1>2, <1>a, StepType, IdleType DEF MapReject, Misuse, Return
  <2>4. table' \in [Iova -> 0 .. MaxMap] /\ alloc' \subseteq Iova
    BY <1>2, <1>a DEF MapReject, Misuse, TypeOK
  <2>5. cookie' \in [type : {"iova", "msi"}, msi : Int]
    BY <1>2, <1>a DEF MapReject, Misuse, TypeOK
  <2>6. pulled' \in [Slot -> Nat]
    BY <1>2, <1>a DEF MapReject, Misuse, TypeOK
  <2> QED
    BY <2>1, <2>2, <2>3, <2>4, <2>5, <2>6 DEF TypeOK, SlotType, ThType
<1>3. ASSUME NEW t \in Thread, MapSetCookie(t)
      PROVE  TypeOK'
  <2>1. /\ careful' \in BOOLEAN /\ open' \subseteq Ctx /\ calls' \in 0 .. MaxMap
        /\ mutex' \in Thread \cup {None} /\ bad' \in BOOLEAN
    BY <1>3, <1>a DEF MapSetCookie, Misuse, TypeOK
  <2>2. slot' \in [Slot -> SlotType]
    BY <1>3, <1>a DEF MapSetCookie, Misuse, TypeOK, SlotType
  <2>3. th' \in [Thread -> ThType]
    BY <1>3, <1>a, GotoType DEF MapSetCookie, MapPcs, UnmapPcs
  <2>4. table' \in [Iova -> 0 .. MaxMap] /\ alloc' \subseteq Iova
    BY <1>3, <1>a DEF MapSetCookie, Misuse, TypeOK
  <2>5. cookie' \in [type : {"iova", "msi"}, msi : Int]
    <3>1. slot[th[t].n].req \in Iova
      BY <1>3, <1>a, <1>e DEF MapSetCookie, TypeOK
    <3> QED
      BY <1>3, <1>d, <3>1 DEF MapSetCookie
  <2>6. pulled' \in [Slot -> Nat]
    BY <1>3, <1>a DEF MapSetCookie, TypeOK
  <2> QED
    BY <2>1, <2>2, <2>3, <2>4, <2>5, <2>6 DEF TypeOK, SlotType, ThType
<1>4. ASSUME NEW t \in Thread, MapAllocMsi(t)
      PROVE  TypeOK'
  <2>1. /\ careful' \in BOOLEAN /\ open' \subseteq Ctx /\ calls' \in 0 .. MaxMap
        /\ mutex' \in Thread \cup {None} /\ bad' \in BOOLEAN
    BY <1>4, <1>a DEF MapAllocMsi, Misuse, TypeOK
  <2>2. slot' \in [Slot -> SlotType]
    BY <1>4, <1>a DEF MapAllocMsi, Misuse, TypeOK, SlotType
  <2>3. th' \in [Thread -> ThType]
    <3>1. th[t] \in ThType
      BY <1>a DEF TypeOK, ThType
    <3>2. th' = [th EXCEPT ![t] = [th[t] EXCEPT !.iova = cookie.msi, !.pc = "map"]]
      BY <1>4, <1>a DEF MapAllocMsi, TypeOK
    <3>3. [th[t] EXCEPT !.iova = cookie.msi, !.pc = "map"] \in ThType
      BY <1>4, <1>a, <1>d, <3>1 DEF MapAllocMsi, TypeOK, ThType, MapPcs, UnmapPcs, Slot
    <3> QED
      BY <1>a, <3>2, <3>3, StepType
  <2>4. table' \in [Iova -> 0 .. MaxMap] /\ alloc' \subseteq Iova
    BY <1>4, <1>a DEF MapAllocMsi, Misuse, TypeOK
  <2>5. cookie' \in [type : {"iova", "msi"}, msi : Int]
    BY <1>4, <1>a DEF MapAllocMsi, TypeOK
  <2>6. pulled' \in [Slot -> Nat]
    BY <1>4, <1>a DEF MapAllocMsi, Misuse, TypeOK
  <2> QED
    BY <2>1, <2>2, <2>3, <2>4, <2>5, <2>6 DEF TypeOK, SlotType, ThType
<1>5. ASSUME NEW t \in Thread, MapAllocIova(t)
      PROVE  TypeOK'
  <2>1. /\ careful' \in BOOLEAN /\ open' \subseteq Ctx /\ calls' \in 0 .. MaxMap
        /\ mutex' \in Thread \cup {None} /\ bad' \in BOOLEAN
    BY <1>5, <1>a DEF MapAllocIova, Misuse, TypeOK
  <2>2. slot' \in [Slot -> SlotType]
    BY <1>5, <1>a DEF MapAllocIova, Misuse, TypeOK, SlotType
  <2>3. th' \in [Thread -> ThType]
    <3>1. PICK i \in Iova : th' = [th EXCEPT ![t].iova = i, ![t].pc = "map"]
      BY <1>5 DEF MapAllocIova
    <3>2. th[t] \in ThType
      BY <1>a DEF TypeOK, ThType
    <3>3. th' = [th EXCEPT ![t] = [th[t] EXCEPT !.iova = i, !.pc = "map"]]
      BY <1>a, <3>1 DEF TypeOK
    <3>4. [th[t] EXCEPT !.iova = i, !.pc = "map"] \in ThType
      BY <1>d, <3>2 DEF ThType, MapPcs
    <3> QED
      BY <1>a, <3>3, <3>4, StepType
  <2>4. table' \in [Iova -> 0 .. MaxMap] /\ alloc' \subseteq Iova
    BY <1>5, <1>a DEF MapAllocIova, Misuse, TypeOK
  <2>5. cookie' \in [type : {"iova", "msi"}, msi : Int]
    BY <1>5, <1>a DEF MapAllocIova, Misuse, TypeOK
  <2>6. pulled' \in [Slot -> Nat]
    BY <1>5, <1>a DEF MapAllocIova, Misuse, TypeOK
  <2> QED
    BY <2>1, <2>2, <2>3, <2>4, <2>5, <2>6 DEF TypeOK, SlotType, ThType
<1>6. ASSUME NEW t \in Thread, MapTable(t)
      PROVE  TypeOK'
  <2>1. /\ careful' \in BOOLEAN /\ open' \subseteq Ctx /\ calls' \in 0 .. MaxMap
        /\ mutex' \in Thread \cup {None} /\ bad' \in BOOLEAN
    BY <1>6, <1>a DEF MapTable, Misuse, TypeOK
  <2>2. slot' \in [Slot -> SlotType]
    BY <1>6, <1>a DEF MapTable, Misuse, TypeOK, SlotType
  <2>3. th' \in [Thread -> ThType]
    BY <1>6, <1>a, GotoType DEF MapTable, MapPcs, UnmapPcs
  <2>4. table' \in [Iova -> 0 .. MaxMap] /\ alloc' \subseteq Iova
    BY <1>6, <1>a, <1>e DEF MapTable, TypeOK
  <2>5. cookie' \in [type : {"iova", "msi"}, msi : Int]
    BY <1>6, <1>a DEF MapTable, Misuse, TypeOK
  <2>6. pulled' \in [Slot -> Nat]
    BY <1>6, <1>a DEF MapTable, Misuse, TypeOK
  <2> QED
    BY <2>1, <2>2, <2>3, <2>4, <2>5, <2>6 DEF TypeOK, SlotType, ThType
<1>7. ASSUME NEW t \in Thread, MapTableFail(t)
      PROVE  TypeOK'
  <2>1. /\ careful' \in BOOLEAN /\ open' \subseteq Ctx /\ calls' \in 0 .. MaxMap
        /\ mutex' \in Thread \cup {None} /\ bad' \in BOOLEAN
    BY <1>7, <1>a DEF MapTableFail, Misuse, TypeOK
  <2>2. slot' \in [Slot -> SlotType]
    BY <1>7, <1>a DEF MapTableFail, Misuse, TypeOK, SlotType
  <2>3. th' \in [Thread -> ThType]
    <3>1. th[t] \in ThType
      BY <1>a DEF TypeOK, ThType
    <3> DEFINE r == [th[t] EXCEPT !.err = TRUE, !.pc = IF slot[th[t].n].fixed THEN "reset" ELSE "del"]
    <3>2. th' = [th EXCEPT ![t] = r]
      BY <1>7, <1>a DEF MapTableFail, TypeOK
    <3>3. r \in ThType
      BY <3>1 DEF ThType, MapPcs
    <3> QED
      BY <1>a, <3>2, <3>3, StepType
  <2>4. table' \in [Iova -> 0 .. MaxMap] /\ alloc' \subseteq Iova
    BY <1>7, <1>a, FreeType DEF MapTableFail, TypeOK
  <2>5. cookie' \in [type : {"iova", "msi"}, msi : Int]
    BY <1>7, <1>a, FreeType DEF MapTableFail
  <2>6. pulled' \in [Slot -> Nat]
    BY <1>7, <1>a DEF MapTableFail, Misuse, TypeOK
  <2> QED
    BY <2>1, <2>2, <2>3, <2>4, <2>5, <2>6 DEF TypeOK, SlotType, ThType
<1>8. ASSUME NEW t \in Thread, MapResetCookie(t)
      PROVE  TypeOK'
  <2>1. /\ careful' \in BOOLEAN /\ open' \subseteq Ctx /\ calls' \in 0 .. MaxMap
        /\ mutex' \in Thread \cup {None} /\ bad' \in BOOLEAN
    BY <1>8, <1>a DEF MapResetCookie, Misuse, TypeOK
  <2>2. slot' \in [Slot -> SlotType]
    BY <1>8, <1>a DEF MapResetCookie, Misuse, TypeOK, SlotType
  <2>3. th' \in [Thread -> ThType]
    BY <1>8, <1>a, GotoType DEF MapResetCookie, MapPcs, UnmapPcs
  <2>4. table' \in [Iova -> 0 .. MaxMap] /\ alloc' \subseteq Iova
    BY <1>8, <1>a DEF MapResetCookie, Misuse, TypeOK
  <2>5. cookie' \in [type : {"iova", "msi"}, msi : Int]
    BY <1>8, <1>d DEF MapResetCookie, IovaCookie
  <2>6. pulled' \in [Slot -> Nat]
    BY <1>8, <1>a DEF MapResetCookie, Misuse, TypeOK
  <2> QED
    BY <2>1, <2>2, <2>3, <2>4, <2>5, <2>6 DEF TypeOK, SlotType, ThType
<1>9. ASSUME NEW t \in Thread, MapHash(t)
      PROVE  TypeOK'
  <2>1. /\ careful' \in BOOLEAN /\ open' \subseteq Ctx /\ calls' \in 0 .. MaxMap
        /\ mutex' \in Thread \cup {None} /\ bad' \in BOOLEAN
    BY <1>9, <1>a DEF MapHash, Misuse, TypeOK
  <2>2. slot' \in [Slot -> SlotType]
    <3>1. th[t].n \in Slot /\ th[t].iova \in Iova
      BY <1>9, <1>a, <1>b, <1>e DEF MapHash, TypeOK, ThreadOf, Slot
    <3> QED
      BY <1>9, <1>a, <3>1 DEF MapHash, TypeOK, SlotType
  <2>3. th' \in [Thread -> ThType]
    BY <1>9, <1>a, GotoType DEF MapHash, MapPcs, UnmapPcs
  <2>4. table' \in [Iova -> 0 .. MaxMap] /\ alloc' \subseteq Iova
    BY <1>9, <1>a DEF MapHash, Misuse, TypeOK
  <2>5. cookie' \in [type : {"iova", "msi"}, msi : Int]
    BY <1>9, <1>a DEF MapHash, Misuse, TypeOK
  <2>6. pulled' \in [Slot -> Nat]
    BY <1>9, <1>a DEF MapHash, Misuse, TypeOK
  <2> QED
    BY <2>1, <2>2, <2>3, <2>4, <2>5, <2>6 DEF TypeOK, SlotType, ThType
<1>10. ASSUME NEW t \in Thread, MapReturn(t)
      PROVE  TypeOK'
  <2>1. /\ careful' \in BOOLEAN /\ open' \subseteq Ctx /\ calls' \in 0 .. MaxMap
        /\ mutex' \in Thread \cup {None} /\ bad' \in BOOLEAN
    BY <1>10, <1>a DEF MapReturn, Misuse, TypeOK
  <2>2. slot' \in [Slot -> SlotType]
    BY <1>10, <1>a DEF MapReturn, Misuse, TypeOK, SlotType
  <2>3. th' \in [Thread -> ThType]
    BY <1>10, <1>a, StepType, IdleType DEF MapReturn, Misuse, Return
  <2>4. table' \in [Iova -> 0 .. MaxMap] /\ alloc' \subseteq Iova
    BY <1>10, <1>a DEF MapReturn, Misuse, TypeOK
  <2>5. cookie' \in [type : {"iova", "msi"}, msi : Int]
    BY <1>10, <1>a DEF MapReturn, Misuse, TypeOK
  <2>6. pulled' \in [Slot -> Nat]
    BY <1>10, <1>a DEF MapReturn, Misuse, TypeOK
  <2> QED
    BY <2>1, <2>2, <2>3, <2>4, <2>5, <2>6 DEF TypeOK, SlotType, ThType
<1>11. ASSUME NEW t \in Thread, MapCopyFail(t)
      PROVE  TypeOK'
  <2>1. /\ careful' \in BOOLEAN /\ open' \subseteq Ctx /\ calls' \in 0 .. MaxMap
        /\ mutex' \in Thread \cup {None} /\ bad' \in BOOLEAN
    BY <1>11, <1>a DEF MapCopyFail, Misuse, TypeOK
  <2>2. slot' \in [Slot -> SlotType]
    BY <1>11, <1>a DEF MapCopyFail, Misuse, TypeOK, SlotType
  <2>3. th' \in [Thread -> ThType]
    BY <1>11, <1>a, GotoType DEF MapCopyFail, MapPcs, UnmapPcs
  <2>4. table' \in [Iova -> 0 .. MaxMap] /\ alloc' \subseteq Iova
    BY <1>11, <1>a, ResourceType DEF MapCopyFail
  <2>5. cookie' \in [type : {"iova", "msi"}, msi : Int]
    BY <1>11, <1>a, ResourceType DEF MapCopyFail
  <2>6. pulled' \in [Slot -> Nat]
    BY <1>11, <1>a, ResourceType DEF MapCopyFail
  <2> QED
    BY <2>1, <2>2, <2>3, <2>4, <2>5, <2>6 DEF TypeOK, SlotType, ThType
<1>12. ASSUME NEW t \in Thread, MapDel(t)
      PROVE  TypeOK'
  <2>1. /\ careful' \in BOOLEAN /\ open' \subseteq Ctx /\ calls' \in 0 .. MaxMap
        /\ mutex' \in Thread \cup {None} /\ bad' \in BOOLEAN
    BY <1>12, <1>a DEF MapDel, Misuse, TypeOK
  <2>2. slot' \in [Slot -> SlotType]
    BY <1>12, <1>a, <1>e, FreedType DEF MapDel
  <2>3. th' \in [Thread -> ThType]
    BY <1>12, <1>a, StepType, IdleType DEF MapDel, Misuse, Return
  <2>4. table' \in [Iova -> 0 .. MaxMap] /\ alloc' \subseteq Iova
    BY <1>12, <1>a DEF MapDel, Misuse, TypeOK
  <2>5. cookie' \in [type : {"iova", "msi"}, msi : Int]
    BY <1>12, <1>a DEF MapDel, Misuse, TypeOK
  <2>6. pulled' \in [Slot -> Nat]
    BY <1>12, <1>a DEF MapDel, Misuse, TypeOK
  <2> QED
    BY <2>1, <2>2, <2>3, <2>4, <2>5, <2>6 DEF TypeOK, SlotType, ThType
<1>13. ASSUME NEW t \in Thread, NEW n \in Slot, UnmapFind(t, n)
      PROVE  TypeOK'
  <2>1. /\ careful' \in BOOLEAN /\ open' \subseteq Ctx /\ calls' \in 0 .. MaxMap
        /\ mutex' \in Thread \cup {None} /\ bad' \in BOOLEAN
    BY <1>13, <1>a DEF UnmapFind, Misuse, TypeOK
  <2>2. slot' \in [Slot -> SlotType]
    BY <1>13, <1>a DEF UnmapFind, Misuse, TypeOK, SlotType
  <2>3. th' \in [Thread -> ThType]
    <3>1. [Idle EXCEPT !.n = n, !.pc = "unmap"] \in ThType
      <4>1. n \in 0 .. MaxMap /\ "unmap" \in MapPcs \cup UnmapPcs
        BY <1>d DEF Slot, UnmapPcs
      <4> QED
        BY <4>1, IdleType, BeginType
    <3> QED
      BY <1>13, <1>a, <3>1, StepType DEF UnmapFind
  <2>4. table' \in [Iova -> 0 .. MaxMap] /\ alloc' \subseteq Iova
    BY <1>13, <1>a DEF UnmapFind, Misuse, TypeOK
  <2>5. cookie' \in [type : {"iova", "msi"}, msi : Int]
    BY <1>13, <1>a DEF UnmapFind, Misuse, TypeOK
  <2>6. pulled' \in [Slot -> Nat]
    BY <1>13, <1>a DEF UnmapFind, Misuse, TypeOK
  <2> QED
    BY <2>1, <2>2, <2>3, <2>4, <2>5, <2>6 DEF TypeOK, SlotType, ThType
<1>14. ASSUME NEW t \in Thread, UnmapTable(t)
      PROVE  TypeOK'
  <2>1. /\ careful' \in BOOLEAN /\ open' \subseteq Ctx /\ calls' \in 0 .. MaxMap
        /\ mutex' \in Thread \cup {None} /\ bad' \in BOOLEAN
    BY <1>14, <1>a DEF UnmapTable, Misuse, TypeOK
  <2>2. slot' \in [Slot -> SlotType]
    BY <1>14, <1>a DEF UnmapTable, Misuse, TypeOK, SlotType
  <2>3. th' \in [Thread -> ThType]
    BY <1>14, <1>a, GotoType DEF UnmapTable, MapPcs, UnmapPcs
  <2>4. table' \in [Iova -> 0 .. MaxMap] /\ alloc' \subseteq Iova
    BY <1>14, <1>a, ResourceType DEF UnmapTable
  <2>5. cookie' \in [type : {"iova", "msi"}, msi : Int]
    BY <1>14, <1>a, ResourceType DEF UnmapTable
  <2>6. pulled' \in [Slot -> Nat]
    BY <1>14, <1>a, ResourceType DEF UnmapTable
  <2> QED
    BY <2>1, <2>2, <2>3, <2>4, <2>5, <2>6 DEF TypeOK, SlotType, ThType
<1>15. ASSUME NEW t \in Thread, UnmapDel(t)
      PROVE  TypeOK'
  <2>1. /\ careful' \in BOOLEAN /\ open' \subseteq Ctx /\ calls' \in 0 .. MaxMap
        /\ mutex' \in Thread \cup {None} /\ bad' \in BOOLEAN
    BY <1>15, <1>a DEF UnmapDel, Misuse, TypeOK
  <2>2. slot' \in [Slot -> SlotType]
    BY <1>15, <1>a, <1>e, FreedType DEF UnmapDel
  <2>3. th' \in [Thread -> ThType]
    BY <1>15, <1>a, StepType, IdleType DEF UnmapDel, Misuse, Return
  <2>4. table' \in [Iova -> 0 .. MaxMap] /\ alloc' \subseteq Iova
    BY <1>15, <1>a DEF UnmapDel, Misuse, TypeOK
  <2>5. cookie' \in [type : {"iova", "msi"}, msi : Int]
    BY <1>15, <1>a DEF UnmapDel, Misuse, TypeOK
  <2>6. pulled' \in [Slot -> Nat]
    BY <1>15, <1>a DEF UnmapDel, Misuse, TypeOK
  <2> QED
    BY <2>1, <2>2, <2>3, <2>4, <2>5, <2>6 DEF TypeOK, SlotType, ThType
<1>16. ASSUME NEW t \in Thread, UseFreed(t)
      PROVE  TypeOK'
  <2>1. /\ careful' \in BOOLEAN /\ open' \subseteq Ctx /\ calls' \in 0 .. MaxMap
        /\ mutex' \in Thread \cup {None} /\ bad' \in BOOLEAN
    BY <1>16, <1>a DEF UseFreed, Misuse, TypeOK
  <2>2. slot' \in [Slot -> SlotType]
    BY <1>16, <1>a DEF UseFreed, Misuse, TypeOK, SlotType
  <2>3. th' \in [Thread -> ThType]
    BY <1>16, <1>a, StepType, IdleType DEF UseFreed, Misuse, Return
  <2>4. table' \in [Iova -> 0 .. MaxMap] /\ alloc' \subseteq Iova
    BY <1>16, <1>a DEF UseFreed, Misuse, TypeOK
  <2>5. cookie' \in [type : {"iova", "msi"}, msi : Int]
    BY <1>16, <1>a DEF UseFreed, Misuse, TypeOK
  <2>6. pulled' \in [Slot -> Nat]
    BY <1>16, <1>a DEF UseFreed, Misuse, TypeOK
  <2> QED
    BY <2>1, <2>2, <2>3, <2>4, <2>5, <2>6 DEF TypeOK, SlotType, ThType
<1>17. ASSUME NEW c \in Ctx, Close(c)
      PROVE  TypeOK'
  BY <1>17, <1>a DEF Close, TypeOK
<1>18. ASSUME NEW n \in Slot, CloseEntry(n)
      PROVE  TypeOK'
  <2>1. slot' \in [Slot -> SlotType]
    BY <1>18, <1>a, FreedType DEF CloseEntry
  <2>2. /\ table' \in [Iova -> 0 .. MaxMap] /\ alloc' \subseteq Iova
        /\ cookie' \in [type : {"iova", "msi"}, msi : Int]
        /\ pulled' \in [Slot -> Nat]
    BY <1>18, <1>a, ResourceType DEF CloseEntry
  <2>3. UNCHANGED <<careful, open, calls, mutex, th, bad>>
    BY <1>18 DEF CloseEntry
  <2> QED
    BY <1>a, <2>1, <2>2, <2>3 DEF TypeOK, SlotType
<1> QED
  BY <1>1, <1>2, <1>3, <1>4, <1>5, <1>6, <1>7, <1>8, <1>9,
     <1>10, <1>11, <1>12, <1>13, <1>14, <1>15, <1>16, <1>17, <1>18 DEF Next, Map, Unmap

\* Page i is in reach of a hashed entry or of the call that maps it.
Owned(i) ==
    \/ slot[table[i]].mem = "hashed" /\ slot[table[i]].iova = i
    \/ \E t \in Users(table[i]) : th[t].pc \in {"reset", "hash"} /\ th[t].iova = i

\* MappedOwned is Owned of every page.
LEMMA OwnedForm ==
    /\ MappedOwned <=> (~bad => \A i \in Iova : table[i] # 0 => Owned(i))
    /\ MappedOwned' <=> (~bad' => \A i \in Iova : table'[i] # 0 => Owned(i)')
  BY DEF MappedOwned, Owned

\* What is mapped stays within reach of an entry or of the call that maps it.
LEMMA OwnedKept ==
    ASSUME IInv, Next
    PROVE  MappedOwned'
<1>a. TypeOK
  BY DEF IInv
<1>b. Unbegun /\ OneMapper /\ InOpen /\ \A u \in Thread : ThreadOf(u)
  BY DEF IInv
<1>c. ~bad => \A i \in Iova : table[i] # 0 => Owned(i)
  BY OwnedForm DEF IInv
<1>d. MaxMap \in Nat /\ Iovas \in Nat
  BY Addresses
<1>e. \A u \in Thread : th[u].pc # "idle" => th[u].n \in Slot
  BY <1>a, <1>b, <1>d DEF TypeOK, ThreadOf, Slot
<1>f. UnplacedFree
  BY DEF IInv
<1>1. ASSUME NEW t \in Thread, NEW c \in Ctx, NEW fixed \in BOOLEAN, NEW req \in Iova, MapStart(t, c, fixed, req)
      PROVE  MappedOwned'
  <2> SUFFICES ASSUME ~bad', NEW i \in Iova, table'[i] # 0 PROVE Owned(i)'
    BY OwnedForm
  <2>1. ~bad /\ table[i] # 0 /\ table'[i] = table[i] /\ Owned(i)
    BY <1>1, <1>a, <1>c DEF MapStart, UnmapResource, FreeIova, Misuse, TypeOK
  <2>2. table[i] \in Slot
    BY <1>a, <1>d, <2>1 DEF TypeOK, Slot
  <2>3. CASE slot[table[i]].mem = "hashed" /\ slot[table[i]].iova = i
    <3>1. slot'[table[i]].mem = "hashed" /\ slot'[table[i]].iova = i
      <4>1. table[i] # calls + 1
        BY <1>a, <1>b, <2>2, <2>3 DEF TypeOK, Unbegun
      <4>2. slot'[table[i]] = slot[table[i]]
        BY <1>1, <1>a, <2>2, <4>1 DEF MapStart, TypeOK
      <4> QED
        BY <2>3, <4>2
    <3> QED
      BY <2>1, <3>1 DEF Owned
  <2>4. ASSUME NEW u \in Users(table[i]), th[u].pc \in {"reset", "hash"}, th[u].iova = i
        PROVE  Owned(i)'
    <3>1. u \in Thread /\ th[u].n = table[i] /\ u # t
      BY <1>1, <2>4 DEF MapStart, Users, Idle
    <3>2. th'[u] = th[u]
      BY <1>1, <1>a, <3>1 DEF MapStart, Goto, Return, Misuse, TypeOK
    <3> QED
      BY <2>1, <2>4, <3>1, <3>2 DEF Owned, Users
  <2> QED
    BY <2>1, <2>3, <2>4 DEF Owned
<1>2. ASSUME NEW t \in Thread, MapReject(t)
      PROVE  MappedOwned'
  <2> SUFFICES ASSUME ~bad', NEW i \in Iova, table'[i] # 0 PROVE Owned(i)'
    BY OwnedForm
  <2>1. ~bad /\ table[i] # 0 /\ table'[i] = table[i] /\ Owned(i)
    BY <1>2, <1>a, <1>c DEF MapReject, UnmapResource, FreeIova, Misuse, TypeOK
  <2>2. table[i] \in Slot
    BY <1>a, <1>d, <2>1 DEF TypeOK, Slot
  <2>3. CASE slot[table[i]].mem = "hashed" /\ slot[table[i]].iova = i
    <3>1. slot'[table[i]].mem = "hashed" /\ slot'[table[i]].iova = i
      BY <1>2, <1>a, <1>b, <1>e, <2>2, <2>3 DEF MapReject, Misuse, TypeOK, ThreadOf, Unbegun, Slot
    <3> QED
      BY <2>1, <3>1 DEF Owned
  <2>4. ASSUME NEW u \in Users(table[i]), th[u].pc \in {"reset", "hash"}, th[u].iova = i
        PROVE  Owned(i)'
    <3>1. u \in Thread /\ th[u].n = table[i] /\ u # t
      BY <1>2, <2>4 DEF MapReject, Users, Idle
    <3>2. th'[u] = th[u]
      BY <1>2, <1>a, <3>1 DEF MapReject, Goto, Return, Misuse, TypeOK
    <3> QED
      BY <2>1, <2>4, <3>1, <3>2 DEF Owned, Users
  <2> QED
    BY <2>1, <2>3, <2>4 DEF Owned
<1>3. ASSUME NEW t \in Thread, MapSetCookie(t)
      PROVE  MappedOwned'
  <2> SUFFICES ASSUME ~bad', NEW i \in Iova, table'[i] # 0 PROVE Owned(i)'
    BY OwnedForm
  <2>1. ~bad /\ table[i] # 0 /\ table'[i] = table[i] /\ Owned(i)
    BY <1>3, <1>a, <1>c DEF MapSetCookie, UnmapResource, FreeIova, Misuse, TypeOK
  <2>2. table[i] \in Slot
    BY <1>a, <1>d, <2>1 DEF TypeOK, Slot
  <2>3. CASE slot[table[i]].mem = "hashed" /\ slot[table[i]].iova = i
    <3>1. slot'[table[i]].mem = "hashed" /\ slot'[table[i]].iova = i
      BY <1>3, <1>a, <1>b, <1>e, <2>2, <2>3 DEF MapSetCookie, Misuse, TypeOK, ThreadOf, Unbegun, Slot
    <3> QED
      BY <2>1, <3>1 DEF Owned
  <2>4. ASSUME NEW u \in Users(table[i]), th[u].pc \in {"reset", "hash"}, th[u].iova = i
        PROVE  Owned(i)'
    <3>1. u \in Thread /\ th[u].n = table[i] /\ u # t
      BY <1>3, <2>4 DEF MapSetCookie, Users, Idle
    <3>2. th'[u] = th[u]
      BY <1>3, <1>a, <3>1 DEF MapSetCookie, Goto, Return, Misuse, TypeOK
    <3> QED
      BY <2>1, <2>4, <3>1, <3>2 DEF Owned, Users
  <2> QED
    BY <2>1, <2>3, <2>4 DEF Owned
<1>4. ASSUME NEW t \in Thread, MapAllocMsi(t)
      PROVE  MappedOwned'
  <2> SUFFICES ASSUME ~bad', NEW i \in Iova, table'[i] # 0 PROVE Owned(i)'
    BY OwnedForm
  <2>1. ~bad /\ table[i] # 0 /\ table'[i] = table[i] /\ Owned(i)
    BY <1>4, <1>a, <1>c DEF MapAllocMsi, UnmapResource, FreeIova, Misuse, TypeOK
  <2>2. table[i] \in Slot
    BY <1>a, <1>d, <2>1 DEF TypeOK, Slot
  <2>3. CASE slot[table[i]].mem = "hashed" /\ slot[table[i]].iova = i
    <3>1. slot'[table[i]].mem = "hashed" /\ slot'[table[i]].iova = i
      BY <1>4, <1>a, <1>b, <1>e, <2>2, <2>3 DEF MapAllocMsi, Misuse, TypeOK, ThreadOf, Unbegun, Slot
    <3> QED
      BY <2>1, <3>1 DEF Owned
  <2>4. ASSUME NEW u \in Users(table[i]), th[u].pc \in {"reset", "hash"}, th[u].iova = i
        PROVE  Owned(i)'
    <3>1. u \in Thread /\ th[u].n = table[i] /\ u # t
      BY <1>4, <2>4 DEF MapAllocMsi, Users, Idle
    <3>2. th'[u] = th[u]
      BY <1>4, <1>a, <3>1 DEF MapAllocMsi, Goto, Return, Misuse, TypeOK
    <3> QED
      BY <2>1, <2>4, <3>1, <3>2 DEF Owned, Users
  <2> QED
    BY <2>1, <2>3, <2>4 DEF Owned
<1>5. ASSUME NEW t \in Thread, MapAllocIova(t)
      PROVE  MappedOwned'
  <2> SUFFICES ASSUME ~bad', NEW i \in Iova, table'[i] # 0 PROVE Owned(i)'
    BY OwnedForm
  <2>1. ~bad /\ table[i] # 0 /\ table'[i] = table[i] /\ Owned(i)
    BY <1>5, <1>a, <1>c DEF MapAllocIova, UnmapResource, FreeIova, Misuse, TypeOK
  <2>2. table[i] \in Slot
    BY <1>a, <1>d, <2>1 DEF TypeOK, Slot
  <2>3. CASE slot[table[i]].mem = "hashed" /\ slot[table[i]].iova = i
    <3>1. slot'[table[i]].mem = "hashed" /\ slot'[table[i]].iova = i
      BY <1>5, <1>a, <1>b, <1>e, <2>2, <2>3 DEF MapAllocIova, Misuse, TypeOK, ThreadOf, Unbegun, Slot
    <3> QED
      BY <2>1, <3>1 DEF Owned
  <2>4. ASSUME NEW u \in Users(table[i]), th[u].pc \in {"reset", "hash"}, th[u].iova = i
        PROVE  Owned(i)'
    <3>1. u \in Thread /\ th[u].n = table[i] /\ u # t
      BY <1>5, <2>4 DEF MapAllocIova, Users, Idle
    <3>2. th'[u] = th[u]
      BY <1>5, <1>a, <3>1 DEF MapAllocIova, Goto, Return, Misuse, TypeOK
    <3> QED
      BY <2>1, <2>4, <3>1, <3>2 DEF Owned, Users
  <2> QED
    BY <2>1, <2>3, <2>4 DEF Owned
<1>6. ASSUME NEW t \in Thread, MapTable(t)
      PROVE  MappedOwned'
  <2> SUFFICES ASSUME ~bad', NEW i \in Iova, table'[i] # 0 PROVE Owned(i)'
    BY OwnedForm
  <2>1. th'[t].pc \in {"reset", "hash"} /\ th'[t].iova = th[t].iova /\ th'[t].n = th[t].n
    BY <1>6, <1>a DEF MapTable, Goto, TypeOK
  <2>2. CASE i = th[t].iova
    <3>1. table'[i] = th[t].n
      BY <1>6, <1>a, <2>2 DEF MapTable, TypeOK
    <3> QED
      BY <2>1, <2>2, <3>1 DEF Owned, Users
  <2>3. CASE i # th[t].iova
    <3>1. table'[i] = table[i] /\ slot' = slot /\ Owned(i)
      BY <1>6, <1>a, <1>c, <2>3 DEF MapTable, TypeOK
    <3>2. \A u \in Thread : th[u].pc \in {"reset", "hash"} => th'[u] = th[u]
      BY <1>6, <1>a DEF MapTable, Goto, TypeOK
    <3> QED
      BY <3>1, <3>2 DEF Owned, Users
  <2> QED
    BY <2>2, <2>3
<1>7. ASSUME NEW t \in Thread, MapTableFail(t)
      PROVE  MappedOwned'
  <2> SUFFICES ASSUME ~bad', NEW i \in Iova, table'[i] # 0 PROVE Owned(i)'
    BY OwnedForm
  <2>1. ~bad /\ table[i] # 0 /\ table'[i] = table[i] /\ Owned(i)
    BY <1>7, <1>a, <1>c DEF MapTableFail, UnmapResource, FreeIova, Misuse, TypeOK
  <2>2. table[i] \in Slot
    BY <1>a, <1>d, <2>1 DEF TypeOK, Slot
  <2>3. CASE slot[table[i]].mem = "hashed" /\ slot[table[i]].iova = i
    <3>1. slot'[table[i]].mem = "hashed" /\ slot'[table[i]].iova = i
      BY <1>7, <1>a, <1>b, <1>e, <2>2, <2>3 DEF MapTableFail, Misuse, TypeOK, ThreadOf, Unbegun, Slot
    <3> QED
      BY <2>1, <3>1 DEF Owned
  <2>4. ASSUME NEW u \in Users(table[i]), th[u].pc \in {"reset", "hash"}, th[u].iova = i
        PROVE  Owned(i)'
    <3>1. u \in Thread /\ th[u].n = table[i] /\ u # t
      BY <1>7, <2>4 DEF MapTableFail, Users, Idle
    <3>2. th'[u] = th[u]
      BY <1>7, <1>a, <3>1 DEF MapTableFail, Goto, Return, Misuse, TypeOK
    <3> QED
      BY <2>1, <2>4, <3>1, <3>2 DEF Owned, Users
  <2> QED
    BY <2>1, <2>3, <2>4 DEF Owned
<1>8. ASSUME NEW t \in Thread, MapResetCookie(t)
      PROVE  MappedOwned'
  <2> SUFFICES ASSUME ~bad', NEW i \in Iova, table'[i] # 0 PROVE Owned(i)'
    BY OwnedForm
  <2>1. ~bad /\ table[i] # 0 /\ table'[i] = table[i] /\ Owned(i)
    BY <1>8, <1>a, <1>c DEF MapResetCookie, UnmapResource, FreeIova, Misuse, TypeOK
  <2>2. table[i] \in Slot
    BY <1>a, <1>d, <2>1 DEF TypeOK, Slot
  <2>3. CASE slot[table[i]].mem = "hashed" /\ slot[table[i]].iova = i
    <3>1. slot'[table[i]].mem = "hashed" /\ slot'[table[i]].iova = i
      BY <1>8, <1>a, <1>b, <1>e, <2>2, <2>3 DEF MapResetCookie, Misuse, TypeOK, ThreadOf, Unbegun, Slot
    <3> QED
      BY <2>1, <3>1 DEF Owned
  <2>4. ASSUME NEW u \in Users(table[i]), th[u].pc \in {"reset", "hash"}, th[u].iova = i
        PROVE  Owned(i)'
    <3>1. u \in Thread /\ th[u].n = table[i] /\ (u = t => ~th[u].err)
      BY <1>8, <1>f, <2>1, <2>4 DEF MapResetCookie, Users, UnplacedFree, Unplaced
    <3>2. th'[u].n = th[u].n /\ th'[u].iova = th[u].iova /\ th'[u].pc \in {"reset", "hash"}
      BY <1>8, <1>a, <2>4, <3>1 DEF MapResetCookie, Goto, TypeOK
    <3> QED
      BY <2>1, <2>4, <3>1, <3>2 DEF Owned, Users
  <2> QED
    BY <2>1, <2>3, <2>4 DEF Owned
<1>9. ASSUME NEW t \in Thread, MapHash(t)
      PROVE  MappedOwned'
  <2> SUFFICES ASSUME ~bad', NEW i \in Iova, table'[i] # 0 PROVE Owned(i)'
    BY OwnedForm
  <2>1. ~bad /\ table[i] # 0 /\ table'[i] = table[i] /\ Owned(i)
    BY <1>9, <1>a, <1>c DEF MapHash, UnmapResource, FreeIova, Misuse, TypeOK
  <2>2. table[i] \in Slot
    BY <1>a, <1>d, <2>1 DEF TypeOK, Slot
  <2>3. CASE slot[table[i]].mem = "hashed" /\ slot[table[i]].iova = i
    <3>1. slot'[table[i]].mem = "hashed" /\ slot'[table[i]].iova = i
      BY <1>9, <1>a, <1>b, <1>e, <2>2, <2>3 DEF MapHash, Misuse, TypeOK, ThreadOf, Unbegun, Slot
    <3> QED
      BY <2>1, <3>1 DEF Owned
  <2>4. ASSUME NEW u \in Users(table[i]), th[u].pc \in {"reset", "hash"}, th[u].iova = i
        PROVE  Owned(i)'
    <3>1. u \in Thread /\ th[u].n = table[i]
      BY <2>4 DEF Users
    <3>2. CASE u = t
      <4>1. slot'[table[i]].mem = "hashed" /\ slot'[table[i]].iova = i
        BY <1>9, <1>a, <2>2, <2>4, <3>1, <3>2 DEF MapHash, TypeOK
      <4> QED
        BY <2>1, <4>1 DEF Owned
    <3>3. CASE u # t
      <4>1. th'[u] = th[u]
        BY <1>9, <1>a, <3>1, <3>3 DEF MapHash, Goto, TypeOK
      <4> QED
        BY <2>1, <2>4, <3>1, <4>1 DEF Owned, Users
    <3> QED
      BY <3>2, <3>3
  <2> QED
    BY <2>1, <2>3, <2>4 DEF Owned
<1>10. ASSUME NEW t \in Thread, MapReturn(t)
      PROVE  MappedOwned'
  <2> SUFFICES ASSUME ~bad', NEW i \in Iova, table'[i] # 0 PROVE Owned(i)'
    BY OwnedForm
  <2>1. ~bad /\ table[i] # 0 /\ table'[i] = table[i] /\ Owned(i)
    BY <1>10, <1>a, <1>c DEF MapReturn, UnmapResource, FreeIova, Misuse, TypeOK
  <2>2. table[i] \in Slot
    BY <1>a, <1>d, <2>1 DEF TypeOK, Slot
  <2>3. CASE slot[table[i]].mem = "hashed" /\ slot[table[i]].iova = i
    <3>1. slot'[table[i]].mem = "hashed" /\ slot'[table[i]].iova = i
      BY <1>10, <1>a, <1>b, <1>e, <2>2, <2>3 DEF MapReturn, Misuse, TypeOK, ThreadOf, Unbegun, Slot
    <3> QED
      BY <2>1, <3>1 DEF Owned
  <2>4. ASSUME NEW u \in Users(table[i]), th[u].pc \in {"reset", "hash"}, th[u].iova = i
        PROVE  Owned(i)'
    <3>1. u \in Thread /\ th[u].n = table[i] /\ u # t
      BY <1>10, <2>4 DEF MapReturn, Users, Idle
    <3>2. th'[u] = th[u]
      BY <1>10, <1>a, <3>1 DEF MapReturn, Goto, Return, Misuse, TypeOK
    <3> QED
      BY <2>1, <2>4, <3>1, <3>2 DEF Owned, Users
  <2> QED
    BY <2>1, <2>3, <2>4 DEF Owned
<1>11. ASSUME NEW t \in Thread, MapCopyFail(t)
      PROVE  MappedOwned'
  <2> SUFFICES ASSUME ~bad', NEW i \in Iova, table'[i] # 0 PROVE Owned(i)'
    BY OwnedForm
  <2>1. ~bad /\ table[i] # 0 /\ table'[i] = table[i] /\ Owned(i)
    BY <1>11, <1>a, <1>c DEF MapCopyFail, UnmapResource, FreeIova, Misuse, TypeOK
  <2>2. table[i] \in Slot
    BY <1>a, <1>d, <2>1 DEF TypeOK, Slot
  <2>3. CASE slot[table[i]].mem = "hashed" /\ slot[table[i]].iova = i
    <3>1. slot'[table[i]].mem = "hashed" /\ slot'[table[i]].iova = i
      BY <1>11, <1>a, <1>b, <1>e, <2>2, <2>3 DEF MapCopyFail, Misuse, TypeOK, ThreadOf, Unbegun, Slot
    <3> QED
      BY <2>1, <3>1 DEF Owned
  <2>4. ASSUME NEW u \in Users(table[i]), th[u].pc \in {"reset", "hash"}, th[u].iova = i
        PROVE  Owned(i)'
    <3>1. u \in Thread /\ th[u].n = table[i] /\ u # t
      BY <1>11, <2>4 DEF MapCopyFail, Users, Idle
    <3>2. th'[u] = th[u]
      BY <1>11, <1>a, <3>1 DEF MapCopyFail, Goto, Return, Misuse, TypeOK
    <3> QED
      BY <2>1, <2>4, <3>1, <3>2 DEF Owned, Users
  <2> QED
    BY <2>1, <2>3, <2>4 DEF Owned
<1>12. ASSUME NEW t \in Thread, MapDel(t)
      PROVE  MappedOwned'
  <2> SUFFICES ASSUME ~bad', NEW i \in Iova, table'[i] # 0 PROVE Owned(i)'
    BY OwnedForm
  <2>1. ~bad /\ table[i] # 0 /\ table'[i] = table[i] /\ Owned(i)
    BY <1>12, <1>a, <1>c DEF MapDel, UnmapResource, FreeIova, Misuse, TypeOK
  <2>2. table[i] \in Slot
    BY <1>a, <1>d, <2>1 DEF TypeOK, Slot
  <2>3. CASE slot[table[i]].mem = "hashed" /\ slot[table[i]].iova = i
    <3>1. slot'[table[i]].mem = "hashed" /\ slot'[table[i]].iova = i
      BY <1>12, <1>a, <1>b, <1>e, <1>f, <2>1, <2>2, <2>3 DEF MapDel, TypeOK, ThreadOf, UnplacedFree, Unplaced
    <3> QED
      BY <2>1, <3>1 DEF Owned
  <2>4. ASSUME NEW u \in Users(table[i]), th[u].pc \in {"reset", "hash"}, th[u].iova = i
        PROVE  Owned(i)'
    <3>1. u \in Thread /\ th[u].n = table[i] /\ u # t
      BY <1>12, <2>4 DEF MapDel, Users, Idle
    <3>2. th'[u] = th[u]
      BY <1>12, <1>a, <3>1 DEF MapDel, Goto, Return, Misuse, TypeOK
    <3> QED
      BY <2>1, <2>4, <3>1, <3>2 DEF Owned, Users
  <2> QED
    BY <2>1, <2>3, <2>4 DEF Owned
<1>13. ASSUME NEW t \in Thread, NEW n \in Slot, UnmapFind(t, n)
      PROVE  MappedOwned'
  <2> SUFFICES ASSUME ~bad', NEW i \in Iova, table'[i] # 0 PROVE Owned(i)'
    BY OwnedForm
  <2>1. ~bad /\ table[i] # 0 /\ table'[i] = table[i] /\ Owned(i)
    BY <1>13, <1>a, <1>c DEF UnmapFind, UnmapResource, FreeIova, Misuse, TypeOK
  <2>2. table[i] \in Slot
    BY <1>a, <1>d, <2>1 DEF TypeOK, Slot
  <2>3. CASE slot[table[i]].mem = "hashed" /\ slot[table[i]].iova = i
    <3>1. slot'[table[i]].mem = "hashed" /\ slot'[table[i]].iova = i
      BY <1>13, <1>a, <1>b, <1>e, <2>2, <2>3 DEF UnmapFind, Misuse, TypeOK, ThreadOf, Unbegun, Slot
    <3> QED
      BY <2>1, <3>1 DEF Owned
  <2>4. ASSUME NEW u \in Users(table[i]), th[u].pc \in {"reset", "hash"}, th[u].iova = i
        PROVE  Owned(i)'
    <3>1. u \in Thread /\ th[u].n = table[i] /\ u # t
      BY <1>13, <2>4 DEF UnmapFind, Users, Idle
    <3>2. th'[u] = th[u]
      BY <1>13, <1>a, <3>1 DEF UnmapFind, Goto, Return, Misuse, TypeOK
    <3> QED
      BY <2>1, <2>4, <3>1, <3>2 DEF Owned, Users
  <2> QED
    BY <2>1, <2>3, <2>4 DEF Owned
<1>14. ASSUME NEW t \in Thread, UnmapTable(t)
      PROVE  MappedOwned'
  <2> SUFFICES ASSUME ~bad', NEW i \in Iova, table'[i] # 0 PROVE Owned(i)'
    BY OwnedForm
  <2>1. ~bad /\ table[i] # 0 /\ table'[i] = table[i] /\ Owned(i)
    BY <1>14, <1>a, <1>c DEF UnmapTable, UnmapResource, FreeIova, Misuse, TypeOK
  <2>2. table[i] \in Slot
    BY <1>a, <1>d, <2>1 DEF TypeOK, Slot
  <2>3. CASE slot[table[i]].mem = "hashed" /\ slot[table[i]].iova = i
    <3>1. slot'[table[i]].mem = "hashed" /\ slot'[table[i]].iova = i
      BY <1>14, <1>a, <1>b, <1>e, <2>2, <2>3 DEF UnmapTable, Misuse, TypeOK, ThreadOf, Unbegun, Slot
    <3> QED
      BY <2>1, <3>1 DEF Owned
  <2>4. ASSUME NEW u \in Users(table[i]), th[u].pc \in {"reset", "hash"}, th[u].iova = i
        PROVE  Owned(i)'
    <3>1. u \in Thread /\ th[u].n = table[i] /\ u # t
      BY <1>14, <2>4 DEF UnmapTable, Users, Idle
    <3>2. th'[u] = th[u]
      BY <1>14, <1>a, <3>1 DEF UnmapTable, Goto, Return, Misuse, TypeOK
    <3> QED
      BY <2>1, <2>4, <3>1, <3>2 DEF Owned, Users
  <2> QED
    BY <2>1, <2>3, <2>4 DEF Owned
<1>15. ASSUME NEW t \in Thread, UnmapDel(t)
      PROVE  MappedOwned'
  <2> SUFFICES ASSUME ~bad', NEW i \in Iova, table'[i] # 0 PROVE Owned(i)'
    BY OwnedForm
  <2>1. ~bad /\ table[i] # 0 /\ table'[i] = table[i] /\ Owned(i)
    BY <1>15, <1>a, <1>c DEF UnmapDel, UnmapResource, FreeIova, Misuse, TypeOK
  <2>2. table[i] \in Slot
    BY <1>a, <1>d, <2>1 DEF TypeOK, Slot
  <2>3. CASE slot[table[i]].mem = "hashed" /\ slot[table[i]].iova = i
    <3>1. slot'[table[i]].mem = "hashed" /\ slot'[table[i]].iova = i
      BY <1>15, <1>a, <1>b, <1>e, <1>f, <2>1, <2>2, <2>3 DEF UnmapDel, TypeOK, ThreadOf, UnplacedFree, Unplaced
    <3> QED
      BY <2>1, <3>1 DEF Owned
  <2>4. ASSUME NEW u \in Users(table[i]), th[u].pc \in {"reset", "hash"}, th[u].iova = i
        PROVE  Owned(i)'
    <3>1. u \in Thread /\ th[u].n = table[i] /\ u # t
      BY <1>15, <2>4 DEF UnmapDel, Users, Idle
    <3>2. th'[u] = th[u]
      BY <1>15, <1>a, <3>1 DEF UnmapDel, Goto, Return, Misuse, TypeOK
    <3> QED
      BY <2>1, <2>4, <3>1, <3>2 DEF Owned, Users
  <2> QED
    BY <2>1, <2>3, <2>4 DEF Owned
<1>16. ASSUME NEW t \in Thread, UseFreed(t)
      PROVE  MappedOwned'
  <2> SUFFICES ASSUME ~bad', NEW i \in Iova, table'[i] # 0 PROVE Owned(i)'
    BY OwnedForm
  <2>1. ~bad /\ table[i] # 0 /\ table'[i] = table[i] /\ Owned(i)
    BY <1>16, <1>a, <1>c DEF UseFreed, UnmapResource, FreeIova, Misuse, TypeOK
  <2>2. table[i] \in Slot
    BY <1>a, <1>d, <2>1 DEF TypeOK, Slot
  <2>3. CASE slot[table[i]].mem = "hashed" /\ slot[table[i]].iova = i
    <3>1. slot'[table[i]].mem = "hashed" /\ slot'[table[i]].iova = i
      BY <1>16, <1>a, <1>b, <1>e, <2>2, <2>3 DEF UseFreed, Misuse, TypeOK, ThreadOf, Unbegun, Slot
    <3> QED
      BY <2>1, <3>1 DEF Owned
  <2>4. ASSUME NEW u \in Users(table[i]), th[u].pc \in {"reset", "hash"}, th[u].iova = i
        PROVE  Owned(i)'
    <3>1. u \in Thread /\ th[u].n = table[i] /\ u # t
      BY <1>16, <2>4 DEF UseFreed, Users, Idle
    <3>2. th'[u] = th[u]
      BY <1>16, <1>a, <3>1 DEF UseFreed, Goto, Return, Misuse, TypeOK
    <3> QED
      BY <2>1, <2>4, <3>1, <3>2 DEF Owned, Users
  <2> QED
    BY <2>1, <2>3, <2>4 DEF Owned
<1>17. ASSUME NEW c \in Ctx, Close(c)
      PROVE  MappedOwned'
  <2>1. MappedOwned /\ UNCHANGED <<slot, table, th, bad>>
    BY <1>17 DEF Close, IInv
  <2> QED
    BY <2>1 DEF MappedOwned, Users
<1>18. ASSUME NEW n \in Slot, CloseEntry(n)
      PROVE  MappedOwned'
  <2> SUFFICES ASSUME ~bad', NEW i \in Iova, table'[i] # 0 PROVE Owned(i)'
    BY OwnedForm
  <2>1. ~bad /\ table[i] # 0 /\ table'[i] = table[i] /\ Owned(i) /\ i # slot[n].iova
    BY <1>18, <1>a, <1>c DEF CloseEntry, UnmapResource, TypeOK
  <2>2. table[i] \in Slot /\ th' = th
    BY <1>18, <1>a, <1>d, <2>1 DEF CloseEntry, TypeOK, Slot
  <2>3. CASE slot[table[i]].mem = "hashed" /\ slot[table[i]].iova = i
    <3>1. slot'[table[i]] = slot[table[i]]
      BY <1>18, <1>a, <2>1, <2>2, <2>3 DEF CloseEntry, TypeOK
    <3> QED
      BY <2>1, <2>3, <3>1 DEF Owned
  <2>4. ASSUME NEW u \in Users(table[i]), th[u].pc \in {"reset", "hash"}, th[u].iova = i
        PROVE  Owned(i)'
    BY <2>1, <2>2, <2>4 DEF Owned, Users
  <2> QED
    BY <2>1, <2>3, <2>4 DEF Owned
<1> QED
  BY <1>1, <1>2, <1>3, <1>4, <1>5, <1>6, <1>7, <1>8, <1>9,
     <1>10, <1>11, <1>12, <1>13, <1>14, <1>15, <1>16, <1>17, <1>18 DEF Next, Map, Unmap

\* A call that has mapped nothing, or has unmapped it again, has no page.
LEMMA UnplacedKept ==
    ASSUME IInv, Next
    PROVE  UnplacedFree'
<1>a. TypeOK
  BY DEF IInv
<1>b. Unbegun /\ OneMapper /\ InOpen /\ \A u \in Thread : ThreadOf(u)
  BY DEF IInv
<1>c. ~bad => \A i \in Iova : table[i] # 0 => Owned(i)
  BY OwnedForm DEF IInv
<1>d. MaxMap \in Nat /\ Iovas \in Nat
  BY Addresses
<1>e. \A u \in Thread : th[u].pc # "idle" => th[u].n \in Slot
  BY <1>a, <1>b, <1>d DEF TypeOK, ThreadOf, Slot
<1>f. UnplacedFree
  BY DEF IInv
<1>1. ASSUME NEW t \in Thread, NEW c \in Ctx, NEW fixed \in BOOLEAN, NEW req \in Iova, MapStart(t, c, fixed, req)
      PROVE  UnplacedFree'
  <2> SUFFICES ASSUME ~bad', NEW u \in Thread, Unplaced(u)', NEW i \in Iova, table'[i] = th'[u].n PROVE FALSE
    BY DEF UnplacedFree
  <2>1. ~bad
    BY <1>1 DEF MapStart, Misuse
  <2>2. CASE u = t
    <3>1. table' = table /\ th'[t].n = calls + 1 /\ calls \in Nat
      BY <1>1, <1>a, <1>d DEF MapStart, TypeOK, Idle
    <3>2. table[i] = calls + 1 /\ table[i] # 0 /\ Owned(i)
      BY <1>a, <1>c, <2>1, <2>2, <3>1 DEF TypeOK
    <3>3. \A v \in Thread : th[v].n # calls + 1
      BY <1>a, <1>b, <1>d, <3>1 DEF ThreadOf, TypeOK
    <3>4. calls + 1 \in Slot
      BY <1>1, <1>a, <1>d DEF MapStart, TypeOK, Slot
    <3>5. slot[calls + 1].mem = "none"
      BY <1>a, <1>b, <1>d, <3>1, <3>4 DEF Unbegun, Slot
    <3> QED
      BY <3>2, <3>3, <3>5 DEF Owned, Users
  <2>3. CASE u # t
    <3>1. th'[u] = th[u] /\ Unplaced(u)
      BY <1>1, <1>a, <2>3 DEF MapStart, Goto, Return, Misuse, TypeOK, Unplaced
    <3>2. table[i] = th[u].n
      BY <1>1, <1>a, <1>b, <3>1 DEF MapStart, UnmapResource, FreeIova, Misuse, TypeOK, Unplaced, ThreadOf
    <3> QED
      BY <1>f, <2>1, <3>1, <3>2 DEF UnplacedFree
  <2> QED
    BY <2>2, <2>3
<1>2. ASSUME NEW t \in Thread, MapReject(t)
      PROVE  UnplacedFree'
  <2> SUFFICES ASSUME ~bad', NEW u \in Thread, Unplaced(u)', NEW i \in Iova, table'[i] = th'[u].n PROVE FALSE
    BY DEF UnplacedFree
  <2>1. ~bad
    BY <1>2 DEF MapReject, Misuse
  <2>2. CASE u = t
    BY <1>2, <1>a, <2>2 DEF MapReject, Goto, Return, Idle, Misuse, TypeOK, Unplaced
  <2>3. CASE u # t
    <3>1. th'[u] = th[u] /\ Unplaced(u)
      BY <1>2, <1>a, <2>3 DEF MapReject, Goto, Return, Misuse, TypeOK, Unplaced
    <3>2. th[u].n # 0 /\ table'[i] \in {0, table[i]}
      BY <1>2, <1>a, <1>b, <3>1 DEF MapReject, UnmapResource, FreeIova, Misuse, TypeOK, Unplaced, ThreadOf
    <3> QED
      BY <1>f, <2>1, <3>1, <3>2 DEF UnplacedFree
  <2> QED
    BY <2>2, <2>3
<1>3. ASSUME NEW t \in Thread, MapSetCookie(t)
      PROVE  UnplacedFree'
  <2> SUFFICES ASSUME ~bad', NEW u \in Thread, Unplaced(u)', NEW i \in Iova, table'[i] = th'[u].n PROVE FALSE
    BY DEF UnplacedFree
  <2>1. ~bad
    BY <1>3 DEF MapSetCookie, Misuse
  <2>2. CASE u = t
    <3>1. Unplaced(t) /\ th'[t].n = th[t].n /\ table' = table
      BY <1>3, <1>a, <2>2 DEF MapSetCookie, Goto, TypeOK, Unplaced
    <3> QED
      BY <1>f, <2>1, <2>2, <3>1 DEF UnplacedFree
  <2>3. CASE u # t
    <3>1. th'[u] = th[u] /\ Unplaced(u)
      BY <1>3, <1>a, <2>3 DEF MapSetCookie, Goto, Return, Misuse, TypeOK, Unplaced
    <3>2. table[i] = th[u].n
      BY <1>3, <1>a, <1>b, <3>1 DEF MapSetCookie, UnmapResource, FreeIova, Misuse, TypeOK, Unplaced, ThreadOf
    <3> QED
      BY <1>f, <2>1, <3>1, <3>2 DEF UnplacedFree
  <2> QED
    BY <2>2, <2>3
<1>4. ASSUME NEW t \in Thread, MapAllocMsi(t)
      PROVE  UnplacedFree'
  <2> SUFFICES ASSUME ~bad', NEW u \in Thread, Unplaced(u)', NEW i \in Iova, table'[i] = th'[u].n PROVE FALSE
    BY DEF UnplacedFree
  <2>1. ~bad
    BY <1>4 DEF MapAllocMsi, Misuse
  <2>2. CASE u = t
    <3>1. Unplaced(t) /\ th'[t].n = th[t].n /\ table' = table
      BY <1>4, <1>a, <2>2 DEF MapAllocMsi, Goto, TypeOK, Unplaced
    <3> QED
      BY <1>f, <2>1, <2>2, <3>1 DEF UnplacedFree
  <2>3. CASE u # t
    <3>1. th'[u] = th[u] /\ Unplaced(u)
      BY <1>4, <1>a, <2>3 DEF MapAllocMsi, Goto, Return, Misuse, TypeOK, Unplaced
    <3>2. table[i] = th[u].n
      BY <1>4, <1>a, <1>b, <3>1 DEF MapAllocMsi, UnmapResource, FreeIova, Misuse, TypeOK, Unplaced, ThreadOf
    <3> QED
      BY <1>f, <2>1, <3>1, <3>2 DEF UnplacedFree
  <2> QED
    BY <2>2, <2>3
<1>5. ASSUME NEW t \in Thread, MapAllocIova(t)
      PROVE  UnplacedFree'
  <2> SUFFICES ASSUME ~bad', NEW u \in Thread, Unplaced(u)', NEW i \in Iova, table'[i] = th'[u].n PROVE FALSE
    BY DEF UnplacedFree
  <2>1. ~bad
    BY <1>5 DEF MapAllocIova, Misuse
  <2>2. CASE u = t
    <3>1. Unplaced(t) /\ th'[t].n = th[t].n /\ table' = table
      BY <1>5, <1>a, <2>2 DEF MapAllocIova, Goto, TypeOK, Unplaced
    <3> QED
      BY <1>f, <2>1, <2>2, <3>1 DEF UnplacedFree
  <2>3. CASE u # t
    <3>1. th'[u] = th[u] /\ Unplaced(u)
      BY <1>5, <1>a, <2>3 DEF MapAllocIova, Goto, Return, Misuse, TypeOK, Unplaced
    <3>2. table[i] = th[u].n
      BY <1>5, <1>a, <1>b, <3>1 DEF MapAllocIova, UnmapResource, FreeIova, Misuse, TypeOK, Unplaced, ThreadOf
    <3> QED
      BY <1>f, <2>1, <3>1, <3>2 DEF UnplacedFree
  <2> QED
    BY <2>2, <2>3
<1>6. ASSUME NEW t \in Thread, MapTable(t)
      PROVE  UnplacedFree'
  <2> SUFFICES ASSUME ~bad', NEW u \in Thread, Unplaced(u)', NEW i \in Iova, table'[i] = th'[u].n PROVE FALSE
    BY DEF UnplacedFree
  <2>1. ~bad
    BY <1>6 DEF MapTable, Misuse
  <2>2. CASE u = t
    BY <1>6, <1>a, <1>b, <2>2 DEF MapTable, Goto, TypeOK, Unplaced, ThreadOf
  <2>3. CASE u # t
    <3>1. th'[u] = th[u] /\ Unplaced(u)
      BY <1>6, <1>a, <2>3 DEF MapTable, Goto, Return, Misuse, TypeOK, Unplaced
    <3>2. th[u].n # th[t].n
      BY <1>6, <1>b, <2>3, <3>1 DEF MapTable, Unplaced, OneMapper, ThreadOf, MapPcs, UnmapPcs
    <3>3. table[i] = th[u].n
      BY <1>6, <1>a, <3>1, <3>2 DEF MapTable, TypeOK
    <3> QED
      BY <1>f, <2>1, <3>1, <3>3 DEF UnplacedFree
  <2> QED
    BY <2>2, <2>3
<1>7. ASSUME NEW t \in Thread, MapTableFail(t)
      PROVE  UnplacedFree'
  <2> SUFFICES ASSUME ~bad', NEW u \in Thread, Unplaced(u)', NEW i \in Iova, table'[i] = th'[u].n PROVE FALSE
    BY DEF UnplacedFree
  <2>1. ~bad
    BY <1>7 DEF MapTableFail, Misuse
  <2>2. CASE u = t
    <3>1. Unplaced(t) /\ th'[t].n = th[t].n /\ table' = table
      BY <1>7, <1>a, <2>2 DEF MapTableFail, Goto, TypeOK, Unplaced
    <3> QED
      BY <1>f, <2>1, <2>2, <3>1 DEF UnplacedFree
  <2>3. CASE u # t
    <3>1. th'[u] = th[u] /\ Unplaced(u)
      BY <1>7, <1>a, <2>3 DEF MapTableFail, Goto, Return, Misuse, TypeOK, Unplaced
    <3>2. table[i] = th[u].n
      BY <1>7, <1>a, <1>b, <3>1 DEF MapTableFail, UnmapResource, FreeIova, Misuse, TypeOK, Unplaced, ThreadOf
    <3> QED
      BY <1>f, <2>1, <3>1, <3>2 DEF UnplacedFree
  <2> QED
    BY <2>2, <2>3
<1>8. ASSUME NEW t \in Thread, MapResetCookie(t)
      PROVE  UnplacedFree'
  <2> SUFFICES ASSUME ~bad', NEW u \in Thread, Unplaced(u)', NEW i \in Iova, table'[i] = th'[u].n PROVE FALSE
    BY DEF UnplacedFree
  <2>1. ~bad
    BY <1>8 DEF MapResetCookie, Misuse
  <2>2. CASE u = t
    <3>1. Unplaced(t) /\ th'[t].n = th[t].n /\ table' = table
      BY <1>8, <1>a, <2>2 DEF MapResetCookie, Goto, TypeOK, Unplaced
    <3> QED
      BY <1>f, <2>1, <2>2, <3>1 DEF UnplacedFree
  <2>3. CASE u # t
    <3>1. th'[u] = th[u] /\ Unplaced(u)
      BY <1>8, <1>a, <2>3 DEF MapResetCookie, Goto, Return, Misuse, TypeOK, Unplaced
    <3>2. table[i] = th[u].n
      BY <1>8, <1>a, <1>b, <3>1 DEF MapResetCookie, UnmapResource, FreeIova, Misuse, TypeOK, Unplaced, ThreadOf
    <3> QED
      BY <1>f, <2>1, <3>1, <3>2 DEF UnplacedFree
  <2> QED
    BY <2>2, <2>3
<1>9. ASSUME NEW t \in Thread, MapHash(t)
      PROVE  UnplacedFree'
  <2> SUFFICES ASSUME ~bad', NEW u \in Thread, Unplaced(u)', NEW i \in Iova, table'[i] = th'[u].n PROVE FALSE
    BY DEF UnplacedFree
  <2>1. ~bad
    BY <1>9 DEF MapHash, Misuse
  <2>2. CASE u = t
    BY <1>9, <1>a, <2>2 DEF MapHash, Goto, Return, Idle, Misuse, TypeOK, Unplaced
  <2>3. CASE u # t
    <3>1. th'[u] = th[u] /\ Unplaced(u)
      BY <1>9, <1>a, <2>3 DEF MapHash, Goto, Return, Misuse, TypeOK, Unplaced
    <3>2. table[i] = th[u].n
      BY <1>9, <1>a, <1>b, <3>1 DEF MapHash, UnmapResource, FreeIova, Misuse, TypeOK, Unplaced, ThreadOf
    <3> QED
      BY <1>f, <2>1, <3>1, <3>2 DEF UnplacedFree
  <2> QED
    BY <2>2, <2>3
<1>10. ASSUME NEW t \in Thread, MapReturn(t)
      PROVE  UnplacedFree'
  <2> SUFFICES ASSUME ~bad', NEW u \in Thread, Unplaced(u)', NEW i \in Iova, table'[i] = th'[u].n PROVE FALSE
    BY DEF UnplacedFree
  <2>1. ~bad
    BY <1>10 DEF MapReturn, Misuse
  <2>2. CASE u = t
    BY <1>10, <1>a, <2>2 DEF MapReturn, Goto, Return, Idle, Misuse, TypeOK, Unplaced
  <2>3. CASE u # t
    <3>1. th'[u] = th[u] /\ Unplaced(u)
      BY <1>10, <1>a, <2>3 DEF MapReturn, Goto, Return, Misuse, TypeOK, Unplaced
    <3>2. th[u].n # 0 /\ table'[i] \in {0, table[i]}
      BY <1>10, <1>a, <1>b, <3>1 DEF MapReturn, UnmapResource, FreeIova, Misuse, TypeOK, Unplaced, ThreadOf
    <3> QED
      BY <1>f, <2>1, <3>1, <3>2 DEF UnplacedFree
  <2> QED
    BY <2>2, <2>3
<1>11. ASSUME NEW t \in Thread, MapCopyFail(t)
      PROVE  UnplacedFree'
  <2> SUFFICES ASSUME ~bad', NEW u \in Thread, Unplaced(u)', NEW i \in Iova, table'[i] = th'[u].n PROVE FALSE
    BY DEF UnplacedFree
  <2>1. ~bad
    BY <1>11 DEF MapCopyFail, Misuse
  <2>2. CASE u = t
    <3>1. table'[i] = table[i] /\ th'[t].n = th[t].n /\ i # th[t].iova /\ th[t].n \in Slot
      BY <1>11, <1>a, <1>d, <1>e, <2>2 DEF MapCopyFail, Goto, UnmapResource, FreeIova, TypeOK, Slot
    <3>2. Owned(i) /\ table[i] = th[t].n
      BY <1>c, <1>d, <2>1, <2>2, <3>1 DEF Slot
    <3>3. slot[th[t].n].mem = "hashed" => slot[th[t].n].iova = th[t].iova
      BY <1>11, <1>b DEF MapCopyFail, ThreadOf
    <3>4. PICK v \in Thread : th[v].n = th[t].n /\ th[v].pc \in {"reset", "hash"}
      BY <3>1, <3>2, <3>3 DEF Owned, Users
    <3> QED
      BY <1>11, <1>b, <3>4 DEF MapCopyFail, OneMapper, MapPcs
  <2>3. CASE u # t
    <3>1. th'[u] = th[u] /\ Unplaced(u)
      BY <1>11, <1>a, <2>3 DEF MapCopyFail, Goto, Return, Misuse, TypeOK, Unplaced
    <3>2. th[u].n # 0 /\ table'[i] \in {0, table[i]}
      BY <1>11, <1>a, <1>b, <3>1 DEF MapCopyFail, UnmapResource, FreeIova, Misuse, TypeOK, Unplaced, ThreadOf
    <3> QED
      BY <1>f, <2>1, <3>1, <3>2 DEF UnplacedFree
  <2> QED
    BY <2>2, <2>3
<1>12. ASSUME NEW t \in Thread, MapDel(t)
      PROVE  UnplacedFree'
  <2> SUFFICES ASSUME ~bad', NEW u \in Thread, Unplaced(u)', NEW i \in Iova, table'[i] = th'[u].n PROVE FALSE
    BY DEF UnplacedFree
  <2>1. ~bad
    BY <1>12 DEF MapDel, Misuse
  <2>2. CASE u = t
    BY <1>12, <1>a, <2>2 DEF MapDel, Goto, Return, Idle, Misuse, TypeOK, Unplaced
  <2>3. CASE u # t
    <3>1. th'[u] = th[u] /\ Unplaced(u)
      BY <1>12, <1>a, <2>3 DEF MapDel, Goto, Return, Misuse, TypeOK, Unplaced
    <3>2. th[u].n # 0 /\ table'[i] \in {0, table[i]}
      BY <1>12, <1>a, <1>b, <3>1 DEF MapDel, UnmapResource, FreeIova, Misuse, TypeOK, Unplaced, ThreadOf
    <3> QED
      BY <1>f, <2>1, <3>1, <3>2 DEF UnplacedFree
  <2> QED
    BY <2>2, <2>3
<1>13. ASSUME NEW t \in Thread, NEW n \in Slot, UnmapFind(t, n)
      PROVE  UnplacedFree'
  <2> SUFFICES ASSUME ~bad', NEW u \in Thread, Unplaced(u)', NEW i \in Iova, table'[i] = th'[u].n PROVE FALSE
    BY DEF UnplacedFree
  <2>1. ~bad
    BY <1>13 DEF UnmapFind, Misuse
  <2>2. CASE u = t
    BY <1>13, <1>a, <2>2 DEF UnmapFind, Goto, Return, Idle, Misuse, TypeOK, Unplaced
  <2>3. CASE u # t
    <3>1. th'[u] = th[u] /\ Unplaced(u)
      BY <1>13, <1>a, <2>3 DEF UnmapFind, Goto, Return, Misuse, TypeOK, Unplaced
    <3>2. th[u].n # 0 /\ table'[i] \in {0, table[i]}
      BY <1>13, <1>a, <1>b, <3>1 DEF UnmapFind, UnmapResource, FreeIova, Misuse, TypeOK, Unplaced, ThreadOf
    <3> QED
      BY <1>f, <2>1, <3>1, <3>2 DEF UnplacedFree
  <2> QED
    BY <2>2, <2>3
<1>14. ASSUME NEW t \in Thread, UnmapTable(t)
      PROVE  UnplacedFree'
  <2> SUFFICES ASSUME ~bad', NEW u \in Thread, Unplaced(u)', NEW i \in Iova, table'[i] = th'[u].n PROVE FALSE
    BY DEF UnplacedFree
  <2>1. ~bad
    BY <1>14 DEF UnmapTable, Misuse
  <2>2. CASE u = t
    <3>1. table'[i] = table[i] /\ th'[t].n = th[t].n /\ i # slot[th[t].n].iova /\ th[t].n \in Slot
      BY <1>14, <1>a, <1>d, <1>e, <2>2 DEF UnmapTable, Goto, UnmapResource, FreeIova, TypeOK, Slot
    <3>2. Owned(i) /\ table[i] = th[t].n
      BY <1>c, <1>d, <2>1, <2>2, <3>1 DEF Slot
    <3>3. PICK v \in Thread : th[v].n = th[t].n /\ th[v].pc \in {"reset", "hash"}
      BY <3>1, <3>2 DEF Owned, Users
    <3> QED
      BY <1>14, <1>b, <3>3 DEF UnmapTable, ThreadOf
  <2>3. CASE u # t
    <3>1. th'[u] = th[u] /\ Unplaced(u)
      BY <1>14, <1>a, <2>3 DEF UnmapTable, Goto, Return, Misuse, TypeOK, Unplaced
    <3>2. th[u].n # 0 /\ table'[i] \in {0, table[i]}
      BY <1>14, <1>a, <1>b, <3>1 DEF UnmapTable, UnmapResource, FreeIova, Misuse, TypeOK, Unplaced, ThreadOf
    <3> QED
      BY <1>f, <2>1, <3>1, <3>2 DEF UnplacedFree
  <2> QED
    BY <2>2, <2>3
<1>15. ASSUME NEW t \in Thread, UnmapDel(t)
      PROVE  UnplacedFree'
  <2> SUFFICES ASSUME ~bad', NEW u \in Thread, Unplaced(u)', NEW i \in Iova, table'[i] = th'[u].n PROVE FALSE
    BY DEF UnplacedFree
  <2>1. ~bad
    BY <1>15 DEF UnmapDel, Misuse
  <2>2. CASE u = t
    BY <1>15, <1>a, <2>2 DEF UnmapDel, Goto, Return, Idle, Misuse, TypeOK, Unplaced
  <2>3. CASE u # t
    <3>1. th'[u] = th[u] /\ Unplaced(u)
      BY <1>15, <1>a, <2>3 DEF UnmapDel, Goto, Return, Misuse, TypeOK, Unplaced
    <3>2. th[u].n # 0 /\ table'[i] \in {0, table[i]}
      BY <1>15, <1>a, <1>b, <3>1 DEF UnmapDel, UnmapResource, FreeIova, Misuse, TypeOK, Unplaced, ThreadOf
    <3> QED
      BY <1>f, <2>1, <3>1, <3>2 DEF UnplacedFree
  <2> QED
    BY <2>2, <2>3
<1>16. ASSUME NEW t \in Thread, UseFreed(t)
      PROVE  UnplacedFree'
  <2> SUFFICES ASSUME ~bad', NEW u \in Thread, Unplaced(u)', NEW i \in Iova, table'[i] = th'[u].n PROVE FALSE
    BY DEF UnplacedFree
  <2>1. ~bad
    BY <1>16 DEF UseFreed, Misuse
  <2>2. CASE u = t
    BY <1>16, <1>a, <2>2 DEF UseFreed, Goto, Return, Idle, Misuse, TypeOK, Unplaced
  <2>3. CASE u # t
    <3>1. th'[u] = th[u] /\ Unplaced(u)
      BY <1>16, <1>a, <2>3 DEF UseFreed, Goto, Return, Misuse, TypeOK, Unplaced
    <3>2. th[u].n # 0 /\ table'[i] \in {0, table[i]}
      BY <1>16, <1>a, <1>b, <3>1 DEF UseFreed, UnmapResource, FreeIova, Misuse, TypeOK, Unplaced, ThreadOf
    <3> QED
      BY <1>f, <2>1, <3>1, <3>2 DEF UnplacedFree
  <2> QED
    BY <2>2, <2>3
<1>17. ASSUME NEW c \in Ctx, Close(c)
      PROVE  UnplacedFree'
  BY <1>17, <1>f DEF Close, UnplacedFree, Unplaced
<1>18. ASSUME NEW n \in Slot, CloseEntry(n)
      PROVE  UnplacedFree'
  <2> SUFFICES ASSUME ~bad', NEW u \in Thread, Unplaced(u)', NEW i \in Iova, table'[i] = th'[u].n PROVE FALSE
    BY DEF UnplacedFree
  <2>1. ~bad /\ th'[u] = th[u] /\ Unplaced(u)
    BY <1>18 DEF CloseEntry, Unplaced
  <2>2. th[u].n # 0 /\ table'[i] \in {0, table[i]}
    BY <1>18, <1>a, <1>b, <2>1 DEF CloseEntry, UnmapResource, TypeOK, Unplaced, ThreadOf
  <2> QED
    BY <1>f, <2>1, <2>2 DEF UnplacedFree
<1> QED
  BY <1>1, <1>2, <1>3, <1>4, <1>5, <1>6, <1>7, <1>8, <1>9,
     <1>10, <1>11, <1>12, <1>13, <1>14, <1>15, <1>16, <1>17, <1>18 DEF Next, Map, Unmap

\* A careful process has one call at an entry.
LEMMA SoleKept ==
    ASSUME IInv, Next
    PROVE  careful' => \A u, v \in Thread : th'[u].n = th'[v].n /\ th'[u].n # 0 => u = v
<1>a. TypeOK
  BY DEF IInv
<1>b. Unbegun /\ OneMapper /\ InOpen /\ \A u \in Thread : ThreadOf(u)
  BY DEF IInv
<1>c. CarefulInv
  BY DEF IInv
<1>d. MaxMap \in Nat /\ Iovas \in Nat
  BY Addresses
<1>e. \A u \in Thread : th[u].pc # "idle" => th[u].n \in Slot
  BY <1>a, <1>b, <1>d DEF TypeOK, ThreadOf, Slot
<1>1. ASSUME NEW t \in Thread, NEW c \in Ctx, NEW fixed \in BOOLEAN, NEW req \in Iova, MapStart(t, c, fixed, req)
      PROVE  careful' => \A u, v \in Thread : th'[u].n = th'[v].n /\ th'[u].n # 0 => u = v
  BY <1>1, <1>a, <1>b, <1>c, <1>d DEF MapStart, Goto, Return, Idle, Misuse, TypeOK, CarefulInv, Users, ThreadOf
<1>2. ASSUME NEW t \in Thread, MapReject(t)
      PROVE  careful' => \A u, v \in Thread : th'[u].n = th'[v].n /\ th'[u].n # 0 => u = v
  BY <1>2, <1>a, <1>b, <1>c, <1>d DEF MapReject, Goto, Return, Idle, Misuse, TypeOK, CarefulInv, Users, ThreadOf
<1>3. ASSUME NEW t \in Thread, MapSetCookie(t)
      PROVE  careful' => \A u, v \in Thread : th'[u].n = th'[v].n /\ th'[u].n # 0 => u = v
  BY <1>3, <1>a, <1>b, <1>c, <1>d DEF MapSetCookie, Goto, Return, Idle, Misuse, TypeOK, CarefulInv, Users, ThreadOf
<1>4. ASSUME NEW t \in Thread, MapAllocMsi(t)
      PROVE  careful' => \A u, v \in Thread : th'[u].n = th'[v].n /\ th'[u].n # 0 => u = v
  BY <1>4, <1>a, <1>b, <1>c, <1>d DEF MapAllocMsi, Goto, Return, Idle, Misuse, TypeOK, CarefulInv, Users, ThreadOf
<1>5. ASSUME NEW t \in Thread, MapAllocIova(t)
      PROVE  careful' => \A u, v \in Thread : th'[u].n = th'[v].n /\ th'[u].n # 0 => u = v
  BY <1>5, <1>a, <1>b, <1>c, <1>d DEF MapAllocIova, Goto, Return, Idle, Misuse, TypeOK, CarefulInv, Users, ThreadOf
<1>6. ASSUME NEW t \in Thread, MapTable(t)
      PROVE  careful' => \A u, v \in Thread : th'[u].n = th'[v].n /\ th'[u].n # 0 => u = v
  BY <1>6, <1>a, <1>b, <1>c, <1>d DEF MapTable, Goto, Return, Idle, Misuse, TypeOK, CarefulInv, Users, ThreadOf
<1>7. ASSUME NEW t \in Thread, MapTableFail(t)
      PROVE  careful' => \A u, v \in Thread : th'[u].n = th'[v].n /\ th'[u].n # 0 => u = v
  BY <1>7, <1>a, <1>b, <1>c, <1>d DEF MapTableFail, Goto, Return, Idle, Misuse, TypeOK, CarefulInv, Users, ThreadOf
<1>8. ASSUME NEW t \in Thread, MapResetCookie(t)
      PROVE  careful' => \A u, v \in Thread : th'[u].n = th'[v].n /\ th'[u].n # 0 => u = v
  BY <1>8, <1>a, <1>b, <1>c, <1>d DEF MapResetCookie, Goto, Return, Idle, Misuse, TypeOK, CarefulInv, Users, ThreadOf
<1>9. ASSUME NEW t \in Thread, MapHash(t)
      PROVE  careful' => \A u, v \in Thread : th'[u].n = th'[v].n /\ th'[u].n # 0 => u = v
  BY <1>9, <1>a, <1>b, <1>c, <1>d DEF MapHash, Goto, Return, Idle, Misuse, TypeOK, CarefulInv, Users, ThreadOf
<1>10. ASSUME NEW t \in Thread, MapReturn(t)
      PROVE  careful' => \A u, v \in Thread : th'[u].n = th'[v].n /\ th'[u].n # 0 => u = v
  BY <1>10, <1>a, <1>b, <1>c, <1>d DEF MapReturn, Goto, Return, Idle, Misuse, TypeOK, CarefulInv, Users, ThreadOf
<1>11. ASSUME NEW t \in Thread, MapCopyFail(t)
      PROVE  careful' => \A u, v \in Thread : th'[u].n = th'[v].n /\ th'[u].n # 0 => u = v
  BY <1>11, <1>a, <1>b, <1>c, <1>d DEF MapCopyFail, Goto, Return, Idle, Misuse, TypeOK, CarefulInv, Users, ThreadOf
<1>12. ASSUME NEW t \in Thread, MapDel(t)
      PROVE  careful' => \A u, v \in Thread : th'[u].n = th'[v].n /\ th'[u].n # 0 => u = v
  BY <1>12, <1>a, <1>b, <1>c, <1>d DEF MapDel, Goto, Return, Idle, Misuse, TypeOK, CarefulInv, Users, ThreadOf
<1>13. ASSUME NEW t \in Thread, NEW n \in Slot, UnmapFind(t, n)
      PROVE  careful' => \A u, v \in Thread : th'[u].n = th'[v].n /\ th'[u].n # 0 => u = v
  BY <1>13, <1>a, <1>b, <1>c, <1>d DEF UnmapFind, Goto, Return, Idle, Misuse, TypeOK, CarefulInv, Users, ThreadOf
<1>14. ASSUME NEW t \in Thread, UnmapTable(t)
      PROVE  careful' => \A u, v \in Thread : th'[u].n = th'[v].n /\ th'[u].n # 0 => u = v
  BY <1>14, <1>a, <1>b, <1>c, <1>d DEF UnmapTable, Goto, Return, Idle, Misuse, TypeOK, CarefulInv, Users, ThreadOf
<1>15. ASSUME NEW t \in Thread, UnmapDel(t)
      PROVE  careful' => \A u, v \in Thread : th'[u].n = th'[v].n /\ th'[u].n # 0 => u = v
  BY <1>15, <1>a, <1>b, <1>c, <1>d DEF UnmapDel, Goto, Return, Idle, Misuse, TypeOK, CarefulInv, Users, ThreadOf
<1>16. ASSUME NEW t \in Thread, UseFreed(t)
      PROVE  careful' => \A u, v \in Thread : th'[u].n = th'[v].n /\ th'[u].n # 0 => u = v
  BY <1>16, <1>a, <1>b, <1>c, <1>d DEF UseFreed, Goto, Return, Idle, Misuse, TypeOK, CarefulInv, Users, ThreadOf
<1>17. ASSUME NEW c \in Ctx, Close(c)
      PROVE  careful' => \A u, v \in Thread : th'[u].n = th'[v].n /\ th'[u].n # 0 => u = v
  BY <1>17, <1>c DEF Close, CarefulInv
<1>18. ASSUME NEW n \in Slot, CloseEntry(n)
      PROVE  careful' => \A u, v \in Thread : th'[u].n = th'[v].n /\ th'[u].n # 0 => u = v
  BY <1>18, <1>c DEF CloseEntry, CarefulInv
<1> QED
  BY <1>1, <1>2, <1>3, <1>4, <1>5, <1>6, <1>7, <1>8, <1>9,
     <1>10, <1>11, <1>12, <1>13, <1>14, <1>15, <1>16, <1>17, <1>18 DEF Next, Map, Unmap

\* ... its fixed and its free maps do not meet ...
LEMMA ApartKept ==
    ASSUME IInv, Next
    PROVE  careful' => \A u, v \in Thread : th'[u].pc \in MapPcs /\ th'[v].pc \in MapPcs
                => slot'[th'[u].n].fixed = slot'[th'[v].n].fixed
<1>a. TypeOK
  BY DEF IInv
<1>b. Unbegun /\ OneMapper /\ InOpen /\ \A u \in Thread : ThreadOf(u)
  BY DEF IInv
<1>c. CarefulInv
  BY DEF IInv
<1>d. MaxMap \in Nat /\ Iovas \in Nat
  BY Addresses
<1>e. \A u \in Thread : th[u].pc # "idle" => th[u].n \in Slot
  BY <1>a, <1>b, <1>d DEF TypeOK, ThreadOf, Slot
<1>1. ASSUME NEW t \in Thread, NEW c \in Ctx, NEW fixed \in BOOLEAN, NEW req \in Iova, MapStart(t, c, fixed, req)
      PROVE  careful' => \A u, v \in Thread : th'[u].pc \in MapPcs /\ th'[v].pc \in MapPcs
                => slot'[th'[u].n].fixed = slot'[th'[v].n].fixed
  <2> SUFFICES ASSUME careful, NEW u \in Thread, NEW v \in Thread, th'[u].pc \in MapPcs, th'[v].pc \in MapPcs
               PROVE  slot'[th'[u].n].fixed = slot'[th'[v].n].fixed
    BY <1>1 DEF MapStart
  <2>1. calls + 1 \in Slot /\ slot'[calls + 1].fixed = fixed /\ th'[t].n = calls + 1
    BY <1>1, <1>a, <1>d DEF MapStart, TypeOK, NewSlot, Idle, Slot
  <2>2. \A w \in Thread : w # t /\ th'[w].pc \in MapPcs =>
            /\ th'[w] = th[w] /\ th[w].pc \in MapPcs
            /\ slot[th[w].n].fixed = fixed
    <3> SUFFICES ASSUME NEW w \in Thread, w # t, th'[w].pc \in MapPcs
                 PROVE  /\ th'[w] = th[w] /\ th[w].pc \in MapPcs
                        /\ slot[th[w].n].fixed = fixed
      OBVIOUS
    <3>1. th'[w] = th[w] /\ th[w].pc \in MapPcs
      BY <1>1, <1>a DEF MapStart, TypeOK
    <3>2. slot[th[w].n].fixed \in BOOLEAN
      BY <1>a, <1>e, <3>1 DEF TypeOK, MapPcs
    <3>3. slot[th[w].n].fixed # ~fixed
      BY <1>1, <3>1 DEF MapStart, Mapping
    <3>4. slot[th[w].n].fixed = fixed
      BY <3>2, <3>3
    <3> QED
      BY <3>1, <3>4
  <2>3. \A w \in Thread : w # t /\ th'[w].pc \in MapPcs => slot'[th'[w].n].fixed = fixed
    <3> SUFFICES ASSUME NEW w \in Thread, w # t, th'[w].pc \in MapPcs PROVE slot'[th'[w].n].fixed = fixed
      OBVIOUS
    <3>1. th[w].n \in Slot /\ th[w].n # calls + 1 /\ th'[w].n = th[w].n
      BY <1>a, <1>b, <2>2, Numbers DEF ThreadOf, MapPcs
    <3>2. slot'[th[w].n] = slot[th[w].n]
      BY <1>1, <1>a, <3>1 DEF MapStart, TypeOK
    <3> QED
      BY <2>2, <3>1, <3>2
  <2> QED
    BY <2>1, <2>3
<1>2. ASSUME NEW t \in Thread, MapReject(t)
      PROVE  careful' => \A u, v \in Thread : th'[u].pc \in MapPcs /\ th'[v].pc \in MapPcs
                => slot'[th'[u].n].fixed = slot'[th'[v].n].fixed
  <2> SUFFICES ASSUME careful, NEW u \in Thread, NEW v \in Thread, th'[u].pc \in MapPcs, th'[v].pc \in MapPcs
               PROVE  slot'[th'[u].n].fixed = slot'[th'[v].n].fixed
    BY <1>2 DEF MapReject, Misuse
  <2>1. \A w \in Thread : th'[w].pc \in MapPcs => th[w].pc \in MapPcs /\ th'[w].n = th[w].n
    BY <1>2, <1>a DEF MapReject, Goto, Return, Idle, Misuse, TypeOK, MapPcs
  <2>2. \A n \in Slot : slot'[n].fixed = slot[n].fixed
    BY <1>2, <1>a DEF MapReject, Misuse, TypeOK
  <2>3. th[u].n \in Slot /\ th[v].n \in Slot
    BY <1>e, <2>1 DEF MapPcs
  <2>4. slot[th[u].n].fixed = slot[th[v].n].fixed
    BY <1>c, <2>1 DEF CarefulInv
  <2> QED
    BY <2>1, <2>2, <2>3, <2>4
<1>3. ASSUME NEW t \in Thread, MapSetCookie(t)
      PROVE  careful' => \A u, v \in Thread : th'[u].pc \in MapPcs /\ th'[v].pc \in MapPcs
                => slot'[th'[u].n].fixed = slot'[th'[v].n].fixed
  <2> SUFFICES ASSUME careful, NEW u \in Thread, NEW v \in Thread, th'[u].pc \in MapPcs, th'[v].pc \in MapPcs
               PROVE  slot'[th'[u].n].fixed = slot'[th'[v].n].fixed
    BY <1>3 DEF MapSetCookie, Misuse
  <2>1. \A w \in Thread : th'[w].pc \in MapPcs => th[w].pc \in MapPcs /\ th'[w].n = th[w].n
    BY <1>3, <1>a DEF MapSetCookie, Goto, Return, Idle, Misuse, TypeOK, MapPcs
  <2>2. \A n \in Slot : slot'[n].fixed = slot[n].fixed
    BY <1>3, <1>a DEF MapSetCookie, Misuse, TypeOK
  <2>3. th[u].n \in Slot /\ th[v].n \in Slot
    BY <1>e, <2>1 DEF MapPcs
  <2>4. slot[th[u].n].fixed = slot[th[v].n].fixed
    BY <1>c, <2>1 DEF CarefulInv
  <2> QED
    BY <2>1, <2>2, <2>3, <2>4
<1>4. ASSUME NEW t \in Thread, MapAllocMsi(t)
      PROVE  careful' => \A u, v \in Thread : th'[u].pc \in MapPcs /\ th'[v].pc \in MapPcs
                => slot'[th'[u].n].fixed = slot'[th'[v].n].fixed
  <2> SUFFICES ASSUME careful, NEW u \in Thread, NEW v \in Thread, th'[u].pc \in MapPcs, th'[v].pc \in MapPcs
               PROVE  slot'[th'[u].n].fixed = slot'[th'[v].n].fixed
    BY <1>4 DEF MapAllocMsi, Misuse
  <2>1. \A w \in Thread : th'[w].pc \in MapPcs => th[w].pc \in MapPcs /\ th'[w].n = th[w].n
    BY <1>4, <1>a DEF MapAllocMsi, Goto, Return, Idle, Misuse, TypeOK, MapPcs
  <2>2. \A n \in Slot : slot'[n].fixed = slot[n].fixed
    BY <1>4, <1>a DEF MapAllocMsi, Misuse, TypeOK
  <2>3. th[u].n \in Slot /\ th[v].n \in Slot
    BY <1>e, <2>1 DEF MapPcs
  <2>4. slot[th[u].n].fixed = slot[th[v].n].fixed
    BY <1>c, <2>1 DEF CarefulInv
  <2> QED
    BY <2>1, <2>2, <2>3, <2>4
<1>5. ASSUME NEW t \in Thread, MapAllocIova(t)
      PROVE  careful' => \A u, v \in Thread : th'[u].pc \in MapPcs /\ th'[v].pc \in MapPcs
                => slot'[th'[u].n].fixed = slot'[th'[v].n].fixed
  <2> SUFFICES ASSUME careful, NEW u \in Thread, NEW v \in Thread, th'[u].pc \in MapPcs, th'[v].pc \in MapPcs
               PROVE  slot'[th'[u].n].fixed = slot'[th'[v].n].fixed
    BY <1>5 DEF MapAllocIova, Misuse
  <2>1. \A w \in Thread : th'[w].pc \in MapPcs => th[w].pc \in MapPcs /\ th'[w].n = th[w].n
    BY <1>5, <1>a DEF MapAllocIova, Goto, Return, Idle, Misuse, TypeOK, MapPcs
  <2>2. \A n \in Slot : slot'[n].fixed = slot[n].fixed
    BY <1>5, <1>a DEF MapAllocIova, Misuse, TypeOK
  <2>3. th[u].n \in Slot /\ th[v].n \in Slot
    BY <1>e, <2>1 DEF MapPcs
  <2>4. slot[th[u].n].fixed = slot[th[v].n].fixed
    BY <1>c, <2>1 DEF CarefulInv
  <2> QED
    BY <2>1, <2>2, <2>3, <2>4
<1>6. ASSUME NEW t \in Thread, MapTable(t)
      PROVE  careful' => \A u, v \in Thread : th'[u].pc \in MapPcs /\ th'[v].pc \in MapPcs
                => slot'[th'[u].n].fixed = slot'[th'[v].n].fixed
  <2> SUFFICES ASSUME careful, NEW u \in Thread, NEW v \in Thread, th'[u].pc \in MapPcs, th'[v].pc \in MapPcs
               PROVE  slot'[th'[u].n].fixed = slot'[th'[v].n].fixed
    BY <1>6 DEF MapTable, Misuse
  <2>1. \A w \in Thread : th'[w].pc \in MapPcs => th[w].pc \in MapPcs /\ th'[w].n = th[w].n
    BY <1>6, <1>a DEF MapTable, Goto, Return, Idle, Misuse, TypeOK, MapPcs
  <2>2. \A n \in Slot : slot'[n].fixed = slot[n].fixed
    BY <1>6, <1>a DEF MapTable, Misuse, TypeOK
  <2>3. th[u].n \in Slot /\ th[v].n \in Slot
    BY <1>e, <2>1 DEF MapPcs
  <2>4. slot[th[u].n].fixed = slot[th[v].n].fixed
    BY <1>c, <2>1 DEF CarefulInv
  <2> QED
    BY <2>1, <2>2, <2>3, <2>4
<1>7. ASSUME NEW t \in Thread, MapTableFail(t)
      PROVE  careful' => \A u, v \in Thread : th'[u].pc \in MapPcs /\ th'[v].pc \in MapPcs
                => slot'[th'[u].n].fixed = slot'[th'[v].n].fixed
  <2> SUFFICES ASSUME careful, NEW u \in Thread, NEW v \in Thread, th'[u].pc \in MapPcs, th'[v].pc \in MapPcs
               PROVE  slot'[th'[u].n].fixed = slot'[th'[v].n].fixed
    BY <1>7 DEF MapTableFail, Misuse
  <2>1. \A w \in Thread : th'[w].pc \in MapPcs => th[w].pc \in MapPcs /\ th'[w].n = th[w].n
    BY <1>7, <1>a DEF MapTableFail, Goto, Return, Idle, Misuse, TypeOK, MapPcs
  <2>2. \A n \in Slot : slot'[n].fixed = slot[n].fixed
    BY <1>7, <1>a DEF MapTableFail, Misuse, TypeOK
  <2>3. th[u].n \in Slot /\ th[v].n \in Slot
    BY <1>e, <2>1 DEF MapPcs
  <2>4. slot[th[u].n].fixed = slot[th[v].n].fixed
    BY <1>c, <2>1 DEF CarefulInv
  <2> QED
    BY <2>1, <2>2, <2>3, <2>4
<1>8. ASSUME NEW t \in Thread, MapResetCookie(t)
      PROVE  careful' => \A u, v \in Thread : th'[u].pc \in MapPcs /\ th'[v].pc \in MapPcs
                => slot'[th'[u].n].fixed = slot'[th'[v].n].fixed
  <2> SUFFICES ASSUME careful, NEW u \in Thread, NEW v \in Thread, th'[u].pc \in MapPcs, th'[v].pc \in MapPcs
               PROVE  slot'[th'[u].n].fixed = slot'[th'[v].n].fixed
    BY <1>8 DEF MapResetCookie, Misuse
  <2>1. \A w \in Thread : th'[w].pc \in MapPcs => th[w].pc \in MapPcs /\ th'[w].n = th[w].n
    BY <1>8, <1>a DEF MapResetCookie, Goto, Return, Idle, Misuse, TypeOK, MapPcs
  <2>2. \A n \in Slot : slot'[n].fixed = slot[n].fixed
    BY <1>8, <1>a DEF MapResetCookie, Misuse, TypeOK
  <2>3. th[u].n \in Slot /\ th[v].n \in Slot
    BY <1>e, <2>1 DEF MapPcs
  <2>4. slot[th[u].n].fixed = slot[th[v].n].fixed
    BY <1>c, <2>1 DEF CarefulInv
  <2> QED
    BY <2>1, <2>2, <2>3, <2>4
<1>9. ASSUME NEW t \in Thread, MapHash(t)
      PROVE  careful' => \A u, v \in Thread : th'[u].pc \in MapPcs /\ th'[v].pc \in MapPcs
                => slot'[th'[u].n].fixed = slot'[th'[v].n].fixed
  <2> SUFFICES ASSUME careful, NEW u \in Thread, NEW v \in Thread, th'[u].pc \in MapPcs, th'[v].pc \in MapPcs
               PROVE  slot'[th'[u].n].fixed = slot'[th'[v].n].fixed
    BY <1>9 DEF MapHash, Misuse
  <2>1. \A w \in Thread : th'[w].pc \in MapPcs => th[w].pc \in MapPcs /\ th'[w].n = th[w].n
    BY <1>9, <1>a DEF MapHash, Goto, Return, Idle, Misuse, TypeOK, MapPcs
  <2>2. \A n \in Slot : slot'[n].fixed = slot[n].fixed
    BY <1>9, <1>a DEF MapHash, Misuse, TypeOK
  <2>3. th[u].n \in Slot /\ th[v].n \in Slot
    BY <1>e, <2>1 DEF MapPcs
  <2>4. slot[th[u].n].fixed = slot[th[v].n].fixed
    BY <1>c, <2>1 DEF CarefulInv
  <2> QED
    BY <2>1, <2>2, <2>3, <2>4
<1>10. ASSUME NEW t \in Thread, MapReturn(t)
      PROVE  careful' => \A u, v \in Thread : th'[u].pc \in MapPcs /\ th'[v].pc \in MapPcs
                => slot'[th'[u].n].fixed = slot'[th'[v].n].fixed
  <2> SUFFICES ASSUME careful, NEW u \in Thread, NEW v \in Thread, th'[u].pc \in MapPcs, th'[v].pc \in MapPcs
               PROVE  slot'[th'[u].n].fixed = slot'[th'[v].n].fixed
    BY <1>10 DEF MapReturn, Misuse
  <2>1. \A w \in Thread : th'[w].pc \in MapPcs => th[w].pc \in MapPcs /\ th'[w].n = th[w].n
    BY <1>10, <1>a DEF MapReturn, Goto, Return, Idle, Misuse, TypeOK, MapPcs
  <2>2. \A n \in Slot : slot'[n].fixed = slot[n].fixed
    BY <1>10, <1>a DEF MapReturn, Misuse, TypeOK
  <2>3. th[u].n \in Slot /\ th[v].n \in Slot
    BY <1>e, <2>1 DEF MapPcs
  <2>4. slot[th[u].n].fixed = slot[th[v].n].fixed
    BY <1>c, <2>1 DEF CarefulInv
  <2> QED
    BY <2>1, <2>2, <2>3, <2>4
<1>11. ASSUME NEW t \in Thread, MapCopyFail(t)
      PROVE  careful' => \A u, v \in Thread : th'[u].pc \in MapPcs /\ th'[v].pc \in MapPcs
                => slot'[th'[u].n].fixed = slot'[th'[v].n].fixed
  <2> SUFFICES ASSUME careful, NEW u \in Thread, NEW v \in Thread, th'[u].pc \in MapPcs, th'[v].pc \in MapPcs
               PROVE  slot'[th'[u].n].fixed = slot'[th'[v].n].fixed
    BY <1>11 DEF MapCopyFail, Misuse
  <2>1. \A w \in Thread : th'[w].pc \in MapPcs => th[w].pc \in MapPcs /\ th'[w].n = th[w].n
    BY <1>11, <1>a DEF MapCopyFail, Goto, Return, Idle, Misuse, TypeOK, MapPcs
  <2>2. \A n \in Slot : slot'[n].fixed = slot[n].fixed
    BY <1>11, <1>a DEF MapCopyFail, Misuse, TypeOK
  <2>3. th[u].n \in Slot /\ th[v].n \in Slot
    BY <1>e, <2>1 DEF MapPcs
  <2>4. slot[th[u].n].fixed = slot[th[v].n].fixed
    BY <1>c, <2>1 DEF CarefulInv
  <2> QED
    BY <2>1, <2>2, <2>3, <2>4
<1>12. ASSUME NEW t \in Thread, MapDel(t)
      PROVE  careful' => \A u, v \in Thread : th'[u].pc \in MapPcs /\ th'[v].pc \in MapPcs
                => slot'[th'[u].n].fixed = slot'[th'[v].n].fixed
  <2> SUFFICES ASSUME careful, NEW u \in Thread, NEW v \in Thread, th'[u].pc \in MapPcs, th'[v].pc \in MapPcs
               PROVE  slot'[th'[u].n].fixed = slot'[th'[v].n].fixed
    BY <1>12 DEF MapDel, Misuse
  <2>1. \A w \in Thread : th'[w].pc \in MapPcs => th[w].pc \in MapPcs /\ th'[w].n = th[w].n
    BY <1>12, <1>a DEF MapDel, Goto, Return, Idle, Misuse, TypeOK, MapPcs
  <2>2. \A n \in Slot : slot'[n].fixed = slot[n].fixed
    BY <1>12, <1>a DEF MapDel, Misuse, TypeOK
  <2>3. th[u].n \in Slot /\ th[v].n \in Slot
    BY <1>e, <2>1 DEF MapPcs
  <2>4. slot[th[u].n].fixed = slot[th[v].n].fixed
    BY <1>c, <2>1 DEF CarefulInv
  <2> QED
    BY <2>1, <2>2, <2>3, <2>4
<1>13. ASSUME NEW t \in Thread, NEW n \in Slot, UnmapFind(t, n)
      PROVE  careful' => \A u, v \in Thread : th'[u].pc \in MapPcs /\ th'[v].pc \in MapPcs
                => slot'[th'[u].n].fixed = slot'[th'[v].n].fixed
  <2> SUFFICES ASSUME careful, NEW u \in Thread, NEW v \in Thread, th'[u].pc \in MapPcs, th'[v].pc \in MapPcs
               PROVE  slot'[th'[u].n].fixed = slot'[th'[v].n].fixed
    BY <1>13 DEF UnmapFind, Misuse
  <2>1. \A w \in Thread : th'[w].pc \in MapPcs => th[w].pc \in MapPcs /\ th'[w].n = th[w].n
    BY <1>13, <1>a DEF UnmapFind, Goto, Return, Idle, Misuse, TypeOK, MapPcs
  <2>2. \A m \in Slot : slot'[m].fixed = slot[m].fixed
    BY <1>13, <1>a DEF UnmapFind, Misuse, TypeOK
  <2>3. th[u].n \in Slot /\ th[v].n \in Slot
    BY <1>e, <2>1 DEF MapPcs
  <2>4. slot[th[u].n].fixed = slot[th[v].n].fixed
    BY <1>c, <2>1 DEF CarefulInv
  <2> QED
    BY <2>1, <2>2, <2>3, <2>4
<1>14. ASSUME NEW t \in Thread, UnmapTable(t)
      PROVE  careful' => \A u, v \in Thread : th'[u].pc \in MapPcs /\ th'[v].pc \in MapPcs
                => slot'[th'[u].n].fixed = slot'[th'[v].n].fixed
  <2> SUFFICES ASSUME careful, NEW u \in Thread, NEW v \in Thread, th'[u].pc \in MapPcs, th'[v].pc \in MapPcs
               PROVE  slot'[th'[u].n].fixed = slot'[th'[v].n].fixed
    BY <1>14 DEF UnmapTable, Misuse
  <2>1. \A w \in Thread : th'[w].pc \in MapPcs => th[w].pc \in MapPcs /\ th'[w].n = th[w].n
    BY <1>14, <1>a DEF UnmapTable, Goto, Return, Idle, Misuse, TypeOK, MapPcs
  <2>2. \A n \in Slot : slot'[n].fixed = slot[n].fixed
    BY <1>14, <1>a DEF UnmapTable, Misuse, TypeOK
  <2>3. th[u].n \in Slot /\ th[v].n \in Slot
    BY <1>e, <2>1 DEF MapPcs
  <2>4. slot[th[u].n].fixed = slot[th[v].n].fixed
    BY <1>c, <2>1 DEF CarefulInv
  <2> QED
    BY <2>1, <2>2, <2>3, <2>4
<1>15. ASSUME NEW t \in Thread, UnmapDel(t)
      PROVE  careful' => \A u, v \in Thread : th'[u].pc \in MapPcs /\ th'[v].pc \in MapPcs
                => slot'[th'[u].n].fixed = slot'[th'[v].n].fixed
  <2> SUFFICES ASSUME careful, NEW u \in Thread, NEW v \in Thread, th'[u].pc \in MapPcs, th'[v].pc \in MapPcs
               PROVE  slot'[th'[u].n].fixed = slot'[th'[v].n].fixed
    BY <1>15 DEF UnmapDel, Misuse
  <2>1. \A w \in Thread : th'[w].pc \in MapPcs => th[w].pc \in MapPcs /\ th'[w].n = th[w].n
    BY <1>15, <1>a DEF UnmapDel, Goto, Return, Idle, Misuse, TypeOK, MapPcs
  <2>2. \A n \in Slot : slot'[n].fixed = slot[n].fixed
    BY <1>15, <1>a DEF UnmapDel, Misuse, TypeOK
  <2>3. th[u].n \in Slot /\ th[v].n \in Slot
    BY <1>e, <2>1 DEF MapPcs
  <2>4. slot[th[u].n].fixed = slot[th[v].n].fixed
    BY <1>c, <2>1 DEF CarefulInv
  <2> QED
    BY <2>1, <2>2, <2>3, <2>4
<1>16. ASSUME NEW t \in Thread, UseFreed(t)
      PROVE  careful' => \A u, v \in Thread : th'[u].pc \in MapPcs /\ th'[v].pc \in MapPcs
                => slot'[th'[u].n].fixed = slot'[th'[v].n].fixed
  <2> SUFFICES ASSUME careful, NEW u \in Thread, NEW v \in Thread, th'[u].pc \in MapPcs, th'[v].pc \in MapPcs
               PROVE  slot'[th'[u].n].fixed = slot'[th'[v].n].fixed
    BY <1>16 DEF UseFreed, Misuse
  <2>1. \A w \in Thread : th'[w].pc \in MapPcs => th[w].pc \in MapPcs /\ th'[w].n = th[w].n
    BY <1>16, <1>a DEF UseFreed, Goto, Return, Idle, Misuse, TypeOK, MapPcs
  <2>2. \A n \in Slot : slot'[n].fixed = slot[n].fixed
    BY <1>16, <1>a DEF UseFreed, Misuse, TypeOK
  <2>3. th[u].n \in Slot /\ th[v].n \in Slot
    BY <1>e, <2>1 DEF MapPcs
  <2>4. slot[th[u].n].fixed = slot[th[v].n].fixed
    BY <1>c, <2>1 DEF CarefulInv
  <2> QED
    BY <2>1, <2>2, <2>3, <2>4
<1>17. ASSUME NEW c \in Ctx, Close(c)
      PROVE  careful' => \A u, v \in Thread : th'[u].pc \in MapPcs /\ th'[v].pc \in MapPcs
                => slot'[th'[u].n].fixed = slot'[th'[v].n].fixed
  BY <1>17, <1>c DEF Close, CarefulInv
<1>18. ASSUME NEW n \in Slot, CloseEntry(n)
      PROVE  careful' => \A u, v \in Thread : th'[u].pc \in MapPcs /\ th'[v].pc \in MapPcs
                => slot'[th'[u].n].fixed = slot'[th'[v].n].fixed
  <2>1. \A m \in Slot : slot'[m].fixed = slot[m].fixed
    BY <1>18, <1>a DEF CloseEntry, TypeOK
  <2>2. \A w \in Thread : th[w].pc \in MapPcs => th[w].n \in Slot
    BY <1>e DEF MapPcs
  <2> QED
    BY <1>18, <1>c, <2>1, <2>2 DEF CloseEntry, CarefulInv
<1> QED
  BY <1>1, <1>2, <1>3, <1>4, <1>5, <1>6, <1>7, <1>8, <1>9,
     <1>10, <1>11, <1>12, <1>13, <1>14, <1>15, <1>16, <1>17, <1>18 DEF Next, Map, Unmap

\* ... and it never reaches a freed entry.
LEMMA NoMisuseKept ==
    ASSUME IInv, Next
    PROVE  careful' => ~bad'
<1>a. TypeOK
  BY DEF IInv
<1>b. Unbegun /\ OneMapper /\ InOpen /\ \A u \in Thread : ThreadOf(u)
  BY DEF IInv
<1>c. CarefulInv
  BY DEF IInv
<1>d. MaxMap \in Nat /\ Iovas \in Nat
  BY Addresses
<1>e. \A u \in Thread : th[u].pc # "idle" => th[u].n \in Slot
  BY <1>a, <1>b, <1>d DEF TypeOK, ThreadOf, Slot
<1>1. ASSUME NEW t \in Thread, NEW c \in Ctx, NEW fixed \in BOOLEAN, NEW req \in Iova, MapStart(t, c, fixed, req)
      PROVE  careful' => ~bad'
  BY <1>1, <1>c DEF MapStart, CarefulInv
<1>2. ASSUME NEW t \in Thread, MapReject(t)
      PROVE  careful' => ~bad'
  BY <1>2, <1>c DEF MapReject, CarefulInv
<1>3. ASSUME NEW t \in Thread, MapSetCookie(t)
      PROVE  careful' => ~bad'
  BY <1>3, <1>c DEF MapSetCookie, CarefulInv
<1>4. ASSUME NEW t \in Thread, MapAllocMsi(t)
      PROVE  careful' => ~bad'
  BY <1>4, <1>c DEF MapAllocMsi, CarefulInv
<1>5. ASSUME NEW t \in Thread, MapAllocIova(t)
      PROVE  careful' => ~bad'
  BY <1>5, <1>c DEF MapAllocIova, CarefulInv
<1>6. ASSUME NEW t \in Thread, MapTable(t)
      PROVE  careful' => ~bad'
  BY <1>6, <1>c DEF MapTable, CarefulInv
<1>7. ASSUME NEW t \in Thread, MapTableFail(t)
      PROVE  careful' => ~bad'
  BY <1>7, <1>c DEF MapTableFail, CarefulInv
<1>8. ASSUME NEW t \in Thread, MapResetCookie(t)
      PROVE  careful' => ~bad'
  BY <1>8, <1>c DEF MapResetCookie, CarefulInv
<1>9. ASSUME NEW t \in Thread, MapHash(t)
      PROVE  careful' => ~bad'
  BY <1>9, <1>c DEF MapHash, CarefulInv
<1>10. ASSUME NEW t \in Thread, MapReturn(t)
      PROVE  careful' => ~bad'
  BY <1>10, <1>c DEF MapReturn, CarefulInv
<1>11. ASSUME NEW t \in Thread, MapCopyFail(t)
      PROVE  careful' => ~bad'
  BY <1>11, <1>c DEF MapCopyFail, CarefulInv
<1>12. ASSUME NEW t \in Thread, MapDel(t)
      PROVE  careful' => ~bad'
  BY <1>12, <1>c DEF MapDel, CarefulInv
<1>13. ASSUME NEW t \in Thread, NEW n \in Slot, UnmapFind(t, n)
      PROVE  careful' => ~bad'
  BY <1>13, <1>c DEF UnmapFind, CarefulInv
<1>14. ASSUME NEW t \in Thread, UnmapTable(t)
      PROVE  careful' => ~bad'
  BY <1>14, <1>c DEF UnmapTable, CarefulInv
<1>15. ASSUME NEW t \in Thread, UnmapDel(t)
      PROVE  careful' => ~bad'
  BY <1>15, <1>c DEF UnmapDel, CarefulInv
<1>16. ASSUME NEW t \in Thread, UseFreed(t)
      PROVE  careful' => ~bad'
  BY <1>16, <1>b, <1>c DEF UseFreed, Misuse, CarefulInv, CarefulOf, ThreadOf, UnmapPcs
<1>17. ASSUME NEW c \in Ctx, Close(c)
      PROVE  careful' => ~bad'
  BY <1>17, <1>c DEF Close, CarefulInv
<1>18. ASSUME NEW n \in Slot, CloseEntry(n)
      PROVE  careful' => ~bad'
  BY <1>18, <1>c DEF CloseEntry, CarefulInv
<1> QED
  BY <1>1, <1>2, <1>3, <1>4, <1>5, <1>6, <1>7, <1>8, <1>9,
     <1>10, <1>11, <1>12, <1>13, <1>14, <1>15, <1>16, <1>17, <1>18 DEF Next, Map, Unmap

\* An unmapping is counted for the fixed map whose address is in the cookie,
LEMMA PulledWith ==
    ASSUME IInv, NEW i, UnmapResource(i), NEW u \in Thread,
           th[u].n \in Slot, th[u].pc = "alloc", slot[th[u].n].fixed,
           cookie.msi = slot[th[u].n].req - pulled[th[u].n]
    PROVE  cookie'.msi = slot[th[u].n].req - pulled'[th[u].n]
<1> DEFINE n == th[u].n
<1>1. TypeOK /\ ThreadOf(u) /\ MsiInMutex
  BY DEF IInv
<1>2. mutex = u /\ cookie.type = "msi"
  BY <1>1, MmioAssumption DEF ThreadOf, MsiInMutex
<1>3. n \in Pending
  BY <1>2 DEF Pending
<1>4. pulled'[n] = pulled[n] + 1
  BY <1>3 DEF UnmapResource
<1>5. cookie' = [cookie EXCEPT !.msi = @ - 1]
  BY <1>2 DEF UnmapResource, FreeIova
<1>6. cookie'.msi = cookie.msi - 1
  BY <1>1, <1>5 DEF TypeOK
<1>7. pulled[n] \in Int /\ slot[n].req \in Int /\ cookie.msi \in Int
  BY <1>1 DEF TypeOK, Iova
<1> QED
  BY <1>4, <1>6, <1>7

\* and for no other.
LEMMA PulledElsewhere ==
    ASSUME NEW i, UnmapResource(i), NEW n \in Slot, n \notin Pending
    PROVE  pulled'[n] = pulled[n]
  BY DEF UnmapResource

\* A call of a careful process finds its entry, its page and its address.
LEMMA CarefulOfKept ==
    ASSUME IInv, Next
    PROVE  careful' => \A u \in Thread : CarefulOf(u)'
<1>a. TypeOK
  BY DEF IInv
<1>b. Unbegun /\ OneMapper /\ InOpen /\ \A u \in Thread : ThreadOf(u)
  BY DEF IInv
<1>c. CarefulInv /\ EntryPlaced /\ MsiInMutex
  BY DEF IInv
<1>d. MaxMap \in Nat /\ Iovas \in Nat /\ None \notin Thread
  BY Addresses, MmioAssumption
<1>e. \A u \in Thread : th[u].pc # "idle" => th[u].n \in Slot
  BY <1>a, <1>b, <1>d DEF TypeOK, ThreadOf, Slot
<1>1. ASSUME NEW t \in Thread, NEW c \in Ctx, NEW fixed \in BOOLEAN, NEW req \in Iova, MapStart(t, c, fixed, req)
      PROVE  careful' => \A u \in Thread : CarefulOf(u)'
  <2> SUFFICES ASSUME careful, NEW u \in Thread PROVE CarefulOf(u)'
    BY <1>1 DEF MapStart, Misuse
  <2>1. CASE u = t
    <3>1. th'[t].n = calls + 1 /\ th'[t].pc = (IF fixed THEN "set" ELSE "alloc") /\ calls + 1 \in Slot
      BY <1>1, <1>a, <1>d DEF MapStart, TypeOK, Idle, Slot
    <3>2. slot'[calls + 1].fixed = fixed
      BY <1>1, <1>a, <3>1 DEF MapStart, TypeOK, NewSlot
    <3> QED
      BY <2>1, <3>1, <3>2 DEF CarefulOf, Placed, UnmapPcs
  <2>2. CASE u # t
    <3>1. th'[u] = th[u] /\ CarefulOf(u)
      BY <1>1, <1>a, <1>c, <2>2 DEF MapStart, Goto, Return, Misuse, TypeOK, CarefulInv
    <3>2. th[u].n # 0 => th[u].n \in Slot /\ th[u].n # th[t].n /\ th[u].n # calls + 1
      BY <1>a, <1>b, <1>c, <2>2, Numbers DEF CarefulInv
    <3>3. th[u].n # 0 => slot'[th[u].n] = slot[th[u].n]
      BY <1>1, <1>a, <3>2 DEF MapStart, Misuse, TypeOK
    <3>4. Placed(u) => table'[th[u].iova] = table[th[u].iova]
      BY <1>1 DEF MapStart, Misuse
    <3>5. th[u].pc = "alloc" /\ slot[th[u].n].fixed => cookie'.msi = cookie.msi
      BY <1>1 DEF MapStart, Misuse
    <3>6. th[u].n # 0 => pulled'[th[u].n] = pulled[th[u].n]
      BY <1>1 DEF MapStart, Misuse
    <3> QED
      BY <1>b, <3>1, <3>3, <3>4, <3>5, <3>6 DEF CarefulOf, Placed, ThreadOf, UnmapPcs
  <2> QED
    BY <2>1, <2>2
<1>2. ASSUME NEW t \in Thread, MapReject(t)
      PROVE  careful' => \A u \in Thread : CarefulOf(u)'
  <2> SUFFICES ASSUME careful, NEW u \in Thread PROVE CarefulOf(u)'
    BY <1>2 DEF MapReject, Misuse
  <2>1. CASE u = t
    <3>1. th'[u] = Idle
      BY <1>2, <1>a, <2>1 DEF MapReject, Return, Misuse, TypeOK
    <3> QED
      BY <3>1 DEF CarefulOf, Placed, Idle, UnmapPcs
  <2>2. CASE u # t
    <3>1. th'[u] = th[u] /\ CarefulOf(u)
      BY <1>2, <1>a, <1>c, <2>2 DEF MapReject, Goto, Return, Misuse, TypeOK, CarefulInv
    <3>2. th[u].n # 0 => th[u].n \in Slot /\ th[u].n # th[t].n /\ th[u].n # calls + 1
      BY <1>a, <1>b, <1>c, <2>2, Numbers DEF CarefulInv
    <3>3. th[u].n # 0 => slot'[th[u].n] = slot[th[u].n]
      BY <1>2, <1>a, <3>2 DEF MapReject, Misuse, TypeOK
    <3>4. Placed(u) => table'[th[u].iova] = table[th[u].iova]
      BY <1>2 DEF MapReject, Misuse
    <3>5. th[u].pc = "alloc" /\ slot[th[u].n].fixed => cookie'.msi = cookie.msi
      BY <1>2 DEF MapReject, Misuse
    <3>6. th[u].n # 0 => pulled'[th[u].n] = pulled[th[u].n]
      BY <1>2 DEF MapReject, Misuse
    <3> QED
      BY <1>b, <3>1, <3>3, <3>4, <3>5, <3>6 DEF CarefulOf, Placed, ThreadOf, UnmapPcs
  <2> QED
    BY <2>1, <2>2
<1>3. ASSUME NEW t \in Thread, MapSetCookie(t)
      PROVE  careful' => \A u \in Thread : CarefulOf(u)'
  <2> SUFFICES ASSUME careful, NEW u \in Thread PROVE CarefulOf(u)'
    BY <1>3 DEF MapSetCookie, Misuse
  <2>1. CASE u = t
    <3>1. th[t].n \in Slot /\ CarefulOf(t) /\ ThreadOf(t)
      BY <1>3, <1>b, <1>c, <1>e DEF MapSetCookie, CarefulInv
    <3>2. slot' = slot /\ th'[t].n = th[t].n /\ th'[t].pc = "alloc" /\ cookie'.msi = slot[th[t].n].req
      BY <1>3, <1>a, <1>c, <1>d, <3>1 DEF MapSetCookie, Goto, UnmapResource, FreeIova, TypeOK, CarefulOf, Placed, ThreadOf, MsiInMutex
    <3>3. pulled'[th[t].n] = 0 /\ slot[th[t].n].req \in Int
      BY <1>3, <1>a, <3>1 DEF MapSetCookie, TypeOK, Iova
    <3> QED
      BY <2>1, <3>1, <3>2, <3>3 DEF CarefulOf, Placed, UnmapPcs
  <2>2. CASE u # t
    <3>1. th'[u] = th[u] /\ CarefulOf(u)
      BY <1>3, <1>a, <1>c, <2>2 DEF MapSetCookie, Goto, Return, Misuse, TypeOK, CarefulInv
    <3>2. th[u].n # 0 => th[u].n \in Slot /\ th[u].n # th[t].n /\ th[u].n # calls + 1
      BY <1>a, <1>b, <1>c, <2>2, Numbers DEF CarefulInv
    <3>3. th[u].n # 0 => slot'[th[u].n] = slot[th[u].n]
      BY <1>3, <1>a, <3>2 DEF MapSetCookie, Misuse, TypeOK
    <3>4. Placed(u) => table'[th[u].iova] = table[th[u].iova]
      BY <1>3 DEF MapSetCookie, Misuse
    <3>5. th[u].pc = "alloc" /\ slot[th[u].n].fixed => cookie'.msi = cookie.msi
      BY <1>3, <1>b, <1>d DEF MapSetCookie, ThreadOf
    <3>6. th[u].n # 0 => pulled'[th[u].n] = pulled[th[u].n]
      BY <1>3, <1>a, <3>2 DEF MapSetCookie, TypeOK
    <3> QED
      BY <1>b, <3>1, <3>3, <3>4, <3>5, <3>6 DEF CarefulOf, Placed, ThreadOf, UnmapPcs
  <2> QED
    BY <2>1, <2>2
<1>4. ASSUME NEW t \in Thread, MapAllocMsi(t)
      PROVE  careful' => \A u \in Thread : CarefulOf(u)'
  <2> SUFFICES ASSUME careful, NEW u \in Thread PROVE CarefulOf(u)'
    BY <1>4 DEF MapAllocMsi, Misuse
  <2>1. CASE u = t
    <3>1. th[t].n \in Slot /\ CarefulOf(t) /\ ThreadOf(t)
      BY <1>4, <1>b, <1>c, <1>e DEF MapAllocMsi, CarefulInv
    <3>2. slot' = slot /\ th'[t].n = th[t].n /\ th'[t].pc = "map" /\ th'[t].iova = cookie.msi
          /\ th[t].pc = "alloc"
      BY <1>4, <1>a, <1>c, <1>d, <3>1 DEF MapAllocMsi, Goto, UnmapResource, FreeIova, TypeOK, CarefulOf, Placed, ThreadOf, MsiInMutex
    <3>3. pulled' = pulled
      BY <1>4 DEF MapAllocMsi
    <3> QED
      BY <2>1, <3>1, <3>2, <3>3 DEF CarefulOf, Placed, UnmapPcs
  <2>2. CASE u # t
    <3>1. th'[u] = th[u] /\ CarefulOf(u)
      BY <1>4, <1>a, <1>c, <2>2 DEF MapAllocMsi, Goto, Return, Misuse, TypeOK, CarefulInv
    <3>2. th[u].n # 0 => th[u].n \in Slot /\ th[u].n # th[t].n /\ th[u].n # calls + 1
      BY <1>a, <1>b, <1>c, <2>2, Numbers DEF CarefulInv
    <3>3. th[u].n # 0 => slot'[th[u].n] = slot[th[u].n]
      BY <1>4, <1>a, <3>2 DEF MapAllocMsi, Misuse, TypeOK
    <3>4. Placed(u) => table'[th[u].iova] = table[th[u].iova]
      BY <1>4 DEF MapAllocMsi, Misuse
    <3>5. th[u].pc = "alloc" /\ slot[th[u].n].fixed => cookie'.msi = cookie.msi
      <4>1. th[u].pc = "alloc" /\ slot[th[u].n].fixed => mutex = u /\ slot[th[t].n].fixed = slot[th[u].n].fixed
        BY <1>4, <1>b, <1>c, <2>2 DEF MapAllocMsi, ThreadOf, CarefulInv, MapPcs
      <4>2. mutex = t <=> slot[th[t].n].fixed
        BY <1>4, <1>b DEF MapAllocMsi, ThreadOf
      <4> QED
        BY <2>2, <4>1, <4>2
    <3>6. th[u].n # 0 => pulled'[th[u].n] = pulled[th[u].n]
      BY <1>4 DEF MapAllocMsi, Misuse
    <3> QED
      BY <1>b, <3>1, <3>3, <3>4, <3>5, <3>6 DEF CarefulOf, Placed, ThreadOf, UnmapPcs
  <2> QED
    BY <2>1, <2>2
<1>5. ASSUME NEW t \in Thread, MapAllocIova(t)
      PROVE  careful' => \A u \in Thread : CarefulOf(u)'
  <2> SUFFICES ASSUME careful, NEW u \in Thread PROVE CarefulOf(u)'
    BY <1>5 DEF MapAllocIova, Misuse
  <2>1. CASE u = t
    <3>1. th[t].n \in Slot /\ CarefulOf(t) /\ ThreadOf(t)
      BY <1>5, <1>b, <1>c, <1>e DEF MapAllocIova, CarefulInv
    <3>2. slot' = slot /\ th'[t].n = th[t].n /\ th'[t].pc = "map" /\ ~slot[th[t].n].fixed
      BY <1>5, <1>a, <1>c, <1>d, <3>1 DEF MapAllocIova, Goto, UnmapResource, FreeIova, TypeOK, CarefulOf, Placed, ThreadOf, MsiInMutex
    <3> QED
      BY <2>1, <3>1, <3>2 DEF CarefulOf, Placed, UnmapPcs
  <2>2. CASE u # t
    <3>1. th'[u] = th[u] /\ CarefulOf(u)
      BY <1>5, <1>a, <1>c, <2>2 DEF MapAllocIova, Goto, Return, Misuse, TypeOK, CarefulInv
    <3>2. th[u].n # 0 => th[u].n \in Slot /\ th[u].n # th[t].n /\ th[u].n # calls + 1
      BY <1>a, <1>b, <1>c, <2>2, Numbers DEF CarefulInv
    <3>3. th[u].n # 0 => slot'[th[u].n] = slot[th[u].n]
      BY <1>5, <1>a, <3>2 DEF MapAllocIova, Misuse, TypeOK
    <3>4. Placed(u) => table'[th[u].iova] = table[th[u].iova]
      BY <1>5 DEF MapAllocIova, Misuse
    <3>5. th[u].pc = "alloc" /\ slot[th[u].n].fixed => cookie'.msi = cookie.msi
      BY <1>5 DEF MapAllocIova, Misuse
    <3>6. th[u].n # 0 => pulled'[th[u].n] = pulled[th[u].n]
      BY <1>5 DEF MapAllocIova, Misuse
    <3> QED
      BY <1>b, <3>1, <3>3, <3>4, <3>5, <3>6 DEF CarefulOf, Placed, ThreadOf, UnmapPcs
  <2> QED
    BY <2>1, <2>2
<1>6. ASSUME NEW t \in Thread, MapTable(t)
      PROVE  careful' => \A u \in Thread : CarefulOf(u)'
  <2> SUFFICES ASSUME careful, NEW u \in Thread PROVE CarefulOf(u)'
    BY <1>6 DEF MapTable, Misuse
  <2>1. CASE u = t
    <3>1. th[t].n \in Slot /\ CarefulOf(t) /\ ThreadOf(t)
      BY <1>6, <1>b, <1>c, <1>e DEF MapTable, CarefulInv
    <3>2. slot' = slot /\ th'[t].n = th[t].n /\ th'[t].pc \in {"reset", "hash"}
          /\ th'[t].iova = th[t].iova /\ table'[th[t].iova] = th[t].n /\ th[t].pc = "map"
      BY <1>6, <1>a, <1>c, <1>d, <3>1 DEF MapTable, Goto, UnmapResource, FreeIova, TypeOK, CarefulOf, Placed, ThreadOf, MsiInMutex
    <3>3. pulled' = pulled
      BY <1>6 DEF MapTable
    <3> QED
      BY <2>1, <3>1, <3>2, <3>3 DEF CarefulOf, Placed, UnmapPcs
  <2>2. CASE u # t
    <3>1. th'[u] = th[u] /\ CarefulOf(u)
      BY <1>6, <1>a, <1>c, <2>2 DEF MapTable, Goto, Return, Misuse, TypeOK, CarefulInv
    <3>2. th[u].n # 0 => th[u].n \in Slot /\ th[u].n # th[t].n /\ th[u].n # calls + 1
      BY <1>a, <1>b, <1>c, <2>2, Numbers DEF CarefulInv
    <3>3. th[u].n # 0 => slot'[th[u].n] = slot[th[u].n]
      BY <1>6, <1>a, <3>2 DEF MapTable, Misuse, TypeOK
    <3>4. Placed(u) => table'[th[u].iova] = table[th[u].iova]
      <4>1. Placed(u) => table[th[u].iova] # 0 /\ th[u].iova \in Iova
        BY <1>b, <3>1 DEF CarefulOf, Placed, ThreadOf
      <4> QED
        BY <1>6, <1>a, <4>1 DEF MapTable, TypeOK
    <3>5. th[u].pc = "alloc" /\ slot[th[u].n].fixed => cookie'.msi = cookie.msi
      BY <1>6 DEF MapTable, Misuse
    <3>6. th[u].n # 0 => pulled'[th[u].n] = pulled[th[u].n]
      BY <1>6 DEF MapTable, Misuse
    <3> QED
      BY <1>b, <3>1, <3>3, <3>4, <3>5, <3>6 DEF CarefulOf, Placed, ThreadOf, UnmapPcs
  <2> QED
    BY <2>1, <2>2
<1>7. ASSUME NEW t \in Thread, MapTableFail(t)
      PROVE  careful' => \A u \in Thread : CarefulOf(u)'
  <2> SUFFICES ASSUME careful, NEW u \in Thread PROVE CarefulOf(u)'
    BY <1>7 DEF MapTableFail, Misuse
  <2>1. CASE u = t
    <3>1. th[t].n \in Slot /\ CarefulOf(t) /\ ThreadOf(t)
      BY <1>7, <1>b, <1>c, <1>e DEF MapTableFail, CarefulInv
    <3>2. slot' = slot /\ th'[t].n = th[t].n /\ th'[t].err = TRUE /\ th'[t].pc \in {"reset", "del"}
          /\ slot[th[t].n].mem = "call"
      BY <1>7, <1>a, <1>c, <1>d, <3>1 DEF MapTableFail, Goto, UnmapResource, FreeIova, TypeOK, CarefulOf, Placed, ThreadOf, MsiInMutex
    <3> QED
      BY <2>1, <3>1, <3>2 DEF CarefulOf, Placed, UnmapPcs
  <2>2. CASE u # t
    <3>1. th'[u] = th[u] /\ CarefulOf(u)
      BY <1>7, <1>a, <1>c, <2>2 DEF MapTableFail, Goto, Return, Misuse, TypeOK, CarefulInv
    <3>2. th[u].n # 0 => th[u].n \in Slot /\ th[u].n # th[t].n /\ th[u].n # calls + 1
      BY <1>a, <1>b, <1>c, <2>2, Numbers DEF CarefulInv
    <3>3. th[u].n # 0 => slot'[th[u].n] = slot[th[u].n]
      BY <1>7, <1>a, <3>2 DEF MapTableFail, Misuse, TypeOK
    <3>4. Placed(u) => table'[th[u].iova] = table[th[u].iova]
      BY <1>7 DEF MapTableFail, Misuse
    <3>5. th[u].pc = "alloc" /\ slot[th[u].n].fixed => cookie'.msi = cookie.msi
      <4>1. th[u].pc = "alloc" /\ slot[th[u].n].fixed => mutex = u /\ slot[th[t].n].fixed = slot[th[u].n].fixed
        BY <1>7, <1>b, <1>c, <2>2 DEF MapTableFail, ThreadOf, CarefulInv, MapPcs
      <4>2. mutex = t <=> slot[th[t].n].fixed
        BY <1>7, <1>b DEF MapTableFail, ThreadOf
      <4> QED
        BY <2>2, <4>1, <4>2
    <3>6. th[u].n # 0 => pulled'[th[u].n] = pulled[th[u].n]
      BY <1>7 DEF MapTableFail, Misuse
    <3> QED
      BY <1>b, <3>1, <3>3, <3>4, <3>5, <3>6 DEF CarefulOf, Placed, ThreadOf, UnmapPcs
  <2> QED
    BY <2>1, <2>2
<1>8. ASSUME NEW t \in Thread, MapResetCookie(t)
      PROVE  careful' => \A u \in Thread : CarefulOf(u)'
  <2> SUFFICES ASSUME careful, NEW u \in Thread PROVE CarefulOf(u)'
    BY <1>8 DEF MapResetCookie, Misuse
  <2>1. CASE u = t
    <3>1. th[t].n \in Slot /\ CarefulOf(t) /\ ThreadOf(t)
      BY <1>8, <1>b, <1>c, <1>e DEF MapResetCookie, CarefulInv
    <3>2. slot' = slot /\ th'[t].n = th[t].n /\ th'[t].iova = th[t].iova /\ table' = table /\ th[t].pc = "reset"
          /\ th'[t].pc = (IF th[t].err THEN "del" ELSE "hash") /\ slot[th[t].n].mem = "call"
      BY <1>8, <1>a, <1>c, <1>d, <3>1 DEF MapResetCookie, Goto, UnmapResource, FreeIova, TypeOK, CarefulOf, Placed, ThreadOf, MsiInMutex
    <3>3. pulled' = pulled
      BY <1>8 DEF MapResetCookie
    <3> QED
      BY <2>1, <3>1, <3>2, <3>3 DEF CarefulOf, Placed, UnmapPcs
  <2>2. CASE u # t
    <3>1. th'[u] = th[u] /\ CarefulOf(u)
      BY <1>8, <1>a, <1>c, <2>2 DEF MapResetCookie, Goto, Return, Misuse, TypeOK, CarefulInv
    <3>2. th[u].n # 0 => th[u].n \in Slot /\ th[u].n # th[t].n /\ th[u].n # calls + 1
      BY <1>a, <1>b, <1>c, <2>2, Numbers DEF CarefulInv
    <3>3. th[u].n # 0 => slot'[th[u].n] = slot[th[u].n]
      BY <1>8, <1>a, <3>2 DEF MapResetCookie, Misuse, TypeOK
    <3>4. Placed(u) => table'[th[u].iova] = table[th[u].iova]
      BY <1>8 DEF MapResetCookie, Misuse
    <3>5. th[u].pc = "alloc" /\ slot[th[u].n].fixed => cookie'.msi = cookie.msi
      <4>1. th[u].pc = "alloc" /\ slot[th[u].n].fixed => mutex = u /\ slot[th[t].n].fixed = slot[th[u].n].fixed
        BY <1>8, <1>b, <1>c, <2>2 DEF MapResetCookie, ThreadOf, CarefulInv, MapPcs
      <4>2. mutex = t <=> slot[th[t].n].fixed
        BY <1>8, <1>b DEF MapResetCookie, ThreadOf
      <4> QED
        BY <2>2, <4>1, <4>2
    <3>6. th[u].n # 0 => pulled'[th[u].n] = pulled[th[u].n]
      BY <1>8 DEF MapResetCookie, Misuse
    <3> QED
      BY <1>b, <3>1, <3>3, <3>4, <3>5, <3>6 DEF CarefulOf, Placed, ThreadOf, UnmapPcs
  <2> QED
    BY <2>1, <2>2
<1>9. ASSUME NEW t \in Thread, MapHash(t)
      PROVE  careful' => \A u \in Thread : CarefulOf(u)'
  <2> SUFFICES ASSUME careful, NEW u \in Thread PROVE CarefulOf(u)'
    BY <1>9 DEF MapHash, Misuse
  <2>1. CASE u = t
    <3>1. th[t].n \in Slot
      BY <1>9, <1>e DEF MapHash
    <3>2. th'[t].pc = "copy" /\ th'[t].n = th[t].n
      BY <1>9, <1>a DEF MapHash, Goto, TypeOK
    <3>3. slot'[th[t].n].mem = "hashed"
      BY <1>9, <1>a, <3>1 DEF MapHash, TypeOK
    <3> QED
      BY <2>1, <3>2, <3>3 DEF CarefulOf, Placed, UnmapPcs
  <2>2. CASE u # t
    <3>1. th'[u] = th[u] /\ CarefulOf(u)
      BY <1>9, <1>a, <1>c, <2>2 DEF MapHash, Goto, Return, Misuse, TypeOK, CarefulInv
    <3>2. th[u].n # 0 => th[u].n \in Slot /\ th[u].n # th[t].n /\ th[u].n # calls + 1
      BY <1>a, <1>b, <1>c, <2>2, Numbers DEF CarefulInv
    <3>3. th[u].n # 0 => slot'[th[u].n] = slot[th[u].n]
      BY <1>9, <1>a, <3>2 DEF MapHash, Misuse, TypeOK
    <3>4. Placed(u) => table'[th[u].iova] = table[th[u].iova]
      BY <1>9 DEF MapHash, Misuse
    <3>5. th[u].pc = "alloc" /\ slot[th[u].n].fixed => cookie'.msi = cookie.msi
      BY <1>9 DEF MapHash, Misuse
    <3>6. th[u].n # 0 => pulled'[th[u].n] = pulled[th[u].n]
      BY <1>9 DEF MapHash, Misuse
    <3> QED
      BY <1>b, <3>1, <3>3, <3>4, <3>5, <3>6 DEF CarefulOf, Placed, ThreadOf, UnmapPcs
  <2> QED
    BY <2>1, <2>2
<1>10. ASSUME NEW t \in Thread, MapReturn(t)
      PROVE  careful' => \A u \in Thread : CarefulOf(u)'
  <2> SUFFICES ASSUME careful, NEW u \in Thread PROVE CarefulOf(u)'
    BY <1>10 DEF MapReturn, Misuse
  <2>1. CASE u = t
    <3>1. th'[u] = Idle
      BY <1>10, <1>a, <2>1 DEF MapReturn, Return, Misuse, TypeOK
    <3> QED
      BY <3>1 DEF CarefulOf, Placed, Idle, UnmapPcs
  <2>2. CASE u # t
    <3>1. th'[u] = th[u] /\ CarefulOf(u)
      BY <1>10, <1>a, <1>c, <2>2 DEF MapReturn, Goto, Return, Misuse, TypeOK, CarefulInv
    <3>2. th[u].n # 0 => th[u].n \in Slot /\ th[u].n # th[t].n /\ th[u].n # calls + 1
      BY <1>a, <1>b, <1>c, <2>2, Numbers DEF CarefulInv
    <3>3. th[u].n # 0 => slot'[th[u].n] = slot[th[u].n]
      BY <1>10, <1>a, <3>2 DEF MapReturn, Misuse, TypeOK
    <3>4. Placed(u) => table'[th[u].iova] = table[th[u].iova]
      BY <1>10 DEF MapReturn, Misuse
    <3>5. th[u].pc = "alloc" /\ slot[th[u].n].fixed => cookie'.msi = cookie.msi
      BY <1>10 DEF MapReturn, Misuse
    <3>6. th[u].n # 0 => pulled'[th[u].n] = pulled[th[u].n]
      BY <1>10 DEF MapReturn, Misuse
    <3> QED
      BY <1>b, <3>1, <3>3, <3>4, <3>5, <3>6 DEF CarefulOf, Placed, ThreadOf, UnmapPcs
  <2> QED
    BY <2>1, <2>2
<1>11. ASSUME NEW t \in Thread, MapCopyFail(t)
      PROVE  careful' => \A u \in Thread : CarefulOf(u)'
  <2> SUFFICES ASSUME careful, NEW u \in Thread PROVE CarefulOf(u)'
    BY <1>11 DEF MapCopyFail, Misuse
  <2>1. CASE u = t
    <3>1. th[t].n \in Slot /\ CarefulOf(t) /\ ThreadOf(t)
      BY <1>11, <1>b, <1>c, <1>e DEF MapCopyFail, CarefulInv
    <3>2. slot' = slot /\ th'[t].n = th[t].n /\ th'[t].pc = "del" /\ slot[th[t].n].mem = "hashed"
      BY <1>11, <1>a, <1>c, <1>d, <3>1 DEF MapCopyFail, Goto, UnmapResource, FreeIova, TypeOK, CarefulOf, Placed, ThreadOf, MsiInMutex
    <3> QED
      BY <2>1, <3>1, <3>2 DEF CarefulOf, Placed, UnmapPcs
  <2>2. CASE u # t
    <3>1. th'[u] = th[u] /\ CarefulOf(u)
      BY <1>11, <1>a, <1>c, <2>2 DEF MapCopyFail, Goto, Return, Misuse, TypeOK, CarefulInv
    <3>2. th[u].n # 0 => th[u].n \in Slot /\ th[u].n # th[t].n /\ th[u].n # calls + 1
      BY <1>a, <1>b, <1>c, <2>2, Numbers DEF CarefulInv
    <3>3. th[u].n # 0 => slot'[th[u].n] = slot[th[u].n]
      BY <1>11, <1>a, <3>2 DEF MapCopyFail, Misuse, TypeOK
    <3>4. Placed(u) => table'[th[u].iova] = table[th[u].iova]
      <4>1. Placed(u) => table[th[u].iova] = th[u].n /\ th[u].iova \in Iova
        BY <1>b, <3>1 DEF CarefulOf, Placed, ThreadOf
      <4>2. slot[th[t].n].mem = "hashed" /\ slot[th[t].n].iova = th[t].iova /\ th[t].n \in Slot
        BY <1>11, <1>b, <1>c, <1>e DEF MapCopyFail, CarefulInv, CarefulOf, ThreadOf
      <4>3. \A v \in Users(th[t].n) : v = t
        BY <1>c, <1>d, <4>2 DEF Users, CarefulInv, Slot
      <4>4. table[th[t].iova] = th[t].n
        BY <1>11, <1>c, <4>2, <4>3 DEF MapCopyFail, EntryPlaced, EntryMapped
      <4>5. Placed(u) => th[u].iova # th[t].iova
        BY <1>b, <3>2, <4>1, <4>2, <4>4 DEF Placed, ThreadOf
      <4> QED
        BY <1>11, <1>a, <4>1, <4>5 DEF MapCopyFail, UnmapResource, FreeIova, TypeOK
    <3>5. th[u].pc = "alloc" /\ slot[th[u].n].fixed => cookie'.msi = slot[th[u].n].req - pulled'[th[u].n]
      BY <1>11, <1>b, <3>1, <3>2, PulledWith DEF MapCopyFail, CarefulOf, ThreadOf
    <3>6. th[u].n # 0 /\ th[u].pc # "alloc" => pulled'[th[u].n] = pulled[th[u].n]
      BY <1>11, <1>c, <3>2, PulledElsewhere DEF MapCopyFail, CarefulInv, Pending
    <3> QED
      BY <1>b, <3>1, <3>3, <3>4, <3>5, <3>6 DEF CarefulOf, Placed, ThreadOf, UnmapPcs
  <2> QED
    BY <2>1, <2>2
<1>12. ASSUME NEW t \in Thread, MapDel(t)
      PROVE  careful' => \A u \in Thread : CarefulOf(u)'
  <2> SUFFICES ASSUME careful, NEW u \in Thread PROVE CarefulOf(u)'
    BY <1>12 DEF MapDel, Misuse
  <2>1. CASE u = t
    <3>1. th'[u] = Idle
      BY <1>12, <1>a, <2>1 DEF MapDel, Return, Misuse, TypeOK
    <3> QED
      BY <3>1 DEF CarefulOf, Placed, Idle, UnmapPcs
  <2>2. CASE u # t
    <3>1. th'[u] = th[u] /\ CarefulOf(u)
      BY <1>12, <1>a, <1>c, <2>2 DEF MapDel, Goto, Return, Misuse, TypeOK, CarefulInv
    <3>2. th[u].n # 0 => th[u].n \in Slot /\ th[u].n # th[t].n /\ th[u].n # calls + 1
      BY <1>a, <1>b, <1>c, <2>2, Numbers DEF CarefulInv
    <3>3. th[u].n # 0 => slot'[th[u].n] = slot[th[u].n]
      BY <1>12, <1>a, <3>2 DEF MapDel, Misuse, TypeOK
    <3>4. Placed(u) => table'[th[u].iova] = table[th[u].iova]
      BY <1>12 DEF MapDel, Misuse
    <3>5. th[u].pc = "alloc" /\ slot[th[u].n].fixed => cookie'.msi = cookie.msi
      BY <1>12 DEF MapDel, Misuse
    <3>6. th[u].n # 0 => pulled'[th[u].n] = pulled[th[u].n]
      BY <1>12 DEF MapDel, Misuse
    <3> QED
      BY <1>b, <3>1, <3>3, <3>4, <3>5, <3>6 DEF CarefulOf, Placed, ThreadOf, UnmapPcs
  <2> QED
    BY <2>1, <2>2
<1>13. ASSUME NEW t \in Thread, NEW n \in Slot, UnmapFind(t, n)
      PROVE  careful' => \A u \in Thread : CarefulOf(u)'
  <2> SUFFICES ASSUME careful, NEW u \in Thread PROVE CarefulOf(u)'
    BY <1>13 DEF UnmapFind, Misuse
  <2>1. CASE u = t
    <3>1. th'[t].pc = "unmap" /\ th'[t].n = n /\ slot'[n].mem = "hashed"
      BY <1>13, <1>a DEF UnmapFind, TypeOK, Idle
    <3> QED
      BY <2>1, <3>1 DEF CarefulOf, Placed, UnmapPcs
  <2>2. CASE u # t
    <3>1. th'[u] = th[u] /\ CarefulOf(u)
      BY <1>13, <1>a, <1>c, <2>2 DEF UnmapFind, Goto, Return, Misuse, TypeOK, CarefulInv
    <3>2. th[u].n # 0 => th[u].n \in Slot /\ th[u].n # th[t].n /\ th[u].n # calls + 1
      BY <1>a, <1>b, <1>c, <2>2, Numbers DEF CarefulInv
    <3>3. th[u].n # 0 => slot'[th[u].n] = slot[th[u].n]
      BY <1>13, <1>a, <3>2 DEF UnmapFind, Misuse, TypeOK
    <3>4. Placed(u) => table'[th[u].iova] = table[th[u].iova]
      BY <1>13 DEF UnmapFind, Misuse
    <3>5. th[u].pc = "alloc" /\ slot[th[u].n].fixed => cookie'.msi = cookie.msi
      BY <1>13 DEF UnmapFind, Misuse
    <3>6. th[u].n # 0 => pulled'[th[u].n] = pulled[th[u].n]
      BY <1>13 DEF UnmapFind, Misuse
    <3> QED
      BY <1>b, <3>1, <3>3, <3>4, <3>5, <3>6 DEF CarefulOf, Placed, ThreadOf, UnmapPcs
  <2> QED
    BY <2>1, <2>2
<1>14. ASSUME NEW t \in Thread, UnmapTable(t)
      PROVE  careful' => \A u \in Thread : CarefulOf(u)'
  <2> SUFFICES ASSUME careful, NEW u \in Thread PROVE CarefulOf(u)'
    BY <1>14 DEF UnmapTable, Misuse
  <2>1. CASE u = t
    <3>1. th[t].n \in Slot /\ CarefulOf(t) /\ ThreadOf(t)
      BY <1>14, <1>b, <1>c, <1>e DEF UnmapTable, CarefulInv
    <3>2. slot' = slot /\ th'[t].n = th[t].n /\ th'[t].pc = "remove" /\ slot[th[t].n].mem = "hashed"
      BY <1>14, <1>a, <1>c, <1>d, <3>1 DEF UnmapTable, Goto, UnmapResource, FreeIova, TypeOK, CarefulOf, Placed, ThreadOf, MsiInMutex
    <3> QED
      BY <2>1, <3>1, <3>2 DEF CarefulOf, Placed, UnmapPcs
  <2>2. CASE u # t
    <3>1. th'[u] = th[u] /\ CarefulOf(u)
      BY <1>14, <1>a, <1>c, <2>2 DEF UnmapTable, Goto, Return, Misuse, TypeOK, CarefulInv
    <3>2. th[u].n # 0 => th[u].n \in Slot /\ th[u].n # th[t].n /\ th[u].n # calls + 1
      BY <1>a, <1>b, <1>c, <2>2, Numbers DEF CarefulInv
    <3>3. th[u].n # 0 => slot'[th[u].n] = slot[th[u].n]
      BY <1>14, <1>a, <3>2 DEF UnmapTable, Misuse, TypeOK
    <3>4. Placed(u) => table'[th[u].iova] = table[th[u].iova]
      <4>1. Placed(u) => table[th[u].iova] = th[u].n /\ th[u].iova \in Iova
        BY <1>b, <3>1 DEF CarefulOf, Placed, ThreadOf
      <4>2. slot[th[t].n].mem = "hashed" /\ th[t].n \in Slot
        BY <1>14, <1>e DEF UnmapTable
      <4>3. \A v \in Users(th[t].n) : v = t
        BY <1>c, <1>d, <4>2 DEF Users, CarefulInv, Slot
      <4>4. table[slot[th[t].n].iova] = th[t].n
        BY <1>14, <1>c, <4>2, <4>3 DEF UnmapTable, EntryPlaced, EntryMapped
      <4>5. Placed(u) => th[u].iova # slot[th[t].n].iova
        BY <1>b, <3>2, <4>1, <4>2, <4>4 DEF Placed, ThreadOf
      <4> QED
        BY <1>14, <1>a, <4>1, <4>5 DEF UnmapTable, UnmapResource, FreeIova, TypeOK
    <3>5. th[u].pc = "alloc" /\ slot[th[u].n].fixed => cookie'.msi = slot[th[u].n].req - pulled'[th[u].n]
      BY <1>14, <1>b, <3>1, <3>2, PulledWith DEF UnmapTable, CarefulOf, ThreadOf
    <3>6. th[u].n # 0 /\ th[u].pc # "alloc" => pulled'[th[u].n] = pulled[th[u].n]
      BY <1>14, <1>c, <3>2, PulledElsewhere DEF UnmapTable, CarefulInv, Pending
    <3> QED
      BY <1>b, <3>1, <3>3, <3>4, <3>5, <3>6 DEF CarefulOf, Placed, ThreadOf, UnmapPcs
  <2> QED
    BY <2>1, <2>2
<1>15. ASSUME NEW t \in Thread, UnmapDel(t)
      PROVE  careful' => \A u \in Thread : CarefulOf(u)'
  <2> SUFFICES ASSUME careful, NEW u \in Thread PROVE CarefulOf(u)'
    BY <1>15 DEF UnmapDel, Misuse
  <2>1. CASE u = t
    <3>1. th'[u] = Idle
      BY <1>15, <1>a, <2>1 DEF UnmapDel, Return, Misuse, TypeOK
    <3> QED
      BY <3>1 DEF CarefulOf, Placed, Idle, UnmapPcs
  <2>2. CASE u # t
    <3>1. th'[u] = th[u] /\ CarefulOf(u)
      BY <1>15, <1>a, <1>c, <2>2 DEF UnmapDel, Goto, Return, Misuse, TypeOK, CarefulInv
    <3>2. th[u].n # 0 => th[u].n \in Slot /\ th[u].n # th[t].n /\ th[u].n # calls + 1
      BY <1>a, <1>b, <1>c, <2>2, Numbers DEF CarefulInv
    <3>3. th[u].n # 0 => slot'[th[u].n] = slot[th[u].n]
      BY <1>15, <1>a, <3>2 DEF UnmapDel, Misuse, TypeOK
    <3>4. Placed(u) => table'[th[u].iova] = table[th[u].iova]
      BY <1>15 DEF UnmapDel, Misuse
    <3>5. th[u].pc = "alloc" /\ slot[th[u].n].fixed => cookie'.msi = cookie.msi
      BY <1>15 DEF UnmapDel, Misuse
    <3>6. th[u].n # 0 => pulled'[th[u].n] = pulled[th[u].n]
      BY <1>15 DEF UnmapDel, Misuse
    <3> QED
      BY <1>b, <3>1, <3>3, <3>4, <3>5, <3>6 DEF CarefulOf, Placed, ThreadOf, UnmapPcs
  <2> QED
    BY <2>1, <2>2
<1>16. ASSUME NEW t \in Thread, UseFreed(t)
      PROVE  careful' => \A u \in Thread : CarefulOf(u)'
  <2> SUFFICES ASSUME careful, NEW u \in Thread PROVE CarefulOf(u)'
    BY <1>16 DEF UseFreed, Misuse
  <2>1. CASE u = t
    <3>1. th'[u] = Idle
      BY <1>16, <1>a, <2>1 DEF UseFreed, Return, Misuse, TypeOK
    <3> QED
      BY <3>1 DEF CarefulOf, Placed, Idle, UnmapPcs
  <2>2. CASE u # t
    <3>1. th'[u] = th[u] /\ CarefulOf(u)
      BY <1>16, <1>a, <1>c, <2>2 DEF UseFreed, Goto, Return, Misuse, TypeOK, CarefulInv
    <3>2. th[u].n # 0 => th[u].n \in Slot /\ th[u].n # th[t].n /\ th[u].n # calls + 1
      BY <1>a, <1>b, <1>c, <2>2, Numbers DEF CarefulInv
    <3>3. th[u].n # 0 => slot'[th[u].n] = slot[th[u].n]
      BY <1>16, <1>a, <3>2 DEF UseFreed, Misuse, TypeOK
    <3>4. Placed(u) => table'[th[u].iova] = table[th[u].iova]
      BY <1>16 DEF UseFreed, Misuse
    <3>5. th[u].pc = "alloc" /\ slot[th[u].n].fixed => cookie'.msi = cookie.msi
      BY <1>16 DEF UseFreed, Misuse
    <3>6. th[u].n # 0 => pulled'[th[u].n] = pulled[th[u].n]
      BY <1>16 DEF UseFreed, Misuse
    <3> QED
      BY <1>b, <3>1, <3>3, <3>4, <3>5, <3>6 DEF CarefulOf, Placed, ThreadOf, UnmapPcs
  <2> QED
    BY <2>1, <2>2
<1>17. ASSUME NEW c \in Ctx, Close(c)
      PROVE  careful' => \A u \in Thread : CarefulOf(u)'
  <2> SUFFICES ASSUME careful, NEW u \in Thread PROVE CarefulOf(u)'
    BY <1>17 DEF Close
  <2>1. CarefulOf(u) /\ UNCHANGED <<slot, table, cookie, th, pulled>>
    BY <1>17, <1>c DEF Close, CarefulInv
  <2> QED
    BY <2>1 DEF CarefulOf, Placed
<1>18. ASSUME NEW k \in Slot, CloseEntry(k)
      PROVE  careful' => \A u \in Thread : CarefulOf(u)'
  <2> SUFFICES ASSUME careful, NEW u \in Thread PROVE CarefulOf(u)'
    BY <1>18 DEF CloseEntry
  <2>1. th' = th /\ CarefulOf(u) /\ UnmapResource(slot[k].iova)
    BY <1>18, <1>c DEF CloseEntry, CarefulInv
  <2>2. CASE th[u].pc = "idle"
    BY <2>1, <2>2 DEF CarefulOf, Placed, UnmapPcs
  <2>3. CASE th[u].pc # "idle"
    <3>1. th[u].n \in Slot /\ th[u].n # 0
      BY <1>d, <1>e, <2>3 DEF Slot
    <3>2. k # 0 /\ \A v \in Thread : th[v].n # k
      BY <1>18, <1>b, <1>d DEF CloseEntry, InOpen, Slot
    <3>3. slot'[th[u].n] = slot[th[u].n]
      BY <1>18, <1>a, <3>1, <3>2 DEF CloseEntry, TypeOK
    <3>4. Placed(u) => table'[th[u].iova] = table[th[u].iova]
      <4>1. Placed(u) => table[th[u].iova] = th[u].n /\ th[u].iova \in Iova
        BY <1>b, <2>1 DEF CarefulOf, Placed, ThreadOf
      <4>2. table[slot[k].iova] = k
        BY <1>18, <1>c, <3>2 DEF CloseEntry, EntryPlaced, EntryMapped, Users
      <4>3. Placed(u) => th[u].iova # slot[k].iova
        BY <3>2, <4>1, <4>2
      <4> QED
        BY <1>a, <2>1, <4>1, <4>3 DEF UnmapResource, TypeOK
    <3>5. th[u].pc = "alloc" /\ slot[th[u].n].fixed => cookie'.msi = slot[th[u].n].req - pulled'[th[u].n]
      BY <1>b, <2>1, <3>1, PulledWith DEF CarefulOf, ThreadOf
    <3>6. th[u].pc # "alloc" => pulled'[th[u].n] = pulled[th[u].n]
      BY <1>c, <2>1, <3>1, PulledElsewhere DEF CarefulInv, Pending
    <3> QED
      BY <2>1, <2>3, <3>3, <3>4, <3>5, <3>6 DEF CarefulOf, Placed
  <2> QED
    BY <2>2, <2>3
<1> QED
  BY <1>1, <1>2, <1>3, <1>4, <1>5, <1>6, <1>7, <1>8, <1>9,
     <1>10, <1>11, <1>12, <1>13, <1>14, <1>15, <1>16, <1>17, <1>18 DEF Next, Map, Unmap

\* Entries of a careful process stay mapped, whatever other calls take down.
LEMMA MappedKept ==
    ASSUME IInv, Next
    PROVE  EntryMapped'
<1>a. TypeOK
  BY DEF IInv
<1>b. Unbegun /\ OneMapper /\ InOpen /\ \A u \in Thread : ThreadOf(u)
  BY DEF IInv
<1>c. CarefulInv /\ EntryPlaced /\ MsiInMutex
  BY DEF IInv
<1>d. MaxMap \in Nat /\ Iovas \in Nat /\ None \notin Thread
  BY Addresses, MmioAssumption
<1>e. \A u \in Thread : th[u].pc # "idle" => th[u].n \in Slot
  BY <1>a, <1>b, <1>d DEF TypeOK, ThreadOf, Slot
<1>f. careful' => ~bad'
  BY NoMisuseKept
<1>1. ASSUME NEW t \in Thread, NEW c \in Ctx, NEW fixed \in BOOLEAN, NEW req \in Iova, MapStart(t, c, fixed, req)
      PROVE  EntryMapped'
  <2> SUFFICES ASSUME careful, NEW m \in Slot, slot'[m].mem = "hashed",
                      \A v \in Thread : th'[v].n = m => th'[v].pc \notin {"remove", "del"}
               PROVE  table'[slot'[m].iova] = m
    BY <1>1 DEF MapStart, Misuse, EntryMapped, Users
  <2>1. slot'[m] = slot[m] /\ slot[m].mem = "hashed"
    BY <1>1, <1>a, <1>d DEF MapStart, NewSlot, TypeOK, Slot
  <2>2. \A v \in Users(m) : th[v].pc \notin {"remove", "del"}
    <3> SUFFICES ASSUME NEW v \in Thread, th[v].n = m, th[v].pc \in {"remove", "del"} PROVE FALSE
      BY DEF Users
    <3>1. CASE v = t
      BY <1>1, <3>1 DEF MapStart, Idle
    <3>2. CASE v # t
      <4>1. th'[v] = th[v]
        BY <1>1, <1>a, <3>2 DEF MapStart, Goto, Return, Misuse, TypeOK
      <4> QED
        BY <4>1
    <3> QED
      BY <3>1, <3>2
  <2>3. table[slot[m].iova] = m /\ slot[m].iova \in Iova /\ m # 0
    <3>1. table[slot[m].iova] = m
      BY <1>c, <2>1, <2>2 DEF EntryPlaced, EntryMapped
    <3>2. slot[m].iova \in Iova
      BY <1>a DEF TypeOK
    <3> QED
      BY <3>1, <3>2 DEF Slot
  <2>4. table'[slot[m].iova] = table[slot[m].iova]
    BY <1>1 DEF MapStart, Misuse
  <2> QED
    BY <2>1, <2>3, <2>4
<1>2. ASSUME NEW t \in Thread, MapReject(t)
      PROVE  EntryMapped'
  <2> SUFFICES ASSUME careful, NEW m \in Slot, slot'[m].mem = "hashed",
                      \A v \in Thread : th'[v].n = m => th'[v].pc \notin {"remove", "del"}
               PROVE  table'[slot'[m].iova] = m
    BY <1>2 DEF MapReject, Misuse, EntryMapped, Users
  <2>1. slot'[m] = slot[m] /\ slot[m].mem = "hashed"
    BY <1>2, <1>a, <1>e DEF MapReject, TypeOK
  <2>2. \A v \in Users(m) : th[v].pc \notin {"remove", "del"}
    <3> SUFFICES ASSUME NEW v \in Thread, th[v].n = m, th[v].pc \in {"remove", "del"} PROVE FALSE
      BY DEF Users
    <3>1. CASE v = t
      BY <1>2, <3>1 DEF MapReject, Idle
    <3>2. CASE v # t
      <4>1. th'[v] = th[v]
        BY <1>2, <1>a, <3>2 DEF MapReject, Goto, Return, Misuse, TypeOK
      <4> QED
        BY <4>1
    <3> QED
      BY <3>1, <3>2
  <2>3. table[slot[m].iova] = m /\ slot[m].iova \in Iova /\ m # 0
    <3>1. table[slot[m].iova] = m
      BY <1>c, <2>1, <2>2 DEF EntryPlaced, EntryMapped
    <3>2. slot[m].iova \in Iova
      BY <1>a DEF TypeOK
    <3> QED
      BY <3>1, <3>2 DEF Slot
  <2>4. table'[slot[m].iova] = table[slot[m].iova]
    BY <1>2 DEF MapReject, Misuse
  <2> QED
    BY <2>1, <2>3, <2>4
<1>3. ASSUME NEW t \in Thread, MapSetCookie(t)
      PROVE  EntryMapped'
  <2> SUFFICES ASSUME careful, NEW m \in Slot, slot'[m].mem = "hashed",
                      \A v \in Thread : th'[v].n = m => th'[v].pc \notin {"remove", "del"}
               PROVE  table'[slot'[m].iova] = m
    BY <1>3 DEF MapSetCookie, Misuse, EntryMapped, Users
  <2>1. slot'[m] = slot[m] /\ slot[m].mem = "hashed"
    BY <1>3, <1>a DEF MapSetCookie, Misuse, TypeOK
  <2>2. \A v \in Users(m) : th[v].pc \notin {"remove", "del"}
    <3> SUFFICES ASSUME NEW v \in Thread, th[v].n = m, th[v].pc \in {"remove", "del"} PROVE FALSE
      BY DEF Users
    <3>1. CASE v = t
      BY <1>3, <1>a, <3>1 DEF MapSetCookie, Goto, TypeOK
    <3>2. CASE v # t
      <4>1. th'[v] = th[v]
        BY <1>3, <1>a, <3>2 DEF MapSetCookie, Goto, Return, Misuse, TypeOK
      <4> QED
        BY <4>1
    <3> QED
      BY <3>1, <3>2
  <2>3. table[slot[m].iova] = m /\ slot[m].iova \in Iova /\ m # 0
    <3>1. table[slot[m].iova] = m
      BY <1>c, <2>1, <2>2 DEF EntryPlaced, EntryMapped
    <3>2. slot[m].iova \in Iova
      BY <1>a DEF TypeOK
    <3> QED
      BY <3>1, <3>2 DEF Slot
  <2>4. table'[slot[m].iova] = table[slot[m].iova]
    BY <1>3 DEF MapSetCookie, Misuse
  <2> QED
    BY <2>1, <2>3, <2>4
<1>4. ASSUME NEW t \in Thread, MapAllocMsi(t)
      PROVE  EntryMapped'
  <2> SUFFICES ASSUME careful, NEW m \in Slot, slot'[m].mem = "hashed",
                      \A v \in Thread : th'[v].n = m => th'[v].pc \notin {"remove", "del"}
               PROVE  table'[slot'[m].iova] = m
    BY <1>4 DEF MapAllocMsi, Misuse, EntryMapped, Users
  <2>1. slot'[m] = slot[m] /\ slot[m].mem = "hashed"
    BY <1>4, <1>a DEF MapAllocMsi, Misuse, TypeOK
  <2>2. \A v \in Users(m) : th[v].pc \notin {"remove", "del"}
    <3> SUFFICES ASSUME NEW v \in Thread, th[v].n = m, th[v].pc \in {"remove", "del"} PROVE FALSE
      BY DEF Users
    <3>1. CASE v = t
      BY <1>4, <1>a, <3>1 DEF MapAllocMsi, Goto, TypeOK
    <3>2. CASE v # t
      <4>1. th'[v] = th[v]
        BY <1>4, <1>a, <3>2 DEF MapAllocMsi, Goto, Return, Misuse, TypeOK
      <4> QED
        BY <4>1
    <3> QED
      BY <3>1, <3>2
  <2>3. table[slot[m].iova] = m /\ slot[m].iova \in Iova /\ m # 0
    <3>1. table[slot[m].iova] = m
      BY <1>c, <2>1, <2>2 DEF EntryPlaced, EntryMapped
    <3>2. slot[m].iova \in Iova
      BY <1>a DEF TypeOK
    <3> QED
      BY <3>1, <3>2 DEF Slot
  <2>4. table'[slot[m].iova] = table[slot[m].iova]
    BY <1>4 DEF MapAllocMsi, Misuse
  <2> QED
    BY <2>1, <2>3, <2>4
<1>5. ASSUME NEW t \in Thread, MapAllocIova(t)
      PROVE  EntryMapped'
  <2> SUFFICES ASSUME careful, NEW m \in Slot, slot'[m].mem = "hashed",
                      \A v \in Thread : th'[v].n = m => th'[v].pc \notin {"remove", "del"}
               PROVE  table'[slot'[m].iova] = m
    BY <1>5 DEF MapAllocIova, Misuse, EntryMapped, Users
  <2>1. slot'[m] = slot[m] /\ slot[m].mem = "hashed"
    BY <1>5, <1>a DEF MapAllocIova, Misuse, TypeOK
  <2>2. \A v \in Users(m) : th[v].pc \notin {"remove", "del"}
    <3> SUFFICES ASSUME NEW v \in Thread, th[v].n = m, th[v].pc \in {"remove", "del"} PROVE FALSE
      BY DEF Users
    <3>1. CASE v = t
      BY <1>5, <1>a, <3>1 DEF MapAllocIova, Goto, TypeOK
    <3>2. CASE v # t
      <4>1. th'[v] = th[v]
        BY <1>5, <1>a, <3>2 DEF MapAllocIova, Goto, Return, Misuse, TypeOK
      <4> QED
        BY <4>1
    <3> QED
      BY <3>1, <3>2
  <2>3. table[slot[m].iova] = m /\ slot[m].iova \in Iova /\ m # 0
    <3>1. table[slot[m].iova] = m
      BY <1>c, <2>1, <2>2 DEF EntryPlaced, EntryMapped
    <3>2. slot[m].iova \in Iova
      BY <1>a DEF TypeOK
    <3> QED
      BY <3>1, <3>2 DEF Slot
  <2>4. table'[slot[m].iova] = table[slot[m].iova]
    BY <1>5 DEF MapAllocIova, Misuse
  <2> QED
    BY <2>1, <2>3, <2>4
<1>6. ASSUME NEW t \in Thread, MapTable(t)
      PROVE  EntryMapped'
  <2> SUFFICES ASSUME careful, NEW m \in Slot, slot'[m].mem = "hashed",
                      \A v \in Thread : th'[v].n = m => th'[v].pc \notin {"remove", "del"}
               PROVE  table'[slot'[m].iova] = m
    BY <1>6 DEF MapTable, Misuse, EntryMapped, Users
  <2>1. slot'[m] = slot[m] /\ slot[m].mem = "hashed"
    BY <1>6, <1>a DEF MapTable, Misuse, TypeOK
  <2>2. \A v \in Users(m) : th[v].pc \notin {"remove", "del"}
    <3> SUFFICES ASSUME NEW v \in Thread, th[v].n = m, th[v].pc \in {"remove", "del"} PROVE FALSE
      BY DEF Users
    <3>1. CASE v = t
      BY <1>6, <1>a, <3>1 DEF MapTable, Goto, TypeOK
    <3>2. CASE v # t
      <4>1. th'[v] = th[v]
        BY <1>6, <1>a, <3>2 DEF MapTable, Goto, Return, Misuse, TypeOK
      <4> QED
        BY <4>1
    <3> QED
      BY <3>1, <3>2
  <2>3. table[slot[m].iova] = m /\ slot[m].iova \in Iova /\ m # 0
    <3>1. table[slot[m].iova] = m
      BY <1>c, <2>1, <2>2 DEF EntryPlaced, EntryMapped
    <3>2. slot[m].iova \in Iova
      BY <1>a DEF TypeOK
    <3> QED
      BY <3>1, <3>2 DEF Slot
  <2>4. table'[slot[m].iova] = table[slot[m].iova]
    BY <1>6, <1>a, <2>3 DEF MapTable, TypeOK
  <2> QED
    BY <2>1, <2>3, <2>4
<1>7. ASSUME NEW t \in Thread, MapTableFail(t)
      PROVE  EntryMapped'
  <2> SUFFICES ASSUME careful, NEW m \in Slot, slot'[m].mem = "hashed",
                      \A v \in Thread : th'[v].n = m => th'[v].pc \notin {"remove", "del"}
               PROVE  table'[slot'[m].iova] = m
    BY <1>7 DEF MapTableFail, Misuse, EntryMapped, Users
  <2>1. slot'[m] = slot[m] /\ slot[m].mem = "hashed"
    BY <1>7, <1>a DEF MapTableFail, Misuse, TypeOK
  <2>2. \A v \in Users(m) : th[v].pc \notin {"remove", "del"}
    <3> SUFFICES ASSUME NEW v \in Thread, th[v].n = m, th[v].pc \in {"remove", "del"} PROVE FALSE
      BY DEF Users
    <3>1. CASE v = t
      BY <1>7, <1>a, <3>1 DEF MapTableFail, Goto, TypeOK
    <3>2. CASE v # t
      <4>1. th'[v] = th[v]
        BY <1>7, <1>a, <3>2 DEF MapTableFail, Goto, Return, Misuse, TypeOK
      <4> QED
        BY <4>1
    <3> QED
      BY <3>1, <3>2
  <2>3. table[slot[m].iova] = m /\ slot[m].iova \in Iova /\ m # 0
    <3>1. table[slot[m].iova] = m
      BY <1>c, <2>1, <2>2 DEF EntryPlaced, EntryMapped
    <3>2. slot[m].iova \in Iova
      BY <1>a DEF TypeOK
    <3> QED
      BY <3>1, <3>2 DEF Slot
  <2>4. table'[slot[m].iova] = table[slot[m].iova]
    BY <1>7 DEF MapTableFail, Misuse
  <2> QED
    BY <2>1, <2>3, <2>4
<1>8. ASSUME NEW t \in Thread, MapResetCookie(t)
      PROVE  EntryMapped'
  <2> SUFFICES ASSUME careful, NEW m \in Slot, slot'[m].mem = "hashed",
                      \A v \in Thread : th'[v].n = m => th'[v].pc \notin {"remove", "del"}
               PROVE  table'[slot'[m].iova] = m
    BY <1>8 DEF MapResetCookie, Misuse, EntryMapped, Users
  <2>1. slot'[m] = slot[m] /\ slot[m].mem = "hashed"
    BY <1>8, <1>a DEF MapResetCookie, Misuse, TypeOK
  <2>2. \A v \in Users(m) : th[v].pc \notin {"remove", "del"}
    <3> SUFFICES ASSUME NEW v \in Thread, th[v].n = m, th[v].pc \in {"remove", "del"} PROVE FALSE
      BY DEF Users
    <3>1. CASE v = t
      BY <1>8, <1>a, <3>1 DEF MapResetCookie, Goto, TypeOK
    <3>2. CASE v # t
      <4>1. th'[v] = th[v]
        BY <1>8, <1>a, <3>2 DEF MapResetCookie, Goto, Return, Misuse, TypeOK
      <4> QED
        BY <4>1
    <3> QED
      BY <3>1, <3>2
  <2>3. table[slot[m].iova] = m /\ slot[m].iova \in Iova /\ m # 0
    <3>1. table[slot[m].iova] = m
      BY <1>c, <2>1, <2>2 DEF EntryPlaced, EntryMapped
    <3>2. slot[m].iova \in Iova
      BY <1>a DEF TypeOK
    <3> QED
      BY <3>1, <3>2 DEF Slot
  <2>4. table'[slot[m].iova] = table[slot[m].iova]
    BY <1>8 DEF MapResetCookie, Misuse
  <2> QED
    BY <2>1, <2>3, <2>4
<1>9. ASSUME NEW t \in Thread, MapHash(t)
      PROVE  EntryMapped'
  <2> SUFFICES ASSUME careful, NEW m \in Slot, slot'[m].mem = "hashed",
                      \A v \in Thread : th'[v].n = m => th'[v].pc \notin {"remove", "del"}
               PROVE  table'[slot'[m].iova] = m
    BY <1>9 DEF MapHash, EntryMapped, Users
  <2>1. th[t].n \in Slot /\ table' = table
    BY <1>9, <1>e DEF MapHash
  <2>2. CASE m = th[t].n
    <3>1. slot'[m].iova = th[t].iova
      BY <1>9, <1>a, <2>1, <2>2 DEF MapHash, TypeOK
    <3>2. table[th[t].iova] = m
      BY <1>9, <1>c, <2>2 DEF MapHash, CarefulInv, CarefulOf, Placed
    <3> QED
      BY <2>1, <3>1, <3>2
  <2>3. CASE m # th[t].n
    <3>1. slot'[m] = slot[m]
      BY <1>9, <1>a, <2>3 DEF MapHash, TypeOK
    <3>2. \A v \in Users(m) : th'[v] = th[v]
      BY <1>9, <1>a, <2>3 DEF MapHash, Goto, TypeOK, Users
    <3>3. \A v \in Users(m) : th[v].pc \notin {"remove", "del"}
      BY <3>2 DEF Users
    <3> QED
      BY <1>c, <2>1, <3>1, <3>3 DEF EntryPlaced, EntryMapped
  <2> QED
    BY <2>2, <2>3
<1>10. ASSUME NEW t \in Thread, MapReturn(t)
      PROVE  EntryMapped'
  <2> SUFFICES ASSUME careful, NEW m \in Slot, slot'[m].mem = "hashed",
                      \A v \in Thread : th'[v].n = m => th'[v].pc \notin {"remove", "del"}
               PROVE  table'[slot'[m].iova] = m
    BY <1>10 DEF MapReturn, Misuse, EntryMapped, Users
  <2>1. slot'[m] = slot[m] /\ slot[m].mem = "hashed"
    BY <1>10, <1>a DEF MapReturn, Misuse, TypeOK
  <2>2. \A v \in Users(m) : th[v].pc \notin {"remove", "del"}
    <3> SUFFICES ASSUME NEW v \in Thread, th[v].n = m, th[v].pc \in {"remove", "del"} PROVE FALSE
      BY DEF Users
    <3>1. CASE v = t
      BY <1>10, <3>1 DEF MapReturn, Idle
    <3>2. CASE v # t
      <4>1. th'[v] = th[v]
        BY <1>10, <1>a, <3>2 DEF MapReturn, Goto, Return, Misuse, TypeOK
      <4> QED
        BY <4>1
    <3> QED
      BY <3>1, <3>2
  <2>3. table[slot[m].iova] = m /\ slot[m].iova \in Iova /\ m # 0
    <3>1. table[slot[m].iova] = m
      BY <1>c, <2>1, <2>2 DEF EntryPlaced, EntryMapped
    <3>2. slot[m].iova \in Iova
      BY <1>a DEF TypeOK
    <3> QED
      BY <3>1, <3>2 DEF Slot
  <2>4. table'[slot[m].iova] = table[slot[m].iova]
    BY <1>10 DEF MapReturn, Misuse
  <2> QED
    BY <2>1, <2>3, <2>4
<1>11. ASSUME NEW t \in Thread, MapCopyFail(t)
      PROVE  EntryMapped'
  <2> SUFFICES ASSUME careful, NEW m \in Slot, slot'[m].mem = "hashed",
                      \A v \in Thread : th'[v].n = m => th'[v].pc \notin {"remove", "del"}
               PROVE  table'[slot'[m].iova] = m
    BY <1>11 DEF MapCopyFail, Misuse, EntryMapped, Users
  <2>1. slot'[m] = slot[m] /\ slot[m].mem = "hashed"
    BY <1>11, <1>a DEF MapCopyFail, Misuse, TypeOK
  <2>2. \A v \in Users(m) : th[v].pc \notin {"remove", "del"}
    <3> SUFFICES ASSUME NEW v \in Thread, th[v].n = m, th[v].pc \in {"remove", "del"} PROVE FALSE
      BY DEF Users
    <3>1. CASE v = t
      BY <1>11, <1>a, <3>1 DEF MapCopyFail, Goto, TypeOK
    <3>2. CASE v # t
      <4>1. th'[v] = th[v]
        BY <1>11, <1>a, <3>2 DEF MapCopyFail, Goto, Return, Misuse, TypeOK
      <4> QED
        BY <4>1
    <3> QED
      BY <3>1, <3>2
  <2>3. table[slot[m].iova] = m /\ slot[m].iova \in Iova /\ m # 0
    <3>1. table[slot[m].iova] = m
      BY <1>c, <2>1, <2>2 DEF EntryPlaced, EntryMapped
    <3>2. slot[m].iova \in Iova
      BY <1>a DEF TypeOK
    <3> QED
      BY <3>1, <3>2 DEF Slot
  <2>4. table'[slot[m].iova] = table[slot[m].iova]
    <3>1. slot[th[t].n].mem = "hashed" /\ slot[th[t].n].iova = th[t].iova /\ th[t].n \in Slot
      BY <1>11, <1>b, <1>c, <1>e DEF MapCopyFail, CarefulInv, CarefulOf, ThreadOf
    <3>2. \A v \in Users(th[t].n) : v = t
      BY <1>c, <1>d, <3>1 DEF Users, CarefulInv, Slot
    <3>3. table[th[t].iova] = th[t].n
      BY <1>11, <1>c, <3>1, <3>2 DEF MapCopyFail, EntryPlaced, EntryMapped
    <3>4. th'[t].n = th[t].n /\ th'[t].pc = "del"
      BY <1>11, <1>a DEF MapCopyFail, Goto, TypeOK
    <3>5. slot[m].iova # th[t].iova
      BY <2>3, <3>3, <3>4
    <3> QED
      BY <1>11, <1>a, <2>3, <3>5 DEF MapCopyFail, UnmapResource, FreeIova, TypeOK
  <2> QED
    BY <2>1, <2>3, <2>4
<1>12. ASSUME NEW t \in Thread, MapDel(t)
      PROVE  EntryMapped'
  <2> SUFFICES ASSUME careful, NEW m \in Slot, slot'[m].mem = "hashed",
                      \A v \in Thread : th'[v].n = m => th'[v].pc \notin {"remove", "del"}
               PROVE  table'[slot'[m].iova] = m
    BY <1>12 DEF MapDel, Misuse, EntryMapped, Users
  <2>1. slot'[m] = slot[m] /\ slot[m].mem = "hashed"
    BY <1>12, <1>a, <1>e DEF MapDel, TypeOK
  <2>2. \A v \in Users(m) : th[v].pc \notin {"remove", "del"}
    <3> SUFFICES ASSUME NEW v \in Thread, th[v].n = m, th[v].pc \in {"remove", "del"} PROVE FALSE
      BY DEF Users
    <3>1. CASE v = t
      BY <1>12, <1>a, <3>1 DEF MapDel, TypeOK
    <3>2. CASE v # t
      <4>1. th'[v] = th[v]
        BY <1>12, <1>a, <3>2 DEF MapDel, Goto, Return, Misuse, TypeOK
      <4> QED
        BY <4>1
    <3> QED
      BY <3>1, <3>2
  <2>3. table[slot[m].iova] = m /\ slot[m].iova \in Iova /\ m # 0
    <3>1. table[slot[m].iova] = m
      BY <1>c, <2>1, <2>2 DEF EntryPlaced, EntryMapped
    <3>2. slot[m].iova \in Iova
      BY <1>a DEF TypeOK
    <3> QED
      BY <3>1, <3>2 DEF Slot
  <2>4. table'[slot[m].iova] = table[slot[m].iova]
    BY <1>12 DEF MapDel, Misuse
  <2> QED
    BY <2>1, <2>3, <2>4
<1>13. ASSUME NEW t \in Thread, NEW n \in Slot, UnmapFind(t, n)
      PROVE  EntryMapped'
  <2> SUFFICES ASSUME careful, NEW m \in Slot, slot'[m].mem = "hashed",
                      \A v \in Thread : th'[v].n = m => th'[v].pc \notin {"remove", "del"}
               PROVE  table'[slot'[m].iova] = m
    BY <1>13 DEF UnmapFind, Misuse, EntryMapped, Users
  <2>1. slot'[m] = slot[m] /\ slot[m].mem = "hashed"
    BY <1>13, <1>a DEF UnmapFind, Misuse, TypeOK
  <2>2. \A v \in Users(m) : th[v].pc \notin {"remove", "del"}
    <3> SUFFICES ASSUME NEW v \in Thread, th[v].n = m, th[v].pc \in {"remove", "del"} PROVE FALSE
      BY DEF Users
    <3>1. CASE v = t
      BY <1>13, <3>1 DEF UnmapFind, Idle
    <3>2. CASE v # t
      <4>1. th'[v] = th[v]
        BY <1>13, <1>a, <3>2 DEF UnmapFind, Goto, Return, Misuse, TypeOK
      <4> QED
        BY <4>1
    <3> QED
      BY <3>1, <3>2
  <2>3. table[slot[m].iova] = m /\ slot[m].iova \in Iova /\ m # 0
    <3>1. table[slot[m].iova] = m
      BY <1>c, <2>1, <2>2 DEF EntryPlaced, EntryMapped
    <3>2. slot[m].iova \in Iova
      BY <1>a DEF TypeOK
    <3> QED
      BY <3>1, <3>2 DEF Slot
  <2>4. table'[slot[m].iova] = table[slot[m].iova]
    BY <1>13 DEF UnmapFind, Misuse
  <2> QED
    BY <2>1, <2>3, <2>4
<1>14. ASSUME NEW t \in Thread, UnmapTable(t)
      PROVE  EntryMapped'
  <2> SUFFICES ASSUME careful, NEW m \in Slot, slot'[m].mem = "hashed",
                      \A v \in Thread : th'[v].n = m => th'[v].pc \notin {"remove", "del"}
               PROVE  table'[slot'[m].iova] = m
    BY <1>14 DEF UnmapTable, Misuse, EntryMapped, Users
  <2>1. slot'[m] = slot[m] /\ slot[m].mem = "hashed"
    BY <1>14, <1>a DEF UnmapTable, Misuse, TypeOK
  <2>2. \A v \in Users(m) : th[v].pc \notin {"remove", "del"}
    <3> SUFFICES ASSUME NEW v \in Thread, th[v].n = m, th[v].pc \in {"remove", "del"} PROVE FALSE
      BY DEF Users
    <3>1. CASE v = t
      BY <1>14, <1>a, <3>1 DEF UnmapTable, Goto, TypeOK
    <3>2. CASE v # t
      <4>1. th'[v] = th[v]
        BY <1>14, <1>a, <3>2 DEF UnmapTable, Goto, Return, Misuse, TypeOK
      <4> QED
        BY <4>1
    <3> QED
      BY <3>1, <3>2
  <2>3. table[slot[m].iova] = m /\ slot[m].iova \in Iova /\ m # 0
    <3>1. table[slot[m].iova] = m
      BY <1>c, <2>1, <2>2 DEF EntryPlaced, EntryMapped
    <3>2. slot[m].iova \in Iova
      BY <1>a DEF TypeOK
    <3> QED
      BY <3>1, <3>2 DEF Slot
  <2>4. table'[slot[m].iova] = table[slot[m].iova]
    <3>1. slot[th[t].n].mem = "hashed" /\ th[t].n \in Slot
      BY <1>14, <1>e DEF UnmapTable
    <3>2. \A v \in Users(th[t].n) : v = t
      BY <1>c, <1>d, <3>1 DEF Users, CarefulInv, Slot
    <3>3. table[slot[th[t].n].iova] = th[t].n
      BY <1>14, <1>c, <3>1, <3>2 DEF UnmapTable, EntryPlaced, EntryMapped
    <3>4. th'[t].n = th[t].n /\ th'[t].pc = "remove"
      BY <1>14, <1>a DEF UnmapTable, Goto, TypeOK
    <3>5. slot[m].iova # slot[th[t].n].iova
      BY <2>3, <3>3, <3>4
    <3> QED
      BY <1>14, <1>a, <2>3, <3>5 DEF UnmapTable, UnmapResource, FreeIova, TypeOK
  <2> QED
    BY <2>1, <2>3, <2>4
<1>15. ASSUME NEW t \in Thread, UnmapDel(t)
      PROVE  EntryMapped'
  <2> SUFFICES ASSUME careful, NEW m \in Slot, slot'[m].mem = "hashed",
                      \A v \in Thread : th'[v].n = m => th'[v].pc \notin {"remove", "del"}
               PROVE  table'[slot'[m].iova] = m
    BY <1>15 DEF UnmapDel, Misuse, EntryMapped, Users
  <2>1. slot'[m] = slot[m] /\ slot[m].mem = "hashed"
    BY <1>15, <1>a, <1>e DEF UnmapDel, TypeOK
  <2>2. \A v \in Users(m) : th[v].pc \notin {"remove", "del"}
    <3> SUFFICES ASSUME NEW v \in Thread, th[v].n = m, th[v].pc \in {"remove", "del"} PROVE FALSE
      BY DEF Users
    <3>1. CASE v = t
      BY <1>15, <1>a, <3>1 DEF UnmapDel, TypeOK
    <3>2. CASE v # t
      <4>1. th'[v] = th[v]
        BY <1>15, <1>a, <3>2 DEF UnmapDel, Goto, Return, Misuse, TypeOK
      <4> QED
        BY <4>1
    <3> QED
      BY <3>1, <3>2
  <2>3. table[slot[m].iova] = m /\ slot[m].iova \in Iova /\ m # 0
    <3>1. table[slot[m].iova] = m
      BY <1>c, <2>1, <2>2 DEF EntryPlaced, EntryMapped
    <3>2. slot[m].iova \in Iova
      BY <1>a DEF TypeOK
    <3> QED
      BY <3>1, <3>2 DEF Slot
  <2>4. table'[slot[m].iova] = table[slot[m].iova]
    BY <1>15 DEF UnmapDel, Misuse
  <2> QED
    BY <2>1, <2>3, <2>4
<1>16. ASSUME NEW t \in Thread, UseFreed(t)
      PROVE  EntryMapped'
  <2> SUFFICES ASSUME careful, NEW m \in Slot, slot'[m].mem = "hashed",
                      \A v \in Thread : th'[v].n = m => th'[v].pc \notin {"remove", "del"}
               PROVE  table'[slot'[m].iova] = m
    BY <1>16 DEF UseFreed, Misuse, EntryMapped, Users
  <2>1. slot'[m] = slot[m] /\ slot[m].mem = "hashed"
    BY <1>16, <1>a DEF UseFreed, Misuse, TypeOK
  <2>2. \A v \in Users(m) : th[v].pc \notin {"remove", "del"}
    <3> SUFFICES ASSUME NEW v \in Thread, th[v].n = m, th[v].pc \in {"remove", "del"} PROVE FALSE
      BY DEF Users
    <3>1. CASE v = t
      BY <1>16, <1>f DEF UseFreed, Misuse
    <3>2. CASE v # t
      <4>1. th'[v] = th[v]
        BY <1>16, <1>a, <3>2 DEF UseFreed, Goto, Return, Misuse, TypeOK
      <4> QED
        BY <4>1
    <3> QED
      BY <3>1, <3>2
  <2>3. table[slot[m].iova] = m /\ slot[m].iova \in Iova /\ m # 0
    <3>1. table[slot[m].iova] = m
      BY <1>c, <2>1, <2>2 DEF EntryPlaced, EntryMapped
    <3>2. slot[m].iova \in Iova
      BY <1>a DEF TypeOK
    <3> QED
      BY <3>1, <3>2 DEF Slot
  <2>4. table'[slot[m].iova] = table[slot[m].iova]
    BY <1>16 DEF UseFreed, Misuse
  <2> QED
    BY <2>1, <2>3, <2>4
<1>17. ASSUME NEW c \in Ctx, Close(c)
      PROVE  EntryMapped'
  BY <1>17, <1>c DEF Close, EntryPlaced, EntryMapped, Users
<1>18. ASSUME NEW k \in Slot, CloseEntry(k)
      PROVE  EntryMapped'
  <2> SUFFICES ASSUME careful, NEW m \in Slot, slot'[m].mem = "hashed",
                      \A v \in Thread : th'[v].n = m => th'[v].pc \notin {"remove", "del"}
               PROVE  table'[slot'[m].iova] = m
    BY <1>18 DEF CloseEntry, EntryMapped, Users
  <2>1. m # k /\ slot'[m] = slot[m] /\ th' = th
    BY <1>18, <1>a DEF CloseEntry, TypeOK
  <2>2. table[slot[m].iova] = m /\ slot[m].iova \in Iova
    BY <1>a, <1>c, <2>1 DEF EntryPlaced, EntryMapped, Users, TypeOK
  <2>3. Users(k) = {}
    BY <1>18, <1>b, <1>d DEF CloseEntry, InOpen, Slot, Users
  <2>4. table[slot[k].iova] = k
    BY <1>18, <1>c, <2>3 DEF CloseEntry, EntryPlaced, EntryMapped
  <2>5. slot[k].iova # slot[m].iova
    BY <2>1, <2>2, <2>4
  <2> QED
    BY <1>18, <1>a, <2>1, <2>2, <2>5 DEF CloseEntry, UnmapResource, TypeOK
<1> QED
  BY <1>1, <1>2, <1>3, <1>4, <1>5, <1>6, <1>7, <1>8, <1>9,
     <1>10, <1>11, <1>12, <1>13, <1>14, <1>15, <1>16, <1>17, <1>18 DEF Next, Map, Unmap

\* Fixed maps of a careful process are where they were asked for, less what was counted.
LEMMA FixedKept ==
    ASSUME IInv, Next
    PROVE  FixedAtRequest'
<1>a. TypeOK
  BY DEF IInv
<1>b. Unbegun /\ OneMapper /\ InOpen /\ \A u \in Thread : ThreadOf(u)
  BY DEF IInv
<1>c. CarefulInv /\ EntryPlaced /\ MsiInMutex
  BY DEF IInv
<1>d. MaxMap \in Nat /\ Iovas \in Nat /\ None \notin Thread
  BY Addresses, MmioAssumption
<1>e. \A u \in Thread : th[u].pc # "idle" => th[u].n \in Slot
  BY <1>a, <1>b, <1>d DEF TypeOK, ThreadOf, Slot
<1>f. careful' => ~bad'
  BY NoMisuseKept
<1>1. ASSUME NEW t \in Thread, NEW c \in Ctx, NEW fixed \in BOOLEAN, NEW req \in Iova, MapStart(t, c, fixed, req)
      PROVE  FixedAtRequest'
  <2> SUFFICES ASSUME careful, NEW m \in Slot, slot'[m].mem = "hashed", slot'[m].fixed
               PROVE  slot'[m].iova = slot'[m].req - pulled'[m]
    BY <1>1 DEF MapStart, Misuse, FixedAtRequest
  <2>1. slot'[m] = slot[m]
    BY <1>1, <1>a, <1>d DEF MapStart, NewSlot, TypeOK, Slot
  <2>2. pulled' = pulled
    BY <1>1 DEF MapStart, Misuse
  <2> QED
    BY <1>c, <2>1, <2>2 DEF EntryPlaced, FixedAtRequest
<1>2. ASSUME NEW t \in Thread, MapReject(t)
      PROVE  FixedAtRequest'
  <2> SUFFICES ASSUME careful, NEW m \in Slot, slot'[m].mem = "hashed", slot'[m].fixed
               PROVE  slot'[m].iova = slot'[m].req - pulled'[m]
    BY <1>2 DEF MapReject, Misuse, FixedAtRequest
  <2>1. slot'[m] = slot[m]
    BY <1>2, <1>a, <1>e DEF MapReject, TypeOK
  <2>2. pulled' = pulled
    BY <1>2 DEF MapReject, Misuse
  <2> QED
    BY <1>c, <2>1, <2>2 DEF EntryPlaced, FixedAtRequest
<1>3. ASSUME NEW t \in Thread, MapSetCookie(t)
      PROVE  FixedAtRequest'
  <2> SUFFICES ASSUME careful, NEW m \in Slot, slot'[m].mem = "hashed", slot'[m].fixed
               PROVE  slot'[m].iova = slot'[m].req - pulled'[m]
    BY <1>3 DEF MapSetCookie, Misuse, FixedAtRequest
  <2>1. slot'[m] = slot[m]
    BY <1>3, <1>a DEF MapSetCookie, Misuse, TypeOK
  <2>2. th[t].n # m
    BY <1>3, <1>b, <2>1 DEF MapSetCookie, ThreadOf
  <2>3. pulled'[m] = pulled[m]
    BY <1>3, <1>a, <2>2 DEF MapSetCookie, TypeOK
  <2> QED
    BY <1>c, <2>1, <2>3 DEF EntryPlaced, FixedAtRequest
<1>4. ASSUME NEW t \in Thread, MapAllocMsi(t)
      PROVE  FixedAtRequest'
  <2> SUFFICES ASSUME careful, NEW m \in Slot, slot'[m].mem = "hashed", slot'[m].fixed
               PROVE  slot'[m].iova = slot'[m].req - pulled'[m]
    BY <1>4 DEF MapAllocMsi, Misuse, FixedAtRequest
  <2>1. slot'[m] = slot[m]
    BY <1>4, <1>a DEF MapAllocMsi, Misuse, TypeOK
  <2>2. pulled' = pulled
    BY <1>4 DEF MapAllocMsi, Misuse
  <2> QED
    BY <1>c, <2>1, <2>2 DEF EntryPlaced, FixedAtRequest
<1>5. ASSUME NEW t \in Thread, MapAllocIova(t)
      PROVE  FixedAtRequest'
  <2> SUFFICES ASSUME careful, NEW m \in Slot, slot'[m].mem = "hashed", slot'[m].fixed
               PROVE  slot'[m].iova = slot'[m].req - pulled'[m]
    BY <1>5 DEF MapAllocIova, Misuse, FixedAtRequest
  <2>1. slot'[m] = slot[m]
    BY <1>5, <1>a DEF MapAllocIova, Misuse, TypeOK
  <2>2. pulled' = pulled
    BY <1>5 DEF MapAllocIova, Misuse
  <2> QED
    BY <1>c, <2>1, <2>2 DEF EntryPlaced, FixedAtRequest
<1>6. ASSUME NEW t \in Thread, MapTable(t)
      PROVE  FixedAtRequest'
  <2> SUFFICES ASSUME careful, NEW m \in Slot, slot'[m].mem = "hashed", slot'[m].fixed
               PROVE  slot'[m].iova = slot'[m].req - pulled'[m]
    BY <1>6 DEF MapTable, Misuse, FixedAtRequest
  <2>1. slot'[m] = slot[m]
    BY <1>6, <1>a DEF MapTable, Misuse, TypeOK
  <2>2. pulled' = pulled
    BY <1>6 DEF MapTable, Misuse
  <2> QED
    BY <1>c, <2>1, <2>2 DEF EntryPlaced, FixedAtRequest
<1>7. ASSUME NEW t \in Thread, MapTableFail(t)
      PROVE  FixedAtRequest'
  <2> SUFFICES ASSUME careful, NEW m \in Slot, slot'[m].mem = "hashed", slot'[m].fixed
               PROVE  slot'[m].iova = slot'[m].req - pulled'[m]
    BY <1>7 DEF MapTableFail, Misuse, FixedAtRequest
  <2>1. slot'[m] = slot[m]
    BY <1>7, <1>a DEF MapTableFail, Misuse, TypeOK
  <2>2. pulled' = pulled
    BY <1>7 DEF MapTableFail, Misuse
  <2> QED
    BY <1>c, <2>1, <2>2 DEF EntryPlaced, FixedAtRequest
<1>8. ASSUME NEW t \in Thread, MapResetCookie(t)
      PROVE  FixedAtRequest'
  <2> SUFFICES ASSUME careful, NEW m \in Slot, slot'[m].mem = "hashed", slot'[m].fixed
               PROVE  slot'[m].iova = slot'[m].req - pulled'[m]
    BY <1>8 DEF MapResetCookie, Misuse, FixedAtRequest
  <2>1. slot'[m] = slot[m]
    BY <1>8, <1>a DEF MapResetCookie, Misuse, TypeOK
  <2>2. pulled' = pulled
    BY <1>8 DEF MapResetCookie, Misuse
  <2> QED
    BY <1>c, <2>1, <2>2 DEF EntryPlaced, FixedAtRequest
<1>9. ASSUME NEW t \in Thread, MapHash(t)
      PROVE  FixedAtRequest'
  <2> SUFFICES ASSUME careful, NEW m \in Slot, slot'[m].mem = "hashed", slot'[m].fixed
               PROVE  slot'[m].iova = slot'[m].req - pulled'[m]
    BY <1>9 DEF MapHash, FixedAtRequest
  <2>1. th[t].n \in Slot /\ pulled' = pulled
    BY <1>9, <1>e DEF MapHash
  <2>2. CASE m = th[t].n
    <3>1. slot'[m] = [slot[m] EXCEPT !.mem = "hashed", !.iova = th[t].iova]
      BY <1>9, <1>a, <2>1, <2>2 DEF MapHash, TypeOK
    <3>2. slot[m].fixed /\ slot'[m].iova = th[t].iova /\ slot'[m].req = slot[m].req
      BY <1>a, <3>1 DEF TypeOK
    <3> QED
      BY <1>9, <1>c, <2>1, <2>2, <3>2 DEF MapHash, CarefulInv, CarefulOf, Placed
  <2>3. CASE m # th[t].n
    <3>1. slot'[m] = slot[m]
      BY <1>9, <1>a, <2>3 DEF MapHash, TypeOK
    <3> QED
      BY <1>c, <2>1, <3>1 DEF EntryPlaced, FixedAtRequest
  <2> QED
    BY <2>2, <2>3
<1>10. ASSUME NEW t \in Thread, MapReturn(t)
      PROVE  FixedAtRequest'
  <2> SUFFICES ASSUME careful, NEW m \in Slot, slot'[m].mem = "hashed", slot'[m].fixed
               PROVE  slot'[m].iova = slot'[m].req - pulled'[m]
    BY <1>10 DEF MapReturn, Misuse, FixedAtRequest
  <2>1. slot'[m] = slot[m]
    BY <1>10, <1>a DEF MapReturn, Misuse, TypeOK
  <2>2. pulled' = pulled
    BY <1>10 DEF MapReturn, Misuse
  <2> QED
    BY <1>c, <2>1, <2>2 DEF EntryPlaced, FixedAtRequest
<1>11. ASSUME NEW t \in Thread, MapCopyFail(t)
      PROVE  FixedAtRequest'
  <2> SUFFICES ASSUME careful, NEW m \in Slot, slot'[m].mem = "hashed", slot'[m].fixed
               PROVE  slot'[m].iova = slot'[m].req - pulled'[m]
    BY <1>11 DEF MapCopyFail, Misuse, FixedAtRequest
  <2>1. slot'[m] = slot[m]
    BY <1>11, <1>a DEF MapCopyFail, Misuse, TypeOK
  <2>2. m \notin Pending
    BY <1>b, <2>1 DEF Pending, ThreadOf
  <2>3. pulled'[m] = pulled[m]
    BY <1>11, <2>2, PulledElsewhere DEF MapCopyFail
  <2> QED
    BY <1>c, <2>1, <2>3 DEF EntryPlaced, FixedAtRequest
<1>12. ASSUME NEW t \in Thread, MapDel(t)
      PROVE  FixedAtRequest'
  <2> SUFFICES ASSUME careful, NEW m \in Slot, slot'[m].mem = "hashed", slot'[m].fixed
               PROVE  slot'[m].iova = slot'[m].req - pulled'[m]
    BY <1>12 DEF MapDel, Misuse, FixedAtRequest
  <2>1. slot'[m] = slot[m]
    BY <1>12, <1>a, <1>e DEF MapDel, TypeOK
  <2>2. pulled' = pulled
    BY <1>12 DEF MapDel, Misuse
  <2> QED
    BY <1>c, <2>1, <2>2 DEF EntryPlaced, FixedAtRequest
<1>13. ASSUME NEW t \in Thread, NEW n \in Slot, UnmapFind(t, n)
      PROVE  FixedAtRequest'
  <2> SUFFICES ASSUME careful, NEW m \in Slot, slot'[m].mem = "hashed", slot'[m].fixed
               PROVE  slot'[m].iova = slot'[m].req - pulled'[m]
    BY <1>13 DEF UnmapFind, Misuse, FixedAtRequest
  <2>1. slot'[m] = slot[m]
    BY <1>13, <1>a DEF UnmapFind, Misuse, TypeOK
  <2>2. pulled' = pulled
    BY <1>13 DEF UnmapFind, Misuse
  <2> QED
    BY <1>c, <2>1, <2>2 DEF EntryPlaced, FixedAtRequest
<1>14. ASSUME NEW t \in Thread, UnmapTable(t)
      PROVE  FixedAtRequest'
  <2> SUFFICES ASSUME careful, NEW m \in Slot, slot'[m].mem = "hashed", slot'[m].fixed
               PROVE  slot'[m].iova = slot'[m].req - pulled'[m]
    BY <1>14 DEF UnmapTable, Misuse, FixedAtRequest
  <2>1. slot'[m] = slot[m]
    BY <1>14, <1>a DEF UnmapTable, Misuse, TypeOK
  <2>2. m \notin Pending
    BY <1>b, <2>1 DEF Pending, ThreadOf
  <2>3. pulled'[m] = pulled[m]
    BY <1>14, <2>2, PulledElsewhere DEF UnmapTable
  <2> QED
    BY <1>c, <2>1, <2>3 DEF EntryPlaced, FixedAtRequest
<1>15. ASSUME NEW t \in Thread, UnmapDel(t)
      PROVE  FixedAtRequest'
  <2> SUFFICES ASSUME careful, NEW m \in Slot, slot'[m].mem = "hashed", slot'[m].fixed
               PROVE  slot'[m].iova = slot'[m].req - pulled'[m]
    BY <1>15 DEF UnmapDel, Misuse, FixedAtRequest
  <2>1. slot'[m] = slot[m]
    BY <1>15, <1>a, <1>e DEF UnmapDel, TypeOK
  <2>2. pulled' = pulled
    BY <1>15 DEF UnmapDel, Misuse
  <2> QED
    BY <1>c, <2>1, <2>2 DEF EntryPlaced, FixedAtRequest
<1>16. ASSUME NEW t \in Thread, UseFreed(t)
      PROVE  FixedAtRequest'
  <2> SUFFICES ASSUME careful, NEW m \in Slot, slot'[m].mem = "hashed", slot'[m].fixed
               PROVE  slot'[m].iova = slot'[m].req - pulled'[m]
    BY <1>16 DEF UseFreed, Misuse, FixedAtRequest
  <2>1. slot'[m] = slot[m]
    BY <1>16, <1>a DEF UseFreed, Misuse, TypeOK
  <2>2. pulled' = pulled
    BY <1>16 DEF UseFreed, Misuse
  <2> QED
    BY <1>c, <2>1, <2>2 DEF EntryPlaced, FixedAtRequest
<1>17. ASSUME NEW c \in Ctx, Close(c)
      PROVE  FixedAtRequest'
  BY <1>17, <1>c DEF Close, EntryPlaced, FixedAtRequest
<1>18. ASSUME NEW k \in Slot, CloseEntry(k)
      PROVE  FixedAtRequest'
  <2> SUFFICES ASSUME careful, NEW m \in Slot, slot'[m].mem = "hashed", slot'[m].fixed
               PROVE  slot'[m].iova = slot'[m].req - pulled'[m]
    BY <1>18 DEF CloseEntry, FixedAtRequest
  <2>1. slot'[m] = slot[m]
    BY <1>18, <1>a DEF CloseEntry, TypeOK
  <2>2. m \notin Pending
    BY <1>b, <2>1 DEF Pending, ThreadOf
  <2>3. pulled'[m] = pulled[m]
    BY <1>18, <2>2, PulledElsewhere DEF CloseEntry
  <2> QED
    BY <1>c, <2>1, <2>3 DEF EntryPlaced, FixedAtRequest
<1> QED
  BY <1>1, <1>2, <1>3, <1>4, <1>5, <1>6, <1>7, <1>8, <1>9,
     <1>10, <1>11, <1>12, <1>13, <1>14, <1>15, <1>16, <1>17, <1>18 DEF Next, Map, Unmap

-----------------------------------------------------------------------------
(* The theorems *)

\* Before the first call.
LEMMA Initially == Init => IInv
<1> SUFFICES ASSUME Init PROVE IInv
  OBVIOUS
<1>1. MaxMap \in Nat /\ Iovas \in Nat /\ 0 \in Iova /\ None \notin Thread
  BY Addresses, MmioAssumption
<1>2. TypeOK
  <2>1. Idle \in ThType /\ NewSlot \in SlotType
    BY <1>1, IdleType DEF NewSlot, SlotType
  <2>2. IovaCookie \in [type : {"iova", "msi"}, msi : Int]
    BY <1>1 DEF IovaCookie
  <2>3. table \in [Iova -> 0 .. MaxMap] /\ calls \in 0 .. MaxMap /\ mutex \in Thread \cup {None}
    BY <1>1 DEF Init
  <2>4. th \in [Thread -> ThType] /\ slot \in [Slot -> SlotType] /\ pulled \in [Slot -> Nat]
    BY <2>1 DEF Init
  <2> QED
    BY <2>2, <2>3, <2>4 DEF Init, TypeOK, ThType, SlotType
<1>3. \A t \in Thread : th[t].pc = "idle" /\ th[t].n = 0 /\ th[t].err = FALSE
  BY DEF Init, Idle
<1>4. \A t \in Thread : ThreadOf(t)
  BY <1>1, <1>3 DEF ThreadOf, Init, UnmapPcs
<1>5. Unbegun /\ \A n \in Slot : slot[n].mem = "none"
  BY DEF Init, Unbegun, NewSlot
<1>6. OneMapper /\ InOpen /\ \A t \in Thread : th[t].pc \notin MapPcs
  BY <1>3 DEF OneMapper, InOpen, MapPcs
<1>7. CookieRestored /\ MsiInMutex
  BY DEF Init, CookieRestored, MsiInMutex
<1>8. MappedOwned /\ UnplacedFree
  BY <1>3 DEF Init, MappedOwned, UnplacedFree, Unplaced
<1>9. CarefulInv
  <2>1. ~bad /\ \A t \in Thread : CarefulOf(t)
    BY <1>3 DEF Init, CarefulOf, Placed, UnmapPcs
  <2> QED
    BY <1>3, <1>6, <2>1 DEF CarefulInv
<1>10. EntryPlaced
  BY <1>5 DEF EntryPlaced, EntryMapped, FixedAtRequest
<1> QED
  BY <1>2, <1>4, <1>5, <1>6, <1>7, <1>8, <1>9, <1>10 DEF IInv

\* No step breaks the invariant.
LEMMA Kept == IInv /\ [Next]_vars => IInv'
<1>1. CASE UNCHANGED vars
  <2> SUFFICES ASSUME IInv, UNCHANGED vars PROVE IInv'
    BY <1>1
  <2>1. /\ UNCHANGED <<careful, open, calls, slot, table>>
        /\ UNCHANGED <<alloc, cookie, mutex, th, pulled, bad>>
    BY DEF vars
  <2>2. /\ \A t \in Thread : ThreadOf(t)' <=> ThreadOf(t)
        /\ \A t \in Thread : CarefulOf(t)' <=> CarefulOf(t)
        /\ \A t \in Thread : Unplaced(t)' <=> Unplaced(t)
    BY <2>1 DEF ThreadOf, CarefulOf, Placed, Unplaced
  <2>3. TypeOK' /\ Unbegun' /\ OneMapper' /\ InOpen' /\ CookieRestored' /\ MsiInMutex'
    BY <2>1 DEF IInv, TypeOK, Unbegun, OneMapper, InOpen, CookieRestored, MsiInMutex
  <2>4. MappedOwned' /\ UnplacedFree'
    BY <2>1, <2>2 DEF IInv, MappedOwned, Users, UnplacedFree
  <2>5. CarefulInv' /\ EntryPlaced'
    BY <2>1, <2>2 DEF IInv, CarefulInv, EntryPlaced, EntryMapped, FixedAtRequest, Users
  <2> QED
    BY <2>2, <2>3, <2>4, <2>5 DEF IInv
<1>2. ASSUME IInv, Next PROVE IInv'
  <2>1. careful' = careful
    <3>1. ASSUME NEW t \in Thread, Map(t) PROVE careful' = careful
      BY <3>1 DEF Map, MapStart, MapReject, MapSetCookie, MapAllocMsi, MapAllocIova, MapTable,
         MapTableFail, MapResetCookie, MapHash, MapReturn, MapCopyFail, MapDel
    <3>2. ASSUME NEW t \in Thread, Unmap(t) PROVE careful' = careful
      BY <3>2 DEF Unmap, UnmapFind, UnmapTable, UnmapDel, UseFreed, Misuse
    <3>3. ASSUME (\E c \in Ctx : Close(c)) \/ (\E n \in Slot : CloseEntry(n)) PROVE careful' = careful
      BY <3>3 DEF Close, CloseEntry
    <3> QED
      BY <1>2, <3>1, <3>2, <3>3 DEF Next
  <2>2. CarefulInv'
    BY <1>2, <2>1, SoleKept, ApartKept, NoMisuseKept, CarefulOfKept DEF CarefulInv
  <2> QED
    BY <1>2, <2>2, TypesKept, ThreadsKept, UnbegunKept, MapperKept, OpenKept, CookieKept, OwnedKept,
       UnplacedKept, MappedKept, FixedKept DEF IInv, EntryPlaced
<1> QED
  BY <1>1, <1>2

\* The inductive invariant of the register mappings.
THEOREM Invariance == Spec => []IInv
  BY Initially, Kept, PTL DEF Spec

\* What kiumd_mmio_smmu_map maps can be unmapped, by kiumd_mmio_smmu_unmap or by
\* kiumd_close, and the cookie of the device is put back.
THEOREM MappedInvHolds == Spec => []MappedInv
<1>1. IInv => MappedInv
  BY DEF IInv, MappedInv
<1> QED
  BY <1>1, Invariance, PTL

\* Every entry of kiumd_mmio_smmu_map is mapped, a fixed one where it was asked for or,
\* one page for each, below it when something was unmapped while its address was in the
\* cookie: kiumd_mmio_smmu_unmap and kiumd_close do not take the cookie's mutex.
THEOREM EntryPlacedHolds == Spec => []EntryPlaced
<1>1. IInv => EntryPlaced
  BY DEF IInv
<1> QED
  BY <1>1, Invariance, PTL

=============================================================================
