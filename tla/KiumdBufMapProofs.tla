-------------------------- MODULE KiumdBufMapProofs --------------------------
(***************************************************************************)
(* Proofs about KiumdBufMap, for any number of buffers, map calls and        *)
(* threads.                                                                  *)
(***************************************************************************)
EXTENDS KiumdBufMap, FiniteSetTheorems, TLAPS

-----------------------------------------------------------------------------
(* The inductive invariant *)

\* Program counters of a map call whose entry is not hashed yet.
Building == {"attach", "map", "zero", "add"}

\* A slot no map call has taken is untouched.
FreshInv ==
    \A s \in Slot : buf[s] = None =>
        /\ att[s] = "none" /\ smap[s] = "none" /\ ~mapped[s] /\ zeroAt # s
        /\ \A t \in Thread : th[t].slot # s

\* How far the slot of a thread is at each of its program counters.
CallOf(t) ==
    LET s == th[t].slot
        pc == th[t].pc
    IN  /\ pc # "idle" => buf[s] # None
        /\ pc \in Building => smap[s] = "none" /\ mode[s] = th[t].mode
        /\ pc = "attach" => att[s] = "none"
        /\ pc \in {"map", "zero", "add"} => att[s] = "attached"
        /\ pc \in {"attach", "map"} => ~mapped[s]
        /\ pc \in {"attach", "map", "zero"} => zeroAt # s
        /\ pc \in {"zero", "add"} => mapped[s]
        /\ pc = "zero" => th[t].mode = "zero"
        /\ pc \in UnmapPcs \cup {"copy"} => smap[s] # "none"
        /\ pc \in {"unzero", "flush", "del", "detach"} => ~mapped[s]

CallInv == \A t \in Thread : CallOf(t)

\* Nobody else works on a slot whose entry is not hashed yet.
SoleInv ==
    \A t, u \in Thread : th[t].pc \in Building /\ th[u].slot = th[t].slot => u = t

\* A slot that was left half undone has an entry and no mapped table.
BrokenInv == \A s \in Broken : smap[s] # "none" /\ ~mapped[s]

PhaseInv == FreshInv /\ CallInv /\ SoleInv /\ BrokenInv

\* The process's own reference is there even after memory was misused.
FdRefInv == \A b \in userFd : refs[b] >= 1

\* Only unmap frees an entry before it detaches the buffer.
FreedInv ==
    ~bad => \A s \in Slot : smap[s] = "freed" /\ att[s] = "attached" =>
                \E t \in Thread : th[t].slot = s /\ th[t].pc = "detach"

\* What close finds and what it leaves.
ClosingInv ==
    /\ bad => ctx = "closed"
    /\ ctx = "closed" => todo = {}
    /\ ctx # "open" =>
          /\ \A t \in Thread : th[t].pc = "idle"
          /\ ~bad =>
                /\ todo \subseteq Hashed
                /\ \A s \in Hashed : att[s] = "attached" =>
                      s \in todo \/ mode[s] \in Skipped \/ s \in stuck

\* The threads of a careful process work on different slots.
ApartInv ==
    careful /\ ~bad =>
        \A t, u \in Thread : th[t].pc # "idle" /\ th[u].slot = th[t].slot => u = t

\* What a careful process finds at each step of map and unmap.
StepOf(t) ==
    LET s == th[t].slot
        pc == th[t].pc
    IN  /\ pc = "copy" => Usable(s)
        /\ pc \in UnmapPcs => th[t].mode = mode[s]
        /\ pc = "unmap" => Usable(s) \/ s \in Broken
        /\ pc \in {"unzero", "flush", "del"} => smap[s] = "hashed"
        /\ pc \in {"unzero", "flush", "del", "detach"} => att[s] = "attached"
        /\ pc = "flush" => mode[s] = "kgsl"
        /\ pc = "detach" => smap[s] = "freed"
        /\ pc \in {"del", "detach"} => zeroAt # s

StepInv == careful /\ ~bad => \A t \in Thread : StepOf(t)

\* Every entry of a careful process can be used, or is being taken down.
EntryInv ==
    careful /\ ~bad =>
        \A s \in Hashed \ Broken :
            Usable(s) \/ \E t \in Thread : th[t].slot = s /\ th[t].pc \in UnmapPcs

\* Whose pages are at IOVA 0.
ZeroInv ==
    zeroAt # None =>
        /\ mode[zeroAt] = "zero"
        /\ careful /\ ~bad => zeroAt \in copyFailed \/ att[zeroAt] = "attached"

CarefulInv == ApartInv /\ StepInv /\ EntryInv /\ ZeroInv /\ MisuseExplained

IInv ==
    /\ TypeOK /\ PhaseInv /\ RefAccounting /\ FdRefInv
    /\ FreedInv /\ ClosingInv /\ CarefulInv


-----------------------------------------------------------------------------
(* Threads *)

\* The fields of a thread inside an ioctl, and of an idle one.
LEMMA ThreadFields ==
  ASSUME TypeOK, NEW t \in Thread
  PROVE  /\ th[t].pc = "idle" => th[t] = Idle /\ th[t].slot = None
         /\ th[t].pc # "idle" =>
               /\ th[t].pc \in MapPcs \cup UnmapPcs
               /\ th[t].slot \in Slot /\ th[t].slot # None /\ th[t].mode \in Mode
               /\ th[t] = [pc |-> th[t].pc, slot |-> th[t].slot, mode |-> th[t].mode]
<1>1. th[t] \in {Idle} \cup [pc : MapPcs \cup UnmapPcs, slot : Slot, mode : Mode]
  BY DEF TypeOK
<1>2. CASE th[t] = Idle
  BY <1>2 DEF Idle
<1>3. CASE th[t] \in [pc : MapPcs \cup UnmapPcs, slot : Slot, mode : Mode]
  BY <1>3, MapAssumption DEF MapPcs, UnmapPcs
<1>. QED
  BY <1>1, <1>2, <1>3

\* What Goto changes.
LEMMA GotoFrame ==
  ASSUME TypeOK, NEW t \in Thread, NEW pc \in MapPcs \cup UnmapPcs,
         th[t].pc # "idle", Goto(t, pc)
  PROVE  /\ th' \in [Thread -> {Idle} \cup [pc : MapPcs \cup UnmapPcs, slot : Slot, mode : Mode]]
         /\ th'[t].pc = pc /\ th'[t].slot = th[t].slot /\ th'[t].mode = th[t].mode
         /\ \A u \in Thread : u # t => th'[u] = th[u]
<1>1. /\ th[t].slot \in Slot /\ th[t].mode \in Mode
      /\ th[t] = [pc |-> th[t].pc, slot |-> th[t].slot, mode |-> th[t].mode]
  BY ThreadFields
<1>2. [th[t] EXCEPT !.pc = pc] = [pc |-> pc, slot |-> th[t].slot, mode |-> th[t].mode]
  BY <1>1
<1>3. th' = [th EXCEPT ![t] = [pc |-> pc, slot |-> th[t].slot, mode |-> th[t].mode]]
  BY <1>2 DEF Goto
<1>. QED
  BY <1>1, <1>3 DEF TypeOK

\* What Return changes.
LEMMA ReturnFrame ==
  ASSUME TypeOK, NEW t \in Thread, Return(t)
  PROVE  /\ th' \in [Thread -> {Idle} \cup [pc : MapPcs \cup UnmapPcs, slot : Slot, mode : Mode]]
         /\ th'[t] = Idle /\ th'[t].pc = "idle" /\ th'[t].slot = None
         /\ \A u \in Thread : u # t => th'[u] = th[u]
  BY DEF TypeOK, Return, Idle

\* Misuse ends every call.
LEMMA MisuseFrame ==
  ASSUME Misuse
  PROVE  /\ th' \in [Thread -> {Idle} \cup [pc : MapPcs \cup UnmapPcs, slot : Slot, mode : Mode]]
         /\ \A t \in Thread : th'[t].pc = "idle" /\ th'[t].slot = None
  BY DEF Misuse, Idle

-----------------------------------------------------------------------------
(* Type correctness and the phases of a slot *)

\* The initial state has the types of TypeOK.
LEMMA TypeInit == Init => TypeOK
<1> SUFFICES ASSUME Init PROVE TypeOK
  OBVIOUS
<1>1. th \in [Thread -> {Idle} \cup [pc : MapPcs \cup UnmapPcs, slot : Slot, mode : Mode]]
  BY DEF Init
<1>. QED
  BY <1>1, MapAssumption DEF Init, TypeOK, Mode

\* A thread inside an ioctl keeps the file open, and no memory was misused.
LEMMA InsideOpen ==
  ASSUME ClosingInv, TypeOK, NEW t \in Thread, th[t].pc # "idle"
  PROVE  ctx = "open" /\ ~bad
  BY DEF ClosingInv, TypeOK

\* A slot that holds a reference keeps the count of its buffer positive.
LEMMA HolderCounts ==
  ASSUME TypeOK, RefAccounting, ~bad, NEW b \in Buf, NEW s \in Holders(b)
  PROVE  /\ IsFiniteSet(Holders(b)) /\ Cardinality(Holders(b)) \in Nat \ {0}
         /\ refs[b] >= 1
         /\ b \in userFd => refs[b] >= 2
<1>1. IsFiniteSet(Holders(b))
  BY MapAssumption, FS_Subset DEF Holders
<1>2. Cardinality(Holders(b)) \in Nat /\ Cardinality(Holders(b)) # 0
  BY <1>1, FS_CardinalityType, FS_EmptySet
<1>. QED
  BY <1>1, <1>2 DEF RefAccounting

\* Putting a reference of a holder leaves a count, and the process's own one.
LEMMA PutHolder ==
  ASSUME TypeOK, RefAccounting, FdRefInv, ~bad,
         NEW b \in Buf, NEW s \in Holders(b), Put(b)
  PROVE  refs' \in [Buf -> Nat] /\ \A c \in userFd : refs'[c] >= 1
<1>1. refs[b] >= 1 /\ (b \in userFd => refs[b] >= 2)
  BY HolderCounts
<1>. QED
  BY <1>1 DEF Put, TypeOK, FdRefInv

\* The slot of a call that is about to attach, and an attached slot, hold one.
LEMMA HolderOf ==
  ASSUME TypeOK, PhaseInv, NEW s \in Slot
  PROVE  /\ att[s] = "attached" => buf[s] \in Buf /\ s \in Holders(buf[s])
         /\ \A t \in Thread : th[t].pc = "attach" /\ th[t].slot = s =>
               buf[s] \in Buf /\ s \in Holders(buf[s])
  BY DEF TypeOK, PhaseInv, FreshInv, CallInv, CallOf, Holders

\* Every step keeps TypeOK and the process's own references.
LEMMA TypeStep ==
  ASSUME IInv, [Next]_vars
  PROVE  TypeOK' /\ FdRefInv'
<1> USE DEF IInv
<1>1. ASSUME NEW b \in Buf, CloseFd(b) PROVE TypeOK' /\ FdRefInv'
  <2>1. refs' \in [Buf -> Nat]
    BY <1>1 DEF CloseFd, Put, TypeOK, FdRefInv
  <2>. QED
    BY <1>1, <2>1 DEF CloseFd, Put, TypeOK, FdRefInv, slotVars
<1>2. ASSUME NEW t \in Thread, NEW s \in Slot, NEW b \in Buf, NEW m \in Mode, MapGet(t, s, b, m)
      PROVE  TypeOK' /\ FdRefInv'
  <2>1. [pc |-> "attach", slot |-> s, mode |-> m]
           \in {Idle} \cup [pc : MapPcs \cup UnmapPcs, slot : Slot, mode : Mode]
    BY DEF MapPcs
  <2>. QED
    BY <1>2, <2>1 DEF MapGet, TypeOK, FdRefInv
<1>3. ASSUME NEW t \in Thread, MapFailPut(t) PROVE TypeOK' /\ FdRefInv'
  <2>1. th[t].slot \in Slot /\ ~bad
    BY <1>3, ThreadFields, InsideOpen DEF MapFailPut
  <2>2. refs' \in [Buf -> Nat] /\ \A c \in userFd : refs'[c] >= 1
    BY <1>3, <2>1, HolderOf, PutHolder DEF MapFailPut
  <2>. QED
    BY <1>3, <2>2, ReturnFrame DEF MapFailPut, TypeOK, FdRefInv, slotVars
<1>4. ASSUME NEW t \in Thread, MapFailDetach(t) \/ MapCopyFail(t) \/ UnmapDetach(t)
      PROVE  TypeOK' /\ FdRefInv'
  <2>1. /\ th[t].slot \in Slot /\ ~bad
        /\ att[th[t].slot] = "attached" /\ DetachAndPut(th[t].slot) /\ Return(t)
    BY <1>4, ThreadFields, InsideOpen
       DEF MapFailDetach, MapCopyFail, UnmapDetach, PhaseInv, CallInv, CallOf
  <2>2. refs' \in [Buf -> Nat] /\ \A c \in userFd : refs'[c] >= 1
    BY <2>1, HolderOf, PutHolder DEF DetachAndPut
  <2>3. att' \in [Slot -> {"none", "attached", "freed"}]
    BY <2>1 DEF DetachAndPut, TypeOK
  <2>. QED
    BY <1>4, <2>1, <2>2, <2>3, ReturnFrame
       DEF MapFailDetach, MapCopyFail, UnmapDetach, TypeOK, FdRefInv
<1>5. ASSUME NEW t \in Thread,
             \/ MapLeak(t) \/ MapCopy(t) \/ UnmapAbort(t) \/ UnmapStuck(t)
      PROVE  TypeOK' /\ FdRefInv'
  <2>1. th[t].slot \in Slot /\ Return(t)
    BY <1>5, ThreadFields DEF MapLeak, MapCopy, UnmapAbort, UnmapStuck
  <2>. QED
    BY <1>5, <2>1, ReturnFrame
       DEF MapLeak, MapCopy, UnmapAbort, UnmapStuck, TypeOK, FdRefInv, slotVars
<1>6. ASSUME NEW t \in Thread,
             \/ MapAttach(t) \/ MapTable(t) \/ MapZero(t) \/ MapAdd(t)
             \/ UnmapTable(t) \/ UnmapZero(t) \/ UnmapFlush(t) \/ UnmapDel(t)
      PROVE  TypeOK' /\ FdRefInv'
  <2>1. th[t].slot \in Slot /\ th[t].pc # "idle"
    BY <1>6, ThreadFields
       DEF MapAttach, MapTable, MapZero, MapAdd, UnmapTable, UnmapZero, UnmapFlush, UnmapDel
  <2>2. \E pc \in MapPcs \cup UnmapPcs : Goto(t, pc)
    BY <1>6 DEF MapPcs, UnmapPcs,
         MapAttach, MapTable, MapZero, MapAdd, UnmapTable, UnmapZero, UnmapFlush, UnmapDel
  <2>3. th' \in [Thread -> {Idle} \cup [pc : MapPcs \cup UnmapPcs, slot : Slot, mode : Mode]]
    BY <2>1, <2>2, GotoFrame
  <2>. QED
    BY <1>6, <2>1, <2>3
       DEF MapAttach, MapTable, MapZero, MapAdd, UnmapTable, UnmapZero, UnmapFlush, UnmapDel,
           TypeOK, FdRefInv, slotVars
<1>7. ASSUME Misuse PROVE TypeOK' /\ FdRefInv'
  BY <1>7, MisuseFrame DEF Misuse, TypeOK, FdRefInv, slotVars
<1>8. ASSUME NEW t \in Thread, NEW s \in Slot, NEW m \in Mode, UnmapFind(t, s, m)
      PROVE  TypeOK' /\ FdRefInv'
  <2>1. [pc |-> "unmap", slot |-> s, mode |-> m]
           \in {Idle} \cup [pc : MapPcs \cup UnmapPcs, slot : Slot, mode : Mode]
    BY DEF UnmapPcs
  <2>. QED
    BY <1>8, <2>1 DEF UnmapFind, TypeOK, FdRefInv, slotVars
<1>9. ASSUME CloseStart \/ CloseDone PROVE TypeOK' /\ FdRefInv'
  BY <1>9 DEF CloseStart, CloseDone, Hashed, TypeOK, FdRefInv, slotVars
<1>10. ASSUME NEW s \in Slot, CloseSkip(s) \/ CloseStuck(s) PROVE TypeOK' /\ FdRefInv'
  BY <1>10 DEF CloseSkip, CloseStuck, TypeOK, FdRefInv, slotVars
<1>11. ASSUME NEW s \in Slot, CloseEntry(s) PROVE TypeOK' /\ FdRefInv'
  <2>1. ~bad /\ att[s] = "attached" /\ Put(buf[s])
    BY <1>11 DEF CloseEntry, Usable, DetachAndPut, ClosingInv, TypeOK
  <2>2. refs' \in [Buf -> Nat] /\ \A c \in userFd : refs'[c] >= 1
    BY <2>1, HolderOf, PutHolder
  <2>. QED
    BY <1>11, <2>2 DEF CloseEntry, DetachAndPut, TypeOK, FdRefInv
<1>12. CASE UNCHANGED vars
  BY <1>12 DEF vars, slotVars, TypeOK, FdRefInv
<1>. QED
  BY <1>1, <1>2, <1>3, <1>4, <1>5, <1>6, <1>7, <1>8, <1>9, <1>10, <1>11, <1>12
     DEF Next, MapMisuse, UnmapMisuse, CloseMisuse

\* No slot is taken at first.
LEMMA PhaseInit == Init => PhaseInv
<1> SUFFICES ASSUME Init PROVE PhaseInv
  OBVIOUS
<1>1. \A t \in Thread : th[t].pc = "idle" /\ th[t].slot = None
  BY DEF Init, Idle
<1>. QED
  BY <1>1, MapAssumption
     DEF Init, PhaseInv, FreshInv, CallInv, CallOf, SoleInv, BrokenInv, Broken,
         Building, UnmapPcs

\* A step of a thread that disturbs no slot but its own keeps the phases, when
\* it leaves the thread and the slot as CallOf and BrokenInv ask.
LEMMA MovePhase ==
  ASSUME TypeOK, PhaseInv, NEW t \in Thread, th[t].pc # "idle",
         \A u \in Thread : u # t => th'[u] = th[u],
         \/ th'[t].slot = th[t].slot
         \/ th'[t].pc = "idle" /\ th'[t].slot = None,
         UNCHANGED <<buf, mode>>,
         \A r \in Slot : r # th[t].slot =>
             att'[r] = att[r] /\ smap'[r] = smap[r] /\ mapped'[r] = mapped[r],
         zeroAt' \in {zeroAt, None, th[t].slot},
         copyFailed' \subseteq copyFailed \cup {th[t].slot},
         stuck' \subseteq stuck \cup {th[t].slot},
         CallOf(t)',
         th[t].pc \notin Building =>
             /\ th'[t].pc \notin Building
             /\ smap'[th[t].slot] # "none"
             /\ mapped'[th[t].slot] => mapped[th[t].slot],
         th[t].slot \in Broken' => smap'[th[t].slot] # "none" /\ ~mapped'[th[t].slot]
  PROVE  PhaseInv'
<1> DEFINE s == th[t].slot
<1>1. s \in Slot /\ s # None /\ buf[s] # None
  BY ThreadFields DEF PhaseInv, CallInv, CallOf
<1>2. FreshInv'
  BY <1>1, MapAssumption DEF PhaseInv, FreshInv
<1>3. ASSUME NEW u \in Thread, u # t PROVE CallOf(u)'
  <2>1. CASE th[u].pc = "idle"
    BY <1>3, <2>1 DEF CallOf, Building, UnmapPcs
  <2>2. CASE th[u].pc # "idle" /\ th[u].slot # s
    <3>1. th[u].slot \in Slot
      BY <2>2, ThreadFields
    <3>. QED
      BY <1>3, <2>2, <3>1, MapAssumption DEF PhaseInv, CallInv, CallOf
  <2>3. CASE th[u].pc # "idle" /\ th[u].slot = s
    <3>1. th[t].pc \notin Building /\ th[u].pc \notin Building
      BY <1>3, <2>3 DEF PhaseInv, SoleInv
    <3>. QED
      BY <1>1, <1>3, <2>3, <3>1, ThreadFields DEF PhaseInv, CallInv, CallOf, Building, UnmapPcs
  <2>. QED
    BY <2>1, <2>2, <2>3
<1>4. CallInv'
  BY <1>3 DEF CallInv
<1>5. SoleInv'
  <2>1. ASSUME NEW u \in Thread, th[u].pc \in Building PROVE th[u].slot # None
    BY <2>1, ThreadFields DEF Building
  <2>. QED
    BY <1>1, <2>1 DEF PhaseInv, SoleInv, Building
<1>6. BrokenInv'
  BY <1>1 DEF PhaseInv, BrokenInv, Broken, TypeOK
<1>. QED
  BY <1>2, <1>4, <1>5, <1>6 DEF PhaseInv

\* The steps that take a thread on to its next program counter.
Advance(t) ==
    \/ MapAttach(t) \/ MapTable(t) \/ MapZero(t) \/ MapAdd(t)
    \/ UnmapTable(t) \/ UnmapZero(t) \/ UnmapFlush(t) \/ UnmapDel(t)

\* They disturb the thread and its slot, and nothing else.
LEMMA AdvanceFrame ==
  ASSUME TypeOK, NEW t \in Thread, Advance(t)
  PROVE  /\ th[t].pc # "idle" /\ th[t].slot \in Slot /\ th'[t].slot = th[t].slot
         /\ th'[t].pc # "idle"
         /\ th'[t].mode = th[t].mode /\ \A u \in Thread : u # t => th'[u] = th[u]
         /\ UNCHANGED <<careful, refs, userFd, buf, mode, returned, ctx, todo, copyFailed, stuck, bad>>
         /\ \A r \in Slot : r # th[t].slot =>
              att'[r] = att[r] /\ smap'[r] = smap[r] /\ mapped'[r] = mapped[r]
         /\ zeroAt' \in {zeroAt, None, th[t].slot}
<1>1. th[t].pc # "idle" /\ th[t].slot \in Slot
  BY ThreadFields
     DEF Advance, MapAttach, MapTable, MapZero, MapAdd, UnmapTable, UnmapZero, UnmapFlush, UnmapDel
<1>2. \E pc \in MapPcs \cup UnmapPcs : pc # "idle" /\ Goto(t, pc)
  BY DEF Advance, MapPcs, UnmapPcs,
       MapAttach, MapTable, MapZero, MapAdd, UnmapTable, UnmapZero, UnmapFlush, UnmapDel
<1>3. /\ th'[t].slot = th[t].slot /\ th'[t].mode = th[t].mode /\ th'[t].pc # "idle"
      /\ \A u \in Thread : u # t => th'[u] = th[u]
  BY <1>1, <1>2, GotoFrame
<1>4. /\ UNCHANGED <<careful, refs, userFd, buf, mode, returned, ctx, todo, copyFailed, stuck, bad>>
      /\ \A r \in Slot : r # th[t].slot =>
            att'[r] = att[r] /\ smap'[r] = smap[r] /\ mapped'[r] = mapped[r]
      /\ zeroAt' \in {zeroAt, None, th[t].slot}
  BY <1>1 DEF Advance, TypeOK, slotVars,
       MapAttach, MapTable, MapZero, MapAdd, UnmapTable, UnmapZero, UnmapFlush, UnmapDel
<1>. QED
  BY <1>1, <1>3, <1>4

\* Every step keeps the phases.
LEMMA PhaseStep ==
  ASSUME IInv, [Next]_vars
  PROVE  PhaseInv'
<1> USE DEF IInv, PhaseInv
<1>1. ASSUME UNCHANGED <<slotVars, zeroAt, th, copyFailed, stuck>> PROVE PhaseInv'
  BY <1>1 DEF slotVars, FreshInv, CallInv, CallOf, SoleInv, BrokenInv, Broken
<1>2. ASSUME NEW t \in Thread, NEW s \in Slot, NEW b \in Buf, NEW m \in Mode, MapGet(t, s, b, m)
      PROVE  PhaseInv'
  <2>1. /\ th'[t].pc = "attach" /\ th'[t].slot = s /\ th'[t].mode = m
        /\ \A u \in Thread : u # t => th'[u] = th[u] /\ th[u].slot # s
        /\ \A r \in Slot : r # s => buf'[r] = buf[r] /\ mode'[r] = mode[r]
        /\ buf'[s] = b /\ b # None /\ mode'[s] = m
        /\ UNCHANGED <<att, mapped, smap, zeroAt, copyFailed, stuck>>
    BY <1>2, MapAssumption DEF MapGet, TypeOK, FreshInv
  <2>2. /\ att[s] = "none" /\ smap[s] = "none" /\ ~mapped[s] /\ zeroAt # s
    BY <1>2 DEF MapGet, FreshInv
  <2>3. FreshInv'
    BY <2>1 DEF FreshInv
  <2>4. CallInv'
    <3>1. ASSUME NEW u \in Thread, u # t, th[u].pc # "idle"
          PROVE  th[u].slot \in Slot /\ th[u].slot # s
      BY <2>1, <3>1, ThreadFields
    <3>. QED
      BY <2>1, <2>2, <3>1 DEF CallInv, CallOf, Building, UnmapPcs
  <2>5. SoleInv'
    BY <2>1 DEF SoleInv, Building
  <2>6. BrokenInv'
    BY <2>1 DEF BrokenInv, Broken
  <2>. QED
    BY <2>3, <2>4, <2>5, <2>6
<1>3. ASSUME NEW t \in Thread, Return(t), th[t].pc # "idle", UNCHANGED <<slotVars, zeroAt, copyFailed>>,
             stuck' \subseteq stuck \cup {th[t].slot},
             th[t].slot \in stuck' => smap[th[t].slot] # "none" /\ ~mapped[th[t].slot],
             th[t].pc \in Building => UNCHANGED stuck
      PROVE  PhaseInv'
  <2>1. CallOf(t)'
    BY <1>3, ReturnFrame DEF CallOf, Building, UnmapPcs
  <2>2. /\ UNCHANGED <<buf, mode, att, smap, mapped, zeroAt, copyFailed>>
        /\ \A u \in Thread : u # t => th'[u] = th[u]
        /\ th'[t].pc = "idle" /\ th'[t].slot = None
    BY <1>3, ReturnFrame DEF slotVars
  <2>3. th[t].slot \in Broken' => smap'[th[t].slot] # "none" /\ ~mapped'[th[t].slot]
    BY <1>3, <2>2 DEF BrokenInv, Broken
  <2>4. th[t].pc \notin Building =>
          /\ th'[t].pc \notin Building
          /\ smap'[th[t].slot] # "none"
          /\ mapped'[th[t].slot] => mapped[th[t].slot]
    BY <1>3, <2>2, ThreadFields DEF CallInv, CallOf, Building, MapPcs, UnmapPcs
  <2>. QED
    BY <1>3, <2>1, <2>2, <2>3, <2>4, MovePhase
<1>4. ASSUME NEW t \in Thread,
             MapFailPut(t) \/ MapLeak(t) \/ MapCopy(t) \/ UnmapAbort(t) \/ UnmapStuck(t)
      PROVE  PhaseInv'
  <2>1. stuck' \subseteq stuck \cup {th[t].slot} /\ th[t].pc # "idle"
    BY <1>4 DEF MapFailPut, MapLeak, MapCopy, UnmapAbort, UnmapStuck
  <2>2. th[t].slot \in stuck' => smap[th[t].slot] # "none" /\ ~mapped[th[t].slot]
    BY <1>4 DEF MapFailPut, MapLeak, MapCopy, UnmapAbort, UnmapStuck,
         BrokenInv, Broken, CallInv, CallOf, UnmapPcs
  <2>. QED
    BY <1>3, <1>4, <2>1, <2>2
       DEF MapFailPut, MapLeak, MapCopy, UnmapAbort, UnmapStuck, slotVars, Building
<1>5. ASSUME NEW t \in Thread, MapFailDetach(t) \/ MapCopyFail(t) \/ UnmapDetach(t)
      PROVE  PhaseInv'
  <2>1. /\ Return(t) /\ th[t].pc # "idle" /\ th[t].slot \in Slot
        /\ UNCHANGED <<buf, mode, smap, zeroAt, stuck>>
        /\ \A r \in Slot : r # th[t].slot => att'[r] = att[r] /\ mapped'[r] = mapped[r]
        /\ mapped'[th[t].slot] => mapped[th[t].slot]
    BY <1>5, ThreadFields DEF MapFailDetach, MapCopyFail, UnmapDetach, DetachAndPut, TypeOK
  <2>2. CASE MapFailDetach(t)
    <3>1. UNCHANGED <<mapped, copyFailed>> /\ th[t].slot \notin Broken
      BY <2>2 DEF MapFailDetach, CallInv, CallOf, BrokenInv, Building
    <3>. QED
      BY <2>1, <2>2, <3>1, ReturnFrame, MovePhase
         DEF MapFailDetach, CallOf, Building, UnmapPcs, Broken
  <2>3. CASE MapCopyFail(t) \/ UnmapDetach(t)
    <3>1. /\ copyFailed' \subseteq copyFailed \cup {th[t].slot}
          /\ th[t].pc \notin Building /\ smap[th[t].slot] # "none" /\ ~mapped'[th[t].slot]
      BY <2>1, <2>3
         DEF MapCopyFail, UnmapDetach, CallInv, CallOf, Building, UnmapPcs, TypeOK
    <3>. QED
      BY <2>1, <3>1, ReturnFrame, MovePhase DEF CallOf, Building, UnmapPcs
  <2>. QED
    BY <1>5, <2>2, <2>3
<1>6. ASSUME NEW t \in Thread, Advance(t) PROVE PhaseInv'
  <2>1. /\ th[t].pc # "idle" /\ th[t].slot \in Slot /\ th'[t].slot = th[t].slot
        /\ th'[t].mode = th[t].mode /\ \A u \in Thread : u # t => th'[u] = th[u]
        /\ UNCHANGED <<buf, mode, copyFailed, stuck>>
        /\ \A r \in Slot : r # th[t].slot =>
              att'[r] = att[r] /\ smap'[r] = smap[r] /\ mapped'[r] = mapped[r]
        /\ zeroAt' \in {zeroAt, None, th[t].slot}
    BY <1>6, AdvanceFrame
  <2>2. CallOf(t) /\ (th[t].slot \in Broken => smap[th[t].slot] # "none" /\ ~mapped[th[t].slot])
    BY DEF CallInv, BrokenInv
  <2>3. /\ CallOf(t)'
        /\ th[t].pc \notin Building =>
              /\ th'[t].pc \notin Building
              /\ smap'[th[t].slot] # "none"
              /\ mapped'[th[t].slot] => mapped[th[t].slot]
        /\ th[t].slot \in Broken => smap'[th[t].slot] # "none" /\ ~mapped'[th[t].slot]
    <3>1. CASE MapAttach(t)
      BY <2>1, <2>2, <3>1, GotoFrame DEF MapAttach, CallOf, Building, MapPcs, UnmapPcs, TypeOK
    <3>2. CASE MapTable(t)
      BY <2>1, <2>2, <3>2, GotoFrame DEF MapTable, CallOf, Building, MapPcs, UnmapPcs, TypeOK
    <3>3. CASE MapZero(t)
      BY <2>1, <2>2, <3>3, GotoFrame
         DEF MapZero, CallOf, Building, MapPcs, UnmapPcs, TypeOK, slotVars
    <3>4. CASE MapAdd(t)
      BY <2>1, <2>2, <3>4, GotoFrame DEF MapAdd, CallOf, Building, MapPcs, UnmapPcs, TypeOK
    <3>5. CASE UnmapTable(t)
      BY <2>1, <2>2, <3>5, GotoFrame DEF UnmapTable, CallOf, Building, MapPcs, UnmapPcs, TypeOK
    <3>6. CASE UnmapZero(t) \/ UnmapFlush(t)
      BY <2>1, <2>2, <3>6, GotoFrame
         DEF UnmapZero, UnmapFlush, CallOf, Building, MapPcs, UnmapPcs, TypeOK, slotVars
    <3>7. CASE UnmapDel(t)
      BY <2>1, <2>2, <3>7, GotoFrame DEF UnmapDel, CallOf, Building, MapPcs, UnmapPcs, TypeOK
    <3>. QED
      BY <1>6, <3>1, <3>2, <3>3, <3>4, <3>5, <3>6, <3>7 DEF Advance
  <2>4. th[t].slot \in Broken' => smap'[th[t].slot] # "none" /\ ~mapped'[th[t].slot]
    BY <2>1, <2>3 DEF Broken
  <2>. QED
    BY <2>1, <2>3, <2>4, MovePhase
<1>14. ASSUME NEW t \in Thread, NEW s \in Slot, NEW m \in Mode, UnmapFind(t, s, m)
       PROVE  PhaseInv'
  <2>1. /\ th'[t].pc = "unmap" /\ th'[t].slot = s
        /\ \A u \in Thread : u # t => th'[u] = th[u]
        /\ smap[s] = "hashed" /\ buf[s] # None
    BY <1>14 DEF UnmapFind, TypeOK, FreshInv
  <2>2. FreshInv'
    BY <1>14, <2>1 DEF UnmapFind, FreshInv, slotVars
  <2>3. CallInv'
    BY <1>14, <2>1 DEF UnmapFind, CallInv, CallOf, Building, UnmapPcs, slotVars
  <2>4. SoleInv'
    BY <2>1 DEF SoleInv, CallInv, CallOf, Building
  <2>5. BrokenInv'
    BY <1>14 DEF UnmapFind, BrokenInv, Broken, slotVars
  <2>. QED
    BY <2>2, <2>3, <2>4, <2>5
<1>15. ASSUME Misuse PROVE PhaseInv'
  BY <1>15, MisuseFrame, MapAssumption
     DEF Misuse, FreshInv, CallInv, CallOf, SoleInv, BrokenInv, Broken, Building, UnmapPcs, slotVars
<1>16. ASSUME NEW s \in Slot, CloseEntry(s) \/ CloseStuck(s) PROVE PhaseInv'
  <2>1. \A t \in Thread : th[t].pc = "idle"
    BY <1>16 DEF CloseEntry, CloseStuck, ClosingInv
  <2>2. /\ \A r \in Slot : r # s =>
              att'[r] = att[r] /\ smap'[r] = smap[r] /\ mapped'[r] = mapped[r]
        /\ smap[s] = "hashed" /\ smap'[s] # "none" /\ ~mapped'[s]
        /\ zeroAt' \in {zeroAt, None} /\ UNCHANGED <<buf, mode, th, copyFailed>>
        /\ stuck' \subseteq stuck \cup {s}
    BY <1>16 DEF CloseEntry, CloseStuck, Usable, DetachAndPut, TypeOK
  <2>3. FreshInv'
    BY <2>2, MapAssumption DEF FreshInv
  <2>4. CallInv' /\ SoleInv'
    BY <2>1, <2>2 DEF CallInv, CallOf, SoleInv, Building, UnmapPcs
  <2>5. BrokenInv'
    BY <2>2 DEF BrokenInv, Broken, TypeOK
  <2>. QED
    BY <2>3, <2>4, <2>5
<1>17. ASSUME NEW b \in Buf, CloseFd(b) PROVE PhaseInv'
  BY <1>1, <1>17 DEF CloseFd
<1>18. ASSUME CloseStart \/ CloseDone PROVE PhaseInv'
  BY <1>1, <1>18 DEF CloseStart, CloseDone
<1>19. ASSUME NEW s \in Slot, CloseSkip(s) PROVE PhaseInv'
  BY <1>1, <1>19 DEF CloseSkip
<1>20. CASE UNCHANGED vars
  BY <1>1, <1>20 DEF vars
<1>. QED
  BY <1>2, <1>4, <1>5, <1>6, <1>14,
     <1>15, <1>16, <1>17, <1>18, <1>19, <1>20
     DEF Next, Advance, MapMisuse, UnmapMisuse, CloseMisuse

-----------------------------------------------------------------------------
(* Reference counting *)

\* Who holds a reference of b.
LEMMA HoldersSays ==
  ASSUME NEW b \in Buf
  PROVE  /\ IsFiniteSet(Holders(b)) /\ Cardinality(Holders(b)) \in Nat
         /\ \A s \in Slot : s \in Holders(b) <=>
               /\ buf[s] = b
               /\ att[s] = "attached" \/ \E t \in Thread : th[t].slot = s /\ th[t].pc = "attach"
         /\ Holders(b) \subseteq Slot
<1>1. Holders(b) \subseteq Slot
  BY DEF Holders
<1>2. IsFiniteSet(Holders(b)) /\ Cardinality(Holders(b)) \in Nat
  BY <1>1, MapAssumption, FS_Subset, FS_CardinalityType
<1>. QED
  BY <1>1, <1>2 DEF Holders

\* A step that changes neither the holders nor the counts keeps the accounting.
LEMMA SameHolders ==
  ASSUME RefAccounting, UNCHANGED <<refs, userFd, bad>>,
         \A b \in Buf : Holders(b)' = Holders(b)
  PROVE  RefAccounting'
BY DEF RefAccounting

\* A holder puts its reference.
LEMMA DropHolder ==
  ASSUME TypeOK, RefAccounting, ~bad, NEW s \in Slot, s \in Holders(buf[s]), buf[s] \in Buf,
         Put(buf[s]), UNCHANGED userFd,
         \A b \in Buf : Holders(b)' = Holders(b) \ {s}
  PROVE  RefAccounting'
<1>1. ASSUME NEW b \in Buf
      PROVE  refs'[b] = Cardinality(Holders(b)') + (IF b \in userFd THEN 1 ELSE 0)
  <2>1. refs[b] = Cardinality(Holders(b)) + (IF b \in userFd THEN 1 ELSE 0)
    BY DEF RefAccounting
  <2>2. CASE b = buf[s]
    <3>1. Cardinality(Holders(b) \ {s}) = Cardinality(Holders(b)) - 1
      BY <2>2, HoldersSays, FS_RemoveElement
    <3>2. refs'[b] = refs[b] - 1
      BY <2>2 DEF Put, TypeOK
    <3>3. Cardinality(Holders(b)') = Cardinality(Holders(b)) - 1 /\ Cardinality(Holders(b)) \in Nat
      BY <3>1, HoldersSays
    <3>. QED
      BY <2>1, <3>2, <3>3
  <2>3. CASE b # buf[s]
    <3>1. s \notin Holders(b)
      BY <2>3, HoldersSays
    <3>2. refs'[b] = refs[b]
      BY <2>3 DEF Put, TypeOK
    <3>. QED
      BY <2>1, <3>1, <3>2
  <2>. QED
    BY <2>2, <2>3
<1>. QED
  BY <1>1 DEF RefAccounting

\* A new map call takes one.
LEMMA AddHolder ==
  ASSUME TypeOK, RefAccounting, NEW b \in Buf, NEW s \in Slot, s \notin Holders(b),
         refs' = [refs EXCEPT ![b] = @ + 1], UNCHANGED <<userFd, bad>>,
         Holders(b)' = Holders(b) \cup {s},
         \A c \in Buf : c # b => Holders(c)' = Holders(c)
  PROVE  RefAccounting'
<1>1. Cardinality(Holders(b) \cup {s}) = Cardinality(Holders(b)) + 1
  BY HoldersSays, FS_AddElement
<1>2. \A c \in Buf : refs'[c] = IF c = b THEN refs[c] + 1 ELSE refs[c]
  BY DEF TypeOK
<1>3. ASSUME NEW c \in Buf, ~bad
      PROVE  refs'[c] = Cardinality(Holders(c)') + (IF c \in userFd THEN 1 ELSE 0)
  <2>1. refs[c] = Cardinality(Holders(c)) + (IF c \in userFd THEN 1 ELSE 0)
    BY <1>3 DEF RefAccounting
  <2>2. Cardinality(Holders(c)) \in Nat
    BY HoldersSays
  <2>3. Cardinality(Holders(c)') = Cardinality(Holders(c)) + (IF c = b THEN 1 ELSE 0)
    BY <1>1, <2>2
  <2>. QED
    BY <1>2, <2>1, <2>2, <2>3
<1>. QED
  BY <1>3 DEF RefAccounting

\* Every step keeps the references of each buffer adding up.
LEMMA AccountingStep ==
  ASSUME IInv, [Next]_vars
  PROVE  RefAccounting'
<1> USE DEF IInv
<1>1. ASSUME NEW b \in Buf, CloseFd(b) PROVE RefAccounting'
  <2>1. \A c \in Buf : Holders(c)' = Holders(c)
    BY <1>1 DEF CloseFd, Holders, slotVars
  <2>2. \A c \in Buf : refs'[c] = IF c = b THEN refs[c] - 1 ELSE refs[c]
    BY <1>1 DEF CloseFd, Put, TypeOK
  <2>. QED
    BY <1>1, <2>1, <2>2, HoldersSays DEF CloseFd, RefAccounting, TypeOK
<1>2. ASSUME NEW t \in Thread, NEW s \in Slot, NEW b \in Buf, NEW m \in Mode, MapGet(t, s, b, m)
      PROVE  RefAccounting'
  <2>1. /\ th'[t].pc = "attach" /\ th'[t].slot = s
        /\ \A u \in Thread : u # t => th'[u] = th[u]
        /\ \A r \in Slot : r # s => buf'[r] = buf[r]
        /\ buf'[s] = b /\ buf[s] = None /\ att' = att /\ th[t].pc = "idle"
        /\ UNCHANGED <<userFd, bad>> /\ refs' = [refs EXCEPT ![b] = @ + 1]
    BY <1>2 DEF MapGet, TypeOK
  <2>2. \A u \in Thread : th[u].slot # s
    BY <2>1 DEF PhaseInv, FreshInv
  <2>3. s \notin Holders(b)
    BY <2>1, HoldersSays, MapAssumption
  <2>4. Holders(b)' = Holders(b) \cup {s}
    BY <2>1, <2>2 DEF Holders
  <2>5. \A c \in Buf : c # b => Holders(c)' = Holders(c)
    BY <2>1, <2>2, MapAssumption DEF Holders
  <2>. QED
    BY <2>1, <2>3, <2>4, <2>5, AddHolder
<1>3. ASSUME NEW t \in Thread, MapFailPut(t) PROVE RefAccounting'
  <2> DEFINE s == th[t].slot
  <2>1. /\ s \in Slot /\ ~bad /\ Put(buf[s]) /\ UNCHANGED <<userFd, buf, att>>
        /\ \A u \in Thread : u # t => th'[u] = th[u]
        /\ th[t].pc = "attach" /\ th'[t].pc = "idle" /\ att[s] = "none"
    BY <1>3, ThreadFields, InsideOpen, ReturnFrame
       DEF MapFailPut, slotVars, PhaseInv, CallInv, CallOf
  <2>2. \A u \in Thread : th[u].slot = s => u = t
    BY <2>1 DEF PhaseInv, SoleInv, Building
  <2>3. buf[s] \in Buf /\ s \in Holders(buf[s])
    BY <2>1, HolderOf
  <2>4. \A b \in Buf : Holders(b)' = Holders(b) \ {s}
    BY <2>1, <2>2 DEF Holders
  <2>. QED
    BY <2>1, <2>3, <2>4, DropHolder
<1>4. ASSUME NEW s \in Slot, ~bad, att[s] = "attached", DetachAndPut(s), UNCHANGED <<userFd, buf>>,
             \A t \in Thread : th'[t] = th[t] \/ (th'[t].pc = "idle" /\ th[t].pc # "attach")
      PROVE  RefAccounting'
  <2>1. /\ att'[s] = "freed" /\ Put(buf[s]) /\ \A r \in Slot : r # s => att'[r] = att[r]
    BY <1>4 DEF DetachAndPut, TypeOK
  <2>2. \A t \in Thread : th[t].pc = "attach" => th[t].slot # s
    BY <1>4 DEF PhaseInv, CallInv, CallOf
  <2>3. \A t \in Thread : th[t].pc = "attach" <=> th'[t].pc = "attach"
    BY <1>4
  <2>4. \A t \in Thread : th[t].pc = "attach" => th'[t].slot = th[t].slot
    BY <1>4
  <2>5. buf[s] \in Buf /\ s \in Holders(buf[s])
    BY <1>4, HolderOf
  <2>6. \A b \in Buf : Holders(b)' = Holders(b) \ {s}
    BY <1>4, <2>1, <2>2, <2>3, <2>4 DEF Holders
  <2>. QED
    BY <1>4, <2>1, <2>5, <2>6, DropHolder
<1>5. ASSUME NEW t \in Thread, MapFailDetach(t) \/ MapCopyFail(t) \/ UnmapDetach(t)
      PROVE  RefAccounting'
  <2>1. /\ th[t].slot \in Slot /\ ~bad /\ att[th[t].slot] = "attached"
        /\ th[t].pc # "attach" /\ th'[t].pc = "idle"
        /\ \A u \in Thread : u # t => th'[u] = th[u]
    BY <1>5, ThreadFields, InsideOpen, ReturnFrame
       DEF MapFailDetach, MapCopyFail, UnmapDetach, PhaseInv, CallInv, CallOf
  <2>. QED
    BY <1>4, <1>5, <2>1 DEF MapFailDetach, MapCopyFail, UnmapDetach
<1>6. ASSUME NEW s \in Slot, CloseEntry(s) PROVE RefAccounting'
  BY <1>4, <1>6 DEF CloseEntry, Usable, ClosingInv
<1>7. ASSUME UNCHANGED <<refs, userFd, buf, att, bad>>,
             \A t \in Thread : th'[t] = th[t] \/ (th'[t].pc # "attach" /\ th[t].pc # "attach")
      PROVE  RefAccounting'
  <2>1. \A t \in Thread : th[t].pc = "attach" <=> th'[t].pc = "attach"
    BY <1>7
  <2>2. \A t \in Thread : th[t].pc = "attach" => th'[t].slot = th[t].slot
    BY <1>7
  <2>3. \A b \in Buf : Holders(b)' = Holders(b)
    BY <1>7, <2>1, <2>2 DEF Holders
  <2>. QED
    BY <1>7, <2>3, SameHolders
<1>8. ASSUME NEW t \in Thread, MapAttach(t) PROVE RefAccounting'
  <2> DEFINE s == th[t].slot
  <2>1. /\ s \in Slot /\ UNCHANGED <<refs, userFd, buf, bad>>
        /\ \A u \in Thread : u # t => th'[u] = th[u]
        /\ th[t].pc = "attach" /\ th'[t].pc = "map"
        /\ att'[s] = "attached" /\ \A r \in Slot : r # s => att'[r] = att[r]
    BY <1>8, ThreadFields, GotoFrame DEF MapAttach, MapPcs, TypeOK
  <2>2. \A u \in Thread : th[u].slot = s => u = t
    BY <2>1 DEF PhaseInv, SoleInv, Building
  <2>3. \A b \in Buf : Holders(b)' = Holders(b)
    BY <2>1, <2>2 DEF Holders
  <2>. QED
    BY <2>1, <2>3, SameHolders
<1>9. ASSUME NEW t \in Thread, Advance(t), ~MapAttach(t) PROVE RefAccounting'
  <2>1. UNCHANGED <<refs, userFd, buf, att, bad>> /\ th[t].pc # "attach"
    BY <1>9 DEF Advance, slotVars,
         MapTable, MapZero, MapAdd, UnmapTable, UnmapZero, UnmapFlush, UnmapDel
  <2>2. th'[t].pc # "attach"
    BY <1>9, GotoFrame DEF Advance, MapPcs, UnmapPcs,
         MapTable, MapZero, MapAdd, UnmapTable, UnmapZero, UnmapFlush, UnmapDel
  <2>3. \A u \in Thread : u # t => th'[u] = th[u]
    BY <1>9, AdvanceFrame
  <2>. QED
    BY <1>7, <2>1, <2>2, <2>3
<1>10. ASSUME NEW t \in Thread, MapLeak(t) \/ MapCopy(t) \/ UnmapAbort(t) \/ UnmapStuck(t)
       PROVE  RefAccounting'
  <2>1. UNCHANGED <<refs, userFd, buf, att, bad>> /\ th[t].pc # "attach" /\ Return(t)
    BY <1>10 DEF MapLeak, MapCopy, UnmapAbort, UnmapStuck, slotVars
  <2>. QED
    BY <1>7, <2>1, ReturnFrame
<1>11. ASSUME NEW t \in Thread, NEW s \in Slot, NEW m \in Mode, UnmapFind(t, s, m)
       PROVE  RefAccounting'
  <2>1. /\ UNCHANGED <<refs, userFd, buf, att, bad>> /\ th[t].pc = "idle" /\ th'[t].pc = "unmap"
        /\ \A u \in Thread : u # t => th'[u] = th[u]
    BY <1>11 DEF UnmapFind, slotVars, TypeOK
  <2>. QED
    BY <1>7, <2>1
<1>12. ASSUME NEW s \in Slot, CloseSkip(s) \/ CloseStuck(s) PROVE RefAccounting'
  BY <1>7, <1>12 DEF CloseSkip, CloseStuck, slotVars
<1>13. ASSUME CloseStart \/ CloseDone PROVE RefAccounting'
  BY <1>7, <1>13 DEF CloseStart, CloseDone, slotVars
<1>14. ASSUME Misuse PROVE RefAccounting'
  BY <1>14 DEF Misuse, RefAccounting
<1>15. CASE UNCHANGED vars
  BY <1>7, <1>15 DEF vars, slotVars
<1>. QED
  BY <1>1, <1>2, <1>3, <1>5, <1>6, <1>8, <1>9, <1>10, <1>11, <1>12, <1>13, <1>14, <1>15
     DEF Next, Advance, MapMisuse, UnmapMisuse, CloseMisuse

-----------------------------------------------------------------------------
(* What unmap frees and what close leaves *)

\* Every step keeps FreedInv: only unmap frees an entry before it detaches.
LEMMA FreedStep ==
  ASSUME IInv, [Next]_vars
  PROVE  FreedInv'
<1> USE DEF IInv
<1>1. ASSUME bad' = bad,
             \A s \in Slot : smap'[s] = "freed" /\ att'[s] = "attached" =>
                 \/ smap[s] = "freed" /\ att[s] = "attached"
                 \/ \E t \in Thread : th'[t].slot = s /\ th'[t].pc = "detach",
             \A t \in Thread : th[t].pc = "detach" =>
                 \/ th'[t] = th[t]
                 \/ att'[th[t].slot] # "attached"
      PROVE  FreedInv'
  BY <1>1 DEF FreedInv
<1>2. ASSUME NEW t \in Thread, Advance(t) PROVE FreedInv'
  <2>1. /\ th[t].slot \in Slot /\ th'[t].slot = th[t].slot /\ bad' = bad
        /\ \A u \in Thread : u # t => th'[u] = th[u]
        /\ \A r \in Slot : r # th[t].slot => att'[r] = att[r] /\ smap'[r] = smap[r]
    BY <1>2, AdvanceFrame
  <2>2. th[t].pc # "detach"
    BY <1>2 DEF Advance, MapAttach, MapTable, MapZero, MapAdd, UnmapTable, UnmapZero, UnmapFlush,
         UnmapDel
  <2>3. CASE UnmapDel(t)
    <3>1. th'[t].pc = "detach"
      BY <2>1, <2>3, GotoFrame DEF UnmapDel, UnmapPcs
    <3>. QED
      BY <1>1, <2>1, <2>2, <3>1
  <2>4. CASE MapAttach(t)
    <3>1. smap'[th[t].slot] = "none"
      BY <2>4 DEF MapAttach, PhaseInv, CallInv, CallOf, Building
    <3>. QED
      BY <1>1, <2>1, <2>2, <3>1
  <2>5. CASE MapAdd(t)
    <3>1. smap'[th[t].slot] = "hashed"
      BY <2>1, <2>5 DEF MapAdd, TypeOK
    <3>. QED
      BY <1>1, <2>1, <2>2, <3>1
  <2>6. CASE MapTable(t) \/ MapZero(t) \/ UnmapTable(t) \/ UnmapZero(t) \/ UnmapFlush(t)
    <3>1. UNCHANGED <<att, smap>>
      BY <2>6 DEF MapTable, MapZero, UnmapTable, UnmapZero, UnmapFlush, slotVars
    <3>. QED
      BY <1>1, <2>1, <2>2, <3>1
  <2>. QED
    BY <1>2, <2>3, <2>4, <2>5, <2>6 DEF Advance
<1>3. ASSUME NEW s \in Slot, DetachAndPut(s), bad' = bad,
             \A r \in Slot : r # s => smap'[r] = smap[r],
             \A t \in Thread : th'[t] = th[t] \/ th[t].slot = s
      PROVE  FreedInv'
  <2>1. att'[s] = "freed" /\ \A r \in Slot : r # s => att'[r] = att[r]
    BY <1>3 DEF DetachAndPut, TypeOK
  <2>. QED
    BY <1>1, <1>3, <2>1
<1>4. ASSUME NEW t \in Thread, MapFailDetach(t) \/ MapCopyFail(t) \/ UnmapDetach(t)
      PROVE  FreedInv'
  <2>1. /\ th[t].slot \in Slot /\ DetachAndPut(th[t].slot) /\ bad' = bad /\ smap' = smap
        /\ Return(t)
    BY <1>4, ThreadFields DEF MapFailDetach, MapCopyFail, UnmapDetach
  <2>. QED
    BY <1>3, <2>1, ReturnFrame
<1>5. ASSUME NEW s \in Slot, CloseEntry(s) PROVE FreedInv'
  BY <1>3, <1>5 DEF CloseEntry, TypeOK
<1>6. ASSUME NEW t \in Thread,
             \/ MapFailPut(t) \/ MapLeak(t) \/ MapCopy(t) \/ UnmapAbort(t) \/ UnmapStuck(t)
      PROVE  FreedInv'
  <2>1. UNCHANGED <<att, smap, bad>> /\ th[t].pc # "detach" /\ Return(t)
    BY <1>6 DEF MapFailPut, MapLeak, MapCopy, UnmapAbort, UnmapStuck, slotVars
  <2>. QED
    BY <1>1, <2>1, ReturnFrame
<1>7. ASSUME NEW t \in Thread, NEW s \in Slot, NEW m \in Mode,
             UnmapFind(t, s, m) \/ \E b \in Buf : MapGet(t, s, b, m)
      PROVE  FreedInv'
  <2>1. /\ UNCHANGED <<att, smap, bad>> /\ th[t].pc = "idle"
        /\ \A u \in Thread : u # t => th'[u] = th[u]
    BY <1>7 DEF MapGet, UnmapFind, slotVars, TypeOK
  <2>. QED
    BY <1>1, <2>1
<1>8. ASSUME Misuse PROVE FreedInv'
  BY <1>8 DEF Misuse, FreedInv
<1>9. ASSUME UNCHANGED <<att, smap, bad, th>> PROVE FreedInv'
  BY <1>9 DEF FreedInv
<1>10. ASSUME NEW b \in Buf, CloseFd(b) PROVE FreedInv'
  BY <1>9, <1>10 DEF CloseFd, slotVars
<1>11. ASSUME NEW s \in Slot, CloseSkip(s) \/ CloseStuck(s) PROVE FreedInv'
  BY <1>9, <1>11 DEF CloseSkip, CloseStuck, slotVars
<1>12. ASSUME CloseStart \/ CloseDone \/ UNCHANGED vars PROVE FreedInv'
  BY <1>9, <1>12 DEF CloseStart, CloseDone, vars, slotVars
<1>. QED
  BY <1>2, <1>4, <1>5, <1>6, <1>7, <1>8, <1>10, <1>11, <1>12
     DEF Next, Advance, MapMisuse, UnmapMisuse, CloseMisuse

\* Every step keeps ClosingInv: kiumd_close runs when no call is inside the
\* driver, and visits every entry it does not pass over.
LEMMA ClosingStep ==
  ASSUME IInv, [Next]_vars
  PROVE  ClosingInv'
<1> USE DEF IInv
<1>1. ASSUME ctx = "open", ctx' = ctx, bad' = bad PROVE ClosingInv'
  BY <1>1 DEF ClosingInv
<1>2. ASSUME NEW t \in Thread, th[t].pc # "idle", UNCHANGED <<ctx, bad>> PROVE ClosingInv'
  BY <1>2, <1>1, InsideOpen
<1>3. ASSUME NEW t \in Thread, Advance(t) PROVE ClosingInv'
  BY <1>2, <1>3, AdvanceFrame
<1>4. ASSUME NEW t \in Thread,
             \/ MapFailPut(t) \/ MapFailDetach(t) \/ MapLeak(t) \/ MapCopy(t) \/ MapCopyFail(t)
             \/ UnmapAbort(t) \/ UnmapStuck(t) \/ UnmapDetach(t)
      PROVE  ClosingInv'
  BY <1>2, <1>4
     DEF MapFailPut, MapFailDetach, MapLeak, MapCopy, MapCopyFail, UnmapAbort, UnmapStuck, UnmapDetach
<1>5. ASSUME NEW t \in Thread, NEW s \in Slot, NEW m \in Mode,
             UnmapFind(t, s, m) \/ \E b \in Buf : MapGet(t, s, b, m)
      PROVE  ClosingInv'
  BY <1>1, <1>5 DEF MapGet, UnmapFind
<1>6. ASSUME Misuse PROVE ClosingInv'
  BY <1>6, MisuseFrame DEF Misuse, ClosingInv
<1>7. ASSUME UNCHANGED <<ctx, bad, todo, slotVars, stuck, th>> PROVE ClosingInv'
  BY <1>7 DEF ClosingInv, Hashed, slotVars
<1>8. ASSUME NEW b \in Buf, CloseFd(b) PROVE ClosingInv'
  BY <1>7, <1>8 DEF CloseFd
<1>9. CASE UNCHANGED vars
  BY <1>7, <1>9 DEF vars
<1>10. CASE CloseStart
  BY <1>10 DEF CloseStart, ClosingInv, Hashed, slotVars
<1>11. CASE CloseDone
  BY <1>11 DEF CloseDone, ClosingInv, Hashed, slotVars
<1>12. ASSUME NEW s \in Slot, CloseSkip(s) PROVE ClosingInv'
  BY <1>12 DEF CloseSkip, ClosingInv, Hashed, slotVars
<1>13. ASSUME NEW s \in Slot, CloseStuck(s) PROVE ClosingInv'
  BY <1>13 DEF CloseStuck, ClosingInv, Hashed, slotVars
<1>14. ASSUME NEW s \in Slot, CloseEntry(s) PROVE ClosingInv'
  <2>1. /\ \A r \in Slot : r # s => att'[r] = att[r] /\ smap'[r] = smap[r]
        /\ smap'[s] = "freed" /\ UNCHANGED <<mode, th, ctx, stuck, bad>> /\ todo' = todo \ {s}
        /\ ctx = "closing"
    BY <1>14 DEF CloseEntry, DetachAndPut, TypeOK
  <2>. QED
    BY <2>1 DEF ClosingInv, Hashed
<1>. QED
  BY <1>3, <1>4, <1>5, <1>6, <1>8, <1>9, <1>10, <1>11, <1>12, <1>13, <1>14
     DEF Next, Advance, MapMisuse, UnmapMisuse, CloseMisuse

-----------------------------------------------------------------------------
(* A careful process *)

\* A step of a thread that disturbs no slot but its own leaves the other calls
\* of a careful process what they rely on.
LEMMA MoveCareful ==
  ASSUME TypeOK, ApartInv, StepInv, EntryInv, careful, ~bad,
         NEW t \in Thread, th[t].pc # "idle", UNCHANGED mode,
         \A u \in Thread : u # t => th'[u] = th[u],
         \/ th'[t].slot = th[t].slot
         \/ th'[t].pc = "idle" /\ th'[t].slot = None,
         \A r \in Slot : r # th[t].slot =>
             att'[r] = att[r] /\ smap'[r] = smap[r] /\ mapped'[r] = mapped[r],
         zeroAt' \in {zeroAt, None, th[t].slot},
         copyFailed \subseteq copyFailed', stuck \subseteq stuck',
         StepOf(t)',
         smap'[th[t].slot] = "hashed" /\ th[t].slot \notin Broken' =>
             \/ att'[th[t].slot] = "attached" /\ mapped'[th[t].slot]
             \/ th'[t].slot = th[t].slot /\ th'[t].pc \in UnmapPcs
  PROVE  ApartInv' /\ StepInv' /\ EntryInv'
<1> DEFINE s == th[t].slot
<1>1. s \in Slot /\ s # None
  BY ThreadFields
<1>2. \A u \in Thread : th[u].slot = s => u = t
  BY DEF ApartInv
<1>3. ApartInv'
  <2>1. ASSUME NEW u \in Thread, NEW v \in Thread, th'[u].pc # "idle", th'[v].slot = th'[u].slot
        PROVE  v = u
    <3>1. CASE u = t
      BY <1>1, <1>2, <2>1, <3>1
    <3>2. CASE u # t
      <4>1. th'[u] = th[u] /\ th[u].slot # s /\ th[u].slot # None
        BY <1>2, <2>1, <3>2, ThreadFields
      <4>. QED
        BY <2>1, <4>1 DEF ApartInv
    <3>. QED
      BY <3>1, <3>2
  <2>. QED
    BY <2>1 DEF ApartInv
<1>4. ASSUME NEW u \in Thread, u # t PROVE StepOf(u)'
  <2>1. th'[u] = th[u] /\ StepOf(u)
    BY <1>4 DEF StepInv
  <2>2. CASE th[u].pc = "idle"
    BY <2>1, <2>2 DEF StepOf, UnmapPcs
  <2>3. CASE th[u].pc # "idle"
    <3>1. th[u].slot \in Slot /\ th[u].slot # s /\ th[u].slot # None
      BY <1>2, <1>4, <2>3, ThreadFields
    <3>. QED
      BY <1>1, <2>1, <3>1 DEF StepOf, Usable, Broken
  <2>. QED
    BY <2>2, <2>3
<1>5. StepInv'
  BY <1>4 DEF StepInv
<1>6. EntryInv'
  <2>1. ASSUME NEW r \in Slot, smap'[r] = "hashed", r \notin Broken'
        PROVE  \/ att'[r] = "attached" /\ mapped'[r]
               \/ \E u \in Thread : th'[u].slot = r /\ th'[u].pc \in UnmapPcs
    <3>1. CASE r = s
      BY <2>1, <3>1
    <3>2. CASE r # s
      <4>1. r \in Hashed \ Broken
        BY <2>1, <3>2 DEF Hashed, Broken
      <4>2. Usable(r) \/ \E u \in Thread : th[u].slot = r /\ th[u].pc \in UnmapPcs
        BY <4>1 DEF EntryInv
      <4>. QED
        BY <3>2, <4>2 DEF Usable
    <3>. QED
      BY <3>1, <3>2
  <2>. QED
    BY <2>1 DEF EntryInv, Hashed, Usable
<1>. QED
  BY <1>3, <1>5, <1>6

\* Every step keeps what a careful process relies on.
LEMMA CarefulStep ==
  ASSUME IInv, [Next]_vars, careful, ~bad, ~bad'
  PROVE  ApartInv' /\ StepInv' /\ EntryInv'
<1> USE DEF IInv, CarefulInv
<1>1. ASSUME NEW t \in Thread, Advance(t) PROVE ApartInv' /\ StepInv' /\ EntryInv'
  <2> DEFINE s == th[t].slot
  <2>1. /\ th[t].pc # "idle" /\ s \in Slot /\ s # None /\ th'[t].slot = s
        /\ th'[t].mode = th[t].mode /\ UNCHANGED <<mode, copyFailed, stuck>>
        /\ \A u \in Thread : u # t => th'[u] = th[u]
        /\ \A r \in Slot : r # s =>
             att'[r] = att[r] /\ smap'[r] = smap[r] /\ mapped'[r] = mapped[r]
        /\ zeroAt' \in {zeroAt, None, s}
    BY <1>1, AdvanceFrame, MapAssumption
  <2>2. CallOf(t) /\ StepOf(t) /\ (zeroAt = s => mode[s] = "zero")
    BY <2>1 DEF PhaseInv, CallInv, StepInv, ZeroInv
  <2>3. /\ StepOf(t)'
        /\ smap'[s] = "hashed" =>
              \/ att'[s] = "attached" /\ mapped'[s]
              \/ th'[t].pc \in UnmapPcs
    <3>1. CASE MapAttach(t)
      BY <2>1, <2>2, <3>1, GotoFrame DEF MapAttach, CallOf, StepOf, Building, MapPcs, UnmapPcs
    <3>2. CASE MapTable(t)
      BY <2>1, <2>2, <3>2, GotoFrame DEF MapTable, CallOf, StepOf, Building, MapPcs, UnmapPcs
    <3>3. CASE MapZero(t)
      BY <2>1, <2>2, <3>3, GotoFrame
         DEF MapZero, CallOf, StepOf, Building, MapPcs, UnmapPcs, slotVars
    <3>4. CASE MapAdd(t)
      BY <2>1, <2>2, <3>4, GotoFrame
         DEF MapAdd, CallOf, StepOf, Usable, Building, MapPcs, UnmapPcs, TypeOK
    <3>5. CASE UnmapTable(t)
      BY <2>1, <2>2, <3>5, GotoFrame DEF UnmapTable, StepOf, Usable, MapPcs, UnmapPcs
    <3>6. CASE UnmapZero(t) \/ UnmapFlush(t)
      <4>1. th'[t].pc = "del"
        BY <2>1, <3>6, GotoFrame DEF UnmapZero, UnmapFlush, UnmapPcs
      <4>2. th[t].pc \in {"unzero", "flush"} /\ UNCHANGED <<att, smap>> /\ zeroAt' # s
        BY <2>1, <2>2, <3>6 DEF UnmapZero, UnmapFlush, StepOf, slotVars
      <4>. QED
        BY <2>1, <2>2, <4>1, <4>2 DEF StepOf, UnmapPcs
    <3>7. CASE UnmapDel(t)
      BY <2>1, <2>2, <3>7, GotoFrame DEF UnmapDel, StepOf, MapPcs, UnmapPcs, TypeOK
    <3>. QED
      BY <1>1, <3>1, <3>2, <3>3, <3>4, <3>5, <3>6, <3>7 DEF Advance
  <2>. QED
    BY <2>1, <2>3, MoveCareful
<1>2. ASSUME NEW t \in Thread,
             \/ MapFailPut(t) \/ MapFailDetach(t) \/ MapLeak(t) \/ MapCopy(t) \/ MapCopyFail(t)
             \/ UnmapAbort(t) \/ UnmapStuck(t) \/ UnmapDetach(t)
      PROVE  ApartInv' /\ StepInv' /\ EntryInv'
  <2> DEFINE s == th[t].slot
  <2>1. /\ th[t].pc # "idle" /\ s \in Slot /\ Return(t)
        /\ UNCHANGED <<mode, smap, zeroAt>>
        /\ copyFailed \subseteq copyFailed' /\ stuck \subseteq stuck'
        /\ \A r \in Slot : r # s => att'[r] = att[r] /\ mapped'[r] = mapped[r]
    BY <1>2, ThreadFields
       DEF MapFailPut, MapFailDetach, MapLeak, MapCopy, MapCopyFail,
           UnmapAbort, UnmapStuck, UnmapDetach, DetachAndPut, slotVars, TypeOK
  <2>2. CallOf(t) /\ StepOf(t)
    BY DEF PhaseInv, CallInv, StepInv
  <2>3. smap[s] = "hashed" /\ s \notin Broken' => att'[s] = "attached" /\ mapped'[s]
    <3>1. CASE MapFailPut(t) \/ MapFailDetach(t) \/ MapLeak(t)
      BY <2>2, <3>1 DEF MapFailPut, MapFailDetach, MapLeak, CallOf, Building
    <3>2. CASE MapCopy(t)
      BY <2>2, <3>2 DEF MapCopy, StepOf, Usable, slotVars
    <3>3. CASE MapCopyFail(t)
      BY <3>3 DEF MapCopyFail, Broken
    <3>4. CASE UnmapAbort(t)
      BY <2>2, <3>4 DEF UnmapAbort, StepOf, Usable, Broken, slotVars
    <3>5. CASE UnmapStuck(t)
      BY <3>5 DEF UnmapStuck, Broken
    <3>6. CASE UnmapDetach(t)
      BY <2>2, <3>6 DEF UnmapDetach, StepOf
    <3>. QED
      BY <1>2, <3>1, <3>2, <3>3, <3>4, <3>5, <3>6
  <2>4. StepOf(t)'
    BY <2>1, ReturnFrame DEF StepOf, UnmapPcs
  <2>. QED
    BY <2>1, <2>3, <2>4, ReturnFrame, MoveCareful
<1>a. ASSUME UNCHANGED <<careful, att, mapped, smap, copyFailed, stuck, bad>>,
              \A u \in Thread : th[u].pc \in UnmapPcs => th'[u] = th[u]
       PROVE  EntryInv'
  <2>1. UNCHANGED <<Hashed, Broken>> /\ Hashed \subseteq Slot
    BY <1>a DEF Hashed, Broken
  <2>2. ASSUME NEW r \in Slot PROVE Usable(r)' <=> Usable(r)
    BY <1>a DEF Usable
  <2>. QED
    BY <1>a, <2>1, <2>2 DEF EntryInv
<1>3. ASSUME NEW t \in Thread, NEW s \in Slot, NEW b \in Buf, NEW m \in Mode, MapGet(t, s, b, m)
      PROVE  ApartInv' /\ StepInv' /\ EntryInv'
  <2>1. /\ th[t].pc = "idle" /\ th'[t].pc = "attach" /\ th'[t].slot = s
        /\ \A u \in Thread : u # t => th'[u] = th[u]
        /\ \A r \in Slot : r # s => mode'[r] = mode[r]
        /\ UNCHANGED <<careful, att, mapped, smap, zeroAt, copyFailed, stuck, bad>>
    BY <1>3 DEF MapGet, TypeOK
  <2>2. /\ \A u \in Thread : th[u].slot # s
        /\ smap[s] = "none"
    BY <1>3 DEF MapGet, PhaseInv, FreshInv
  <2>3. ApartInv'
    BY <2>1, <2>2 DEF ApartInv
  <2>4. StepInv'
    <3>1. ASSUME NEW u \in Thread PROVE StepOf(u)'
      <4>1. CASE u = t
        BY <2>1, <4>1 DEF StepOf, UnmapPcs
      <4>2. CASE u # t /\ th[u].pc = "idle"
        BY <2>1, <4>2 DEF StepOf, UnmapPcs
      <4>3. CASE u # t /\ th[u].pc # "idle"
        <5>1. th[u].slot \in Slot /\ th[u].slot # s /\ StepOf(u)
          BY <2>2, <4>3, ThreadFields DEF StepInv
        <5>. QED
          BY <2>1, <4>3, <5>1 DEF StepOf, Usable, Broken
      <4>. QED
        BY <4>1, <4>2, <4>3
    <3>. QED
      BY <3>1 DEF StepInv
  <2>5. EntryInv'
    BY <1>a, <2>1 DEF UnmapPcs
  <2>. QED
    BY <2>3, <2>4, <2>5
<1>4. ASSUME NEW t \in Thread, NEW s \in Slot, NEW m \in Mode, UnmapFind(t, s, m)
      PROVE  ApartInv' /\ StepInv' /\ EntryInv'
  <2>1. /\ th[t].pc = "idle" /\ th'[t].pc = "unmap" /\ th'[t].slot = s /\ th'[t].mode = m
        /\ \A u \in Thread : u # t => th'[u] = th[u]
        /\ UNCHANGED <<careful, att, mapped, smap, mode, zeroAt, copyFailed, stuck, bad>>
        /\ smap[s] = "hashed" /\ m = mode[s] /\ \A u \in Thread : th[u].slot # s
    BY <1>4 DEF UnmapFind, Busy, TypeOK, slotVars
  <2>2. Usable(s) \/ s \in Broken
    BY <2>1 DEF EntryInv, Hashed
  <2>3. ApartInv'
    BY <2>1 DEF ApartInv
  <2>4. StepInv'
    BY <2>1, <2>2 DEF StepInv, StepOf, Usable, Broken
  <2>5. EntryInv'
    BY <1>a, <2>1 DEF UnmapPcs
  <2>. QED
    BY <2>3, <2>4, <2>5
<1>5. ASSUME UNCHANGED <<slotVars, zeroAt, copyFailed, stuck, bad, th>>
      PROVE  ApartInv' /\ StepInv' /\ EntryInv'
  BY <1>5 DEF slotVars, ApartInv, StepInv, StepOf, EntryInv, Usable, Hashed, Broken
<1>6. ASSUME NEW b \in Buf, CloseFd(b) PROVE ApartInv' /\ StepInv' /\ EntryInv'
  BY <1>5, <1>6 DEF CloseFd
<1>7. ASSUME NEW s \in Slot, CloseSkip(s) PROVE ApartInv' /\ StepInv' /\ EntryInv'
  BY <1>5, <1>7 DEF CloseSkip
<1>8. ASSUME CloseStart \/ CloseDone \/ UNCHANGED vars PROVE ApartInv' /\ StepInv' /\ EntryInv'
  BY <1>5, <1>8 DEF CloseStart, CloseDone, vars
<1>9. ASSUME NEW s \in Slot, CloseEntry(s) \/ CloseStuck(s)
      PROVE  ApartInv' /\ StepInv' /\ EntryInv'
  <2>1. /\ \A t \in Thread : th[t].pc = "idle" /\ th'[t].pc = "idle"
        /\ careful' = careful /\ bad' = bad
        /\ \A r \in Slot : r # s =>
             att'[r] = att[r] /\ smap'[r] = smap[r] /\ mapped'[r] = mapped[r]
        /\ Broken \subseteq Broken'
        /\ smap'[s] = "freed" \/ s \in Broken'
    BY <1>9 DEF CloseEntry, CloseStuck, DetachAndPut, ClosingInv, Broken, TypeOK
  <2>2. ApartInv' /\ StepInv'
    BY <2>1 DEF ApartInv, StepInv, StepOf, UnmapPcs
  <2>3. EntryInv'
    BY <2>1 DEF EntryInv, Usable, Hashed, UnmapPcs
  <2>. QED
    BY <2>2, <2>3
<1>. QED
  BY <1>1, <1>2, <1>3, <1>4, <1>6, <1>7, <1>8, <1>9
     DEF Next, Advance, MapMisuse, UnmapMisuse, CloseMisuse, Misuse

\* Every step keeps ZeroInv: the pages at IOVA 0 are those of a "zero" map call,
\* and a careful process does not lose their attachment but in copy_to_user.
LEMMA ZeroStep ==
  ASSUME IInv, [Next]_vars
  PROVE  ZeroInv'
<1> USE DEF IInv, CarefulInv
<1>1. ASSUME careful' = careful, zeroAt' \in {zeroAt, None},
             zeroAt # None => mode'[zeroAt] = mode[zeroAt],
             copyFailed \subseteq copyFailed',
             careful /\ ~bad' /\ zeroAt # None /\ zeroAt' = zeroAt /\ att[zeroAt] = "attached" =>
                 ~bad /\ (att'[zeroAt] = "attached" \/ zeroAt \in copyFailed'),
             ~bad' => ~bad
      PROVE  ZeroInv'
  BY <1>1 DEF ZeroInv
<1>2. ASSUME UNCHANGED <<careful, mode, att>>, zeroAt' \in {zeroAt, None},
             copyFailed' = copyFailed, ~bad' => ~bad
      PROVE  ZeroInv'
  BY <1>1, <1>2
<1>3. ASSUME NEW t \in Thread, NEW s \in Slot, NEW b \in Buf, NEW m \in Mode, MapGet(t, s, b, m)
      PROVE  ZeroInv'
  <2>1. zeroAt # s /\ \A r \in Slot : r # s => mode'[r] = mode[r]
    BY <1>3 DEF MapGet, PhaseInv, FreshInv, TypeOK
  <2>. QED
    BY <1>1, <1>3, <2>1 DEF MapGet, TypeOK
<1>4. ASSUME NEW t \in Thread, MapZero(t) PROVE ZeroInv'
  <2>1. mode[th[t].slot] = "zero" /\ att[th[t].slot] = "attached"
    BY <1>4 DEF MapZero, PhaseInv, CallInv, CallOf, Building
  <2>. QED
    BY <1>4, <2>1 DEF MapZero, ZeroInv, slotVars
<1>5. ASSUME NEW t \in Thread, MapAttach(t) PROVE ZeroInv'
  <2>1. \A r \in Slot : att[r] = "attached" => att'[r] = "attached"
    BY <1>5 DEF MapAttach, TypeOK
  <2>. QED
    BY <1>1, <1>5, <2>1 DEF MapAttach, TypeOK
<1>6. ASSUME NEW t \in Thread, Advance(t), ~MapZero(t), ~MapAttach(t) PROVE ZeroInv'
  <2>1. UNCHANGED <<careful, mode, att, copyFailed, bad>> /\ zeroAt' \in {zeroAt, None}
    BY <1>6 DEF Advance, slotVars, MapTable, MapAdd, UnmapTable, UnmapZero, UnmapFlush, UnmapDel
  <2>. QED
    BY <1>2, <2>1
<1>7. ASSUME NEW s \in Slot, DetachAndPut(s), UNCHANGED <<careful, mode, bad>>,
             zeroAt' \in {zeroAt, None}, copyFailed \subseteq copyFailed',
             careful /\ ~bad /\ zeroAt' # None => zeroAt # s \/ s \in copyFailed'
      PROVE  ZeroInv'
  <2>1. \A r \in Slot : r # s => att'[r] = att[r]
    BY <1>7 DEF DetachAndPut, TypeOK
  <2>. QED
    BY <1>1, <1>7, <2>1 DEF TypeOK
<1>8. ASSUME NEW t \in Thread, MapFailDetach(t) PROVE ZeroInv'
  BY <1>7, <1>8, ThreadFields DEF MapFailDetach, PhaseInv, CallInv, CallOf
<1>9. ASSUME NEW t \in Thread, MapCopyFail(t) PROVE ZeroInv'
  BY <1>7, <1>9, ThreadFields DEF MapCopyFail
<1>10. ASSUME NEW t \in Thread, UnmapDetach(t) PROVE ZeroInv'
  BY <1>7, <1>10, ThreadFields DEF UnmapDetach, StepInv, StepOf
<1>11. ASSUME NEW s \in Slot, CloseEntry(s) PROVE ZeroInv'
  <2>1. zeroAt = s => mode[s] = "zero"
    BY MapAssumption DEF ZeroInv
  <2>. QED
    BY <1>7, <1>11, <2>1 DEF CloseEntry
<1>12. ASSUME NEW t \in Thread,
             \/ MapFailPut(t) \/ MapLeak(t) \/ MapCopy(t) \/ UnmapAbort(t) \/ UnmapStuck(t)
       PROVE  ZeroInv'
  BY <1>2, <1>12 DEF MapFailPut, MapLeak, MapCopy, UnmapAbort, UnmapStuck, slotVars
<1>13. ASSUME NEW t \in Thread, NEW s \in Slot, NEW m \in Mode, UnmapFind(t, s, m) PROVE ZeroInv'
  BY <1>2, <1>13 DEF UnmapFind, slotVars
<1>14. ASSUME Misuse PROVE ZeroInv'
  BY <1>2, <1>14 DEF Misuse, slotVars
<1>15. ASSUME NEW b \in Buf, CloseFd(b) PROVE ZeroInv'
  BY <1>2, <1>15 DEF CloseFd, slotVars
<1>16. ASSUME NEW s \in Slot, CloseSkip(s) \/ CloseStuck(s) PROVE ZeroInv'
  BY <1>2, <1>16 DEF CloseSkip, CloseStuck, slotVars
<1>17. CASE CloseStart \/ CloseDone \/ UNCHANGED vars
  BY <1>2, <1>17 DEF CloseStart, CloseDone, vars, slotVars
<1>. QED
  BY <1>3, <1>4, <1>5, <1>6, <1>8, <1>9, <1>10, <1>11, <1>12, <1>13, <1>14, <1>15, <1>16, <1>17
     DEF Next, Advance, MapMisuse, UnmapMisuse, CloseMisuse

\* A process stays careful or careless; misused memory and slots that were left
\* half undone stay so.
LEMMA FlagsStep ==
  ASSUME [Next]_vars
  PROVE  careful' = careful /\ (bad => bad') /\ Broken \subseteq Broken'
<1>1. bad' = bad \/ bad' = TRUE
  BY DEF Next, vars, slotVars, Misuse, CloseFd, MapGet, MapFailPut, MapAttach,
       MapFailDetach, MapTable, MapZero, MapLeak, MapAdd, MapCopy, MapCopyFail, MapMisuse,
       UnmapFind, UnmapTable, UnmapAbort, UnmapZero, UnmapFlush, UnmapStuck, UnmapDel,
       UnmapDetach, UnmapMisuse, CloseStart, CloseDone, CloseSkip, CloseEntry, CloseStuck,
       CloseMisuse
<1>2. careful' = careful /\ Broken \subseteq Broken'
  BY DEF Broken, Next, vars, slotVars, Misuse, CloseFd, MapGet, MapFailPut, MapAttach,
       MapFailDetach, MapTable, MapZero, MapLeak, MapAdd, MapCopy, MapCopyFail, MapMisuse,
       UnmapFind, UnmapTable, UnmapAbort, UnmapZero, UnmapFlush, UnmapStuck, UnmapDel,
       UnmapDetach, UnmapMisuse, CloseStart, CloseDone, CloseSkip, CloseEntry, CloseStuck,
       CloseMisuse
<1>. QED
  BY <1>1, <1>2

\* A careful process misuses memory only when a slot was left half undone:
\* every use of an entry and of an attachment finds it there otherwise.
LEMMA MisuseStep ==
  ASSUME IInv, [Next]_vars
  PROVE  MisuseExplained'
<1> USE DEF IInv, CarefulInv
<1>1. ASSUME UNCHANGED <<careful, bad>>, Broken \subseteq Broken' PROVE MisuseExplained'
  BY <1>1 DEF MisuseExplained
<1>2. careful' = careful /\ Broken \subseteq Broken'
  BY FlagsStep
<1>3. CASE bad' = bad
  BY <1>1, <1>2, <1>3
<1>4. ASSUME NEW t \in Thread, MapMisuse(t), careful, ~bad PROVE FALSE
  BY <1>4 DEF MapMisuse, StepInv, StepOf, Usable
<1>5. ASSUME NEW t \in Thread, UnmapMisuse(t), careful, ~bad PROVE Broken # {}
  BY <1>5 DEF UnmapMisuse, StepInv, StepOf
<1>6. ASSUME NEW s \in Slot, CloseMisuse(s), careful, ~bad PROVE Broken # {}
  <2>1. s \in Hashed /\ ~Usable(s) /\ \A t \in Thread : th[t].pc = "idle"
    BY <1>6 DEF CloseMisuse, ClosingInv
  <2>. QED
    BY <1>6, <2>1 DEF EntryInv, UnmapPcs
<1>7. \/ bad' = bad
      \/ \E t \in Thread : MapMisuse(t) \/ UnmapMisuse(t)
      \/ \E s \in Slot : CloseMisuse(s)
  BY DEF Next, vars, slotVars, CloseFd, MapGet, MapFailPut, MapAttach,
       MapFailDetach, MapTable, MapZero, MapLeak, MapAdd, MapCopy, MapCopyFail,
       UnmapFind, UnmapTable, UnmapAbort, UnmapZero, UnmapFlush, UnmapStuck, UnmapDel,
       UnmapDetach, CloseStart, CloseDone, CloseSkip, CloseEntry, CloseStuck
<1>. QED
  BY <1>2, <1>3, <1>4, <1>5, <1>6, <1>7 DEF MisuseExplained

-----------------------------------------------------------------------------
(* Theorems *)

\* The initial state satisfies the inductive invariant.
LEMMA InvInit == Init => IInv
<1> SUFFICES ASSUME Init PROVE IInv
  OBVIOUS
<1>1. \A t \in Thread : th[t].pc = "idle" /\ th[t].slot = None
  BY DEF Init, Idle
<1>2. \A b \in Buf : Holders(b) = {}
  BY <1>1 DEF Init, Holders
<1>3. RefAccounting /\ FdRefInv
  BY <1>2, FS_EmptySet DEF Init, RefAccounting, FdRefInv
<1>4. FreedInv /\ ClosingInv
  BY <1>1 DEF Init, FreedInv, ClosingInv
<1>5. CarefulInv
  BY <1>1 DEF Init, CarefulInv, ApartInv, StepInv, StepOf, EntryInv, ZeroInv, MisuseExplained,
       Hashed, UnmapPcs
<1>. QED
  BY <1>3, <1>4, <1>5, TypeInit, PhaseInit DEF IInv

\* Every step keeps it.
LEMMA InvStep == IInv /\ [Next]_vars => IInv'
<1> SUFFICES ASSUME IInv, [Next]_vars PROVE IInv'
  OBVIOUS
<1>1. ZeroInv' /\ MisuseExplained' /\ careful' = careful /\ (bad => bad')
  BY ZeroStep, MisuseStep, FlagsStep
<1>2. CASE careful /\ ~bad'
  BY <1>1, <1>2, CarefulStep, TypeStep, PhaseStep, AccountingStep, FreedStep, ClosingStep
     DEF IInv, CarefulInv
<1>3. CASE ~(careful /\ ~bad')
  <2>1. ApartInv' /\ StepInv' /\ EntryInv'
    BY <1>1, <1>3 DEF ApartInv, StepInv, EntryInv
  <2>. QED
    BY <1>1, <2>1, TypeStep, PhaseStep, AccountingStep, FreedStep, ClosingStep
       DEF IInv, CarefulInv
<1>. QED
  BY <1>2, <1>3

\* The inductive invariant holds in every reachable state.
THEOREM Invariance == Spec => []IInv
BY InvInit, InvStep, PTL DEF Spec

\* Every variable keeps its type, and each dma-buf has exactly the references of
\* its attachments, of the map calls about to attach it, and of the process's
\* descriptor: no path of kiumd_dmabuf_vfio_map, kiumd_dmabuf_vfio_unmap or
\* kiumd_close gets or puts one too many before memory is misused.
THEOREM MapInvHolds == Spec => []MapInv
<1>1. IInv => MapInv
  BY DEF IInv, MapInv
<1>. QED
  BY <1>1, Invariance, PTL

\* A process that unmaps each id once, after map returned it, loses memory
\* safety only after a copy_to_user that failed in kiumd_dmabuf_vfio_map or an
\* unmap that gave up half way.
THEOREM MisuseExplainedHolds == Spec => []MisuseExplained
<1>1. IInv => MisuseExplained
  BY DEF IInv, CarefulInv
<1>. QED
  BY <1>1, Invariance, PTL

\* Every entry kiumd_dmabuf_vfio_unmap or kiumd_close can find has its attachment,
\* a mapped table and a reference of the buffer, and so have the pages at IOVA 0.
THEOREM EntryLiveHolds == Spec => []EntryLive
<1>1. ASSUME IInv PROVE EntryUsable
  <2>1. ASSUME NEW s \in Slot, Usable(s), ~bad PROVE refs[buf[s]] >= 1
    BY <1>1, <2>1, HolderOf, HolderCounts DEF IInv, Usable
  <2>. QED
    BY <1>1, <2>1 DEF IInv, CarefulInv, EntryInv, EntryUsable, Hashed
<1>2. ASSUME IInv PROVE ZeroPinned
  <2>1. ASSUME careful, ~bad, zeroAt # None, zeroAt \notin copyFailed
        PROVE  att[zeroAt] = "attached" /\ zeroAt \in Slot
    BY <1>2, <2>1 DEF IInv, CarefulInv, ZeroInv, TypeOK
  <2>. QED
    BY <1>2, <2>1, HolderOf, HolderCounts DEF IInv, ZeroPinned
<1>3. IInv => EntryLive
  BY <1>1, <1>2 DEF EntryLive
<1>. QED
  BY <1>3, Invariance, PTL

\* After kiumd_close the attachments that are left belong to entries it passes
\* over, to map calls that returned an error without undoing theirs, and to
\* entries that were half undone.
THEOREM LeftByCloseHolds == Spec => []LeftByClose
<1>1. ASSUME IInv, ctx = "closed", ~bad, NEW s \in Slot, att[s] = "attached"
      PROVE  mode[s] \in Skipped \/ s \in Orphans \/ s \in stuck
  <2>1. CASE smap[s] = "none"
    BY <1>1, <2>1 DEF Orphans
  <2>2. CASE smap[s] = "hashed"
    BY <1>1, <2>2 DEF IInv, ClosingInv, Hashed
  <2>3. CASE smap[s] = "freed"
    BY <1>1, <2>3 DEF IInv, ClosingInv, FreedInv
  <2>. QED
    BY <1>1, <2>1, <2>2, <2>3 DEF IInv, TypeOK
<1>2. IInv => LeftByClose
  BY <1>1 DEF LeftByClose
<1>. QED
  BY <1>2, Invariance, PTL

=============================================================================
