------------------------ MODULE KiumdSecureMapProofs ------------------------
(***************************************************************************)
(* Proofs about KiumdSecureMap, for any number of buffers, segments,         *)
(* devices, virtual machines and calls.                                      *)
(***************************************************************************)
EXTENDS KiumdSecureMap, FiniteSetTheorems, TLAPS

-----------------------------------------------------------------------------
(* The inductive invariant *)

\* Call k has segment i of its buffer from this kernel and has not given up on
\* taking it back.
Holds(k, i) ==
    \/ call[k].pc \in {"map", "add", "copy", "mapped"}
    \/ call[k].pc = "assign" /\ i < call[k].seg
    \/ call[k].pc \in {"undoSegment", "unassign"} /\ i >= call[k].seg

\* Call k may have left segments with its machines.
LeftSome(k) == k \in partial \/ (k \in att /\ call[k].pc \in {"stuck", "failed", "faulted"})

\* What a call holds belongs to its machines; no two calls hold one segment; and
\* no segment is away without a call that holds it or gave up on it.
SegmentInv ==
    /\ \A k \in Call, i \in Segment : Holds(k, i) => owner[B(k)][i] = call[k].vms
    /\ \A j, k \in Call, i \in Segment :
          Holds(j, i) /\ Holds(k, i) /\ B(j) = B(k) => j = k
    /\ \A b \in Buf, i \in Segment : owner[b][i] # {Hlos} =>
          \E k \in Call : B(k) = b /\ (Holds(k, i) \/ LeftSome(k))

\* Program counters of a call that has lent the page table of its device and
\* has not given up on it.
LentPcs == {"assign", "map", "add", "copy", "undoSegment", "undoPage", "mapped",
            "unassign", "unpage"}

\* The same for the page table of a device.
PageInv ==
    /\ \A k \in Call : call[k].pc \in LentPcs => pgd[call[k].dev] = {Hlos} \cup call[k].vms
    /\ \A j, k \in Call :
          call[j].pc \in LentPcs /\ call[k].pc \in LentPcs /\ call[j].dev = call[k].dev => j = k
    /\ PageReturned

\* Program counters of a call that has no attachment.
Detached == {"new", "acl", "del", "done"}

\* The parameters of a call and what it has at each program counter.
CallOf(k) ==
    /\ call[k].pc = "new" => call[k] = NewCall /\ k \notin partial
    /\ call[k].pc # "new" => call[k].buf \in Buf /\ call[k].dev \in Dev /\ call[k].vms # {}
    /\ call[k].pc \notin {"assign", "undoSegment", "unassign"} => call[k].seg = 1
    /\ call[k].pc \in Detached => k \notin att
    /\ call[k].pc \notin Detached \cup {"failed"} => k \in att
    /\ k \in leaked => call[k].pc = "failed" /\ k \notin att

CallInv == \A k \in Call : CallOf(k)

IInv == TypeOK /\ CallInv /\ SegmentInv /\ PageInv /\ RefAccounting /\ EntryAttached

-----------------------------------------------------------------------------
(* What a step of a call changes *)

CallType == [pc : Rest \cup Running, buf : Buf \cup {None}, dev : Dev \cup {None},
             vms : SUBSET Vm, seg : Segment]

\* What the helpers that move a call on do to it.
LEMMA GotoFrame ==
  ASSUME TypeOK, NEW k \in Call, NEW pc \in Rest \cup Running, Goto(k, pc)
  PROVE  /\ call' \in [Call -> CallType]
         /\ call'[k].pc = pc /\ call'[k].seg = call[k].seg
         /\ call'[k].buf = call[k].buf /\ call'[k].dev = call[k].dev /\ call'[k].vms = call[k].vms
         /\ \A j \in Call : j # k => call'[j] = call[j]
<1>1. call \in [Call -> CallType]
  BY DEF TypeOK, CallType
<1>. QED
  BY <1>1 DEF Goto, CallType

\* The segments are given up: the call starts over with the first.
LEMMA SegmentsFailedFrame ==
  ASSUME TypeOK, NEW k \in Call, NEW pc \in Rest \cup Running, SegmentsFailed(k, pc)
  PROVE  /\ call' \in [Call -> CallType]
         /\ call'[k].pc = pc /\ call'[k].seg = 1
         /\ call'[k].buf = call[k].buf /\ call'[k].dev = call[k].dev /\ call'[k].vms = call[k].vms
         /\ \A j \in Call : j # k => call'[j] = call[j]
<1>1. call \in [Call -> CallType] /\ 1 \in Segment
  BY SecureAssumption DEF TypeOK, CallType, Segment
<1>. QED
  BY <1>1 DEF SegmentsFailed, CallType

\* A segment is done: the call goes on to the next one, or leaves the loop.
LEMMA SegmentDoneFrame ==
  ASSUME TypeOK, NEW k \in Call, NEW pc \in Rest \cup Running, SegmentDone(k, pc)
  PROVE  /\ call' \in [Call -> CallType]
         /\ IF call[k].seg = Segments
               THEN call'[k].pc = pc /\ call'[k].seg = 1
               ELSE call'[k].pc = call[k].pc /\ call'[k].seg = call[k].seg + 1
         /\ call'[k].buf = call[k].buf /\ call'[k].dev = call[k].dev /\ call'[k].vms = call[k].vms
         /\ \A j \in Call : j # k => call'[j] = call[j]
<1>1. call \in [Call -> CallType] /\ 1 \in Segment
  BY SecureAssumption DEF TypeOK, CallType, Segment
<1>2. CASE call[k].seg = Segments
  BY <1>1, <1>2 DEF SegmentDone, CallType
<1>3. CASE call[k].seg # Segments
  <2>1. call[k].seg \in Segment /\ call[k].seg + 1 \in Segment
    BY <1>1, <1>3, SecureAssumption DEF CallType, Segment
  <2>2. call' = [call EXCEPT ![k].seg = @ + 1]
    BY <1>3 DEF SegmentDone
  <2>. QED
    BY <1>1, <1>3, <2>1, <2>2 DEF CallType
<1>. QED
  BY <1>2, <1>3

\* The steps of a call that was made, by what they do to its progress.
Moves(k) ==
    \/ MapFailAcl(k) \/ MapAttach(k) \/ MapPage(k) \/ MapPageFail(k)
    \/ MapTable(k) \/ MapTableFail(k) \/ MapLeak(k) \/ MapAdd(k) \/ MapReturn(k) \/ MapCopyFail(k)
    \/ UndoPage(k) \/ UndoPageFail(k) \/ UndoDetach(k)
    \/ UnmapTable(k) \/ UnmapPage(k) \/ UnmapPageFail(k) \/ UnmapDetach(k) \/ UnmapDel(k)

Segmentwise(k) == MapSegment(k) \/ UndoSegment(k) \/ UnmapSegment(k)

GivesUp(k) == MapSegmentFail(k) \/ UndoSegmentFail(k) \/ UnmapSegmentFail(k)

Step(k) == Moves(k) \/ Segmentwise(k) \/ GivesUp(k)

\* A step changes no other call and leaves the parameters of its own.
LEMMA StepFrame ==
  ASSUME TypeOK, NEW k \in Call, Step(k)
  PROVE  /\ call' \in [Call -> CallType] /\ call[k].pc # "new" /\ call'[k].pc # "new"
         /\ call'[k].buf = call[k].buf /\ call'[k].dev = call[k].dev /\ call'[k].vms = call[k].vms
         /\ \A j \in Call : j # k => call'[j] = call[j]
         /\ \A j \in Call : j # k =>
               /\ j \in att' <=> j \in att
               /\ j \in hashed' <=> j \in hashed
               /\ j \in partial' <=> j \in partial
               /\ j \in leaked' <=> j \in leaked
         /\ partial \subseteq partial' /\ leaked \subseteq leaked'
         /\ UNCHANGED <<userFd, ctx>>
<1>1. CASE Moves(k)
  <2>1. \E pc \in (Rest \cup Running) \ {"new"} : Goto(k, pc)
    BY <1>1 DEF Moves, Rest, Running, MapFailAcl, MapAttach, MapPage, MapPageFail, MapTable,
         MapTableFail, MapLeak, MapAdd, MapReturn, MapCopyFail, UndoPage, UndoPageFail,
         UndoDetach, UnmapTable, UnmapPage, UnmapPageFail, UnmapDetach, UnmapDel
  <2>2. /\ call[k].pc # "new" /\ UNCHANGED <<userFd, ctx>>
        /\ att' \in {att, att \cup {k}, att \ {k}}
        /\ hashed' \in {hashed, hashed \cup {k}, hashed \ {k}}
        /\ partial' \in {partial, partial \cup {k}} /\ leaked' \in {leaked, leaked \cup {k}}
    BY <1>1 DEF Moves, At, DetachAndPut, MapFailAcl, MapAttach, MapPage, MapPageFail, MapTable,
         MapTableFail, MapLeak, MapAdd, MapReturn, MapCopyFail, UndoPage, UndoPageFail,
         UndoDetach, UnmapTable, UnmapPage, UnmapPageFail, UnmapDetach, UnmapDel
  <2>3. PICK pc \in (Rest \cup Running) \ {"new"} : Goto(k, pc)
    BY <2>1
  <2>4. /\ call' \in [Call -> CallType] /\ call'[k].pc # "new"
        /\ call'[k].buf = call[k].buf /\ call'[k].dev = call[k].dev /\ call'[k].vms = call[k].vms
        /\ \A j \in Call : j # k => call'[j] = call[j]
    BY <2>3, GotoFrame
  <2>. QED
    BY <2>2, <2>4
<1>2. CASE Segmentwise(k)
  <2>1. \E pc \in {"map", "undoPage", "unpage"} : SegmentDone(k, pc)
    BY <1>2 DEF Segmentwise, MapSegment, UndoSegment, UnmapSegment
  <2>2. call[k].pc # "new" /\ UNCHANGED <<userFd, att, hashed, partial, leaked, ctx>>
    BY <1>2 DEF Segmentwise, At, MapSegment, UndoSegment, UnmapSegment
  <2>3. PICK pc \in {"map", "undoPage", "unpage"} : SegmentDone(k, pc)
    BY <2>1
  <2>4. pc \in Rest \cup Running
    BY DEF Rest, Running
  <2>. QED
    BY <2>2, <2>3, <2>4, SegmentDoneFrame
<1>3. CASE GivesUp(k)
  <2>1. \E pc \in {"undoPage", "stuck"} : SegmentsFailed(k, pc)
    BY <1>3 DEF GivesUp, MapSegmentFail, UndoSegmentFail, UnmapSegmentFail
  <2>2. /\ call[k].pc # "new" /\ UNCHANGED <<userFd, att, hashed, leaked, ctx>>
        /\ partial' \in {partial, partial \cup {k}}
    BY <1>3 DEF GivesUp, At, MapSegmentFail, UndoSegmentFail, UnmapSegmentFail
  <2>3. PICK pc \in {"undoPage", "stuck"} : SegmentsFailed(k, pc)
    BY <2>1
  <2>4. pc \in Rest \cup Running
    BY DEF Rest, Running
  <2>. QED
    BY <2>2, <2>3, <2>4, SegmentsFailedFrame
<1>. QED
  BY <1>1, <1>2, <1>3 DEF Step

-----------------------------------------------------------------------------
(* Types, parameters and references *)

\* The calls RefAccounting counts for buffer b.
AttOf(b) == {k \in att : B(k) = b}
AclOf(b) == {k \in Call : B(k) = b /\ call[k].pc = "acl"}
LeakOf(b) == {k \in leaked : B(k) = b}

\* They are finitely many.
LEMMA Counts ==
  ASSUME TypeOK, NEW b \in Buf
  PROVE  /\ IsFiniteSet(AttOf(b)) /\ Cardinality(AttOf(b)) \in Nat
         /\ IsFiniteSet(AclOf(b)) /\ Cardinality(AclOf(b)) \in Nat
         /\ IsFiniteSet(LeakOf(b)) /\ Cardinality(LeakOf(b)) \in Nat
<1>1. AttOf(b) \subseteq Call /\ AclOf(b) \subseteq Call /\ LeakOf(b) \subseteq Call
  BY DEF TypeOK, AttOf, AclOf, LeakOf
<1>. QED
  BY <1>1, SecureAssumption, FS_Subset, FS_CardinalityType

\* An attachment, and the process's descriptor, keep the count of a buffer positive.
LEMMA RefPositive ==
  ASSUME TypeOK, RefAccounting, NEW b \in Buf, b \in userFd \/ AttOf(b) # {}
  PROVE  refs[b] >= 1
<1>1. refs[b] = (IF b \in userFd THEN 1 ELSE 0) + Cardinality(AttOf(b))
                   + Cardinality(AclOf(b)) + Cardinality(LeakOf(b))
  BY DEF RefAccounting, AttOf, AclOf, LeakOf
<1>2. AttOf(b) # {} => Cardinality(AttOf(b)) # 0
  BY Counts, FS_EmptySet
<1>. QED
  BY <1>1, <1>2, Counts

\* Every step keeps the types.
LEMMA TypeStep ==
  ASSUME IInv, [Next]_vars
  PROVE  TypeOK'
<1> USE DEF IInv
<1>1. ASSUME NEW k \in Call, call[k].pc # "new"
      PROVE  /\ B(k) \in Buf /\ call[k].dev \in Dev /\ call[k].vms \in SUBSET Vm
             /\ call[k].seg \in Segment
  BY <1>1 DEF CallInv, CallOf, B, TypeOK
<1>2. ASSUME NEW k \in Call, Step(k) PROVE TypeOK'
  <2>1. call' \in [Call -> CallType] /\ UNCHANGED <<userFd, ctx>> /\ call[k].pc # "new"
    BY <1>2, StepFrame
  <2>2. owner' \in [Buf -> [Segment -> SUBSET (Vm \cup {Hlos})]]
    <3>1. CASE UNCHANGED owner
      BY <3>1 DEF TypeOK
    <3>2. CASE HandOver(k) \/ TakeBack(k)
      <4>1. \E o \in SUBSET (Vm \cup {Hlos}) : owner' = [owner EXCEPT ![B(k)][call[k].seg] = o]
        BY <1>1, <2>1, <3>2 DEF HandOver, TakeBack
      <4>. QED
        BY <1>1, <2>1, <4>1 DEF TypeOK
    <3>. QED
      BY <1>2, <3>1, <3>2
         DEF Step, Moves, Segmentwise, GivesUp, MapFailAcl, MapAttach, MapPage, MapPageFail,
             MapSegment, MapSegmentFail, MapTable, MapTableFail, MapLeak, MapAdd, MapReturn,
             MapCopyFail, UndoSegment, UndoSegmentFail, UndoPage, UndoPageFail, UndoDetach,
             UnmapTable, UnmapSegment, UnmapSegmentFail, UnmapPage, UnmapPageFail, UnmapDetach,
             UnmapDel
  <2>3. pgd' \in [Dev -> SUBSET (Vm \cup {Hlos})]
    <3>1. CASE UNCHANGED pgd
      BY <3>1 DEF TypeOK
    <3>2. CASE LendPage(k) \/ ReturnPage(k)
      BY <1>1, <2>1, <3>2 DEF LendPage, ReturnPage, TypeOK
    <3>. QED
      BY <1>2, <3>1, <3>2
         DEF Step, Moves, Segmentwise, GivesUp, MapFailAcl, MapAttach, MapPage, MapPageFail,
             MapSegment, MapSegmentFail, MapTable, MapTableFail, MapLeak, MapAdd, MapReturn,
             MapCopyFail, UndoSegment, UndoSegmentFail, UndoPage, UndoPageFail, UndoDetach,
             UnmapTable, UnmapSegment, UnmapSegmentFail, UnmapPage, UnmapPageFail, UnmapDetach,
             UnmapDel
  <2>4. refs' \in [Buf -> Nat]
    <3>1. CASE UNCHANGED refs
      BY <3>1 DEF TypeOK
    <3>2. CASE UndoDetach(k) \/ UnmapDetach(k)
      <4>1. k \in AttOf(B(k)) /\ B(k) \in Buf
        BY <1>1, <2>1, <3>2
           DEF UndoDetach, UnmapDetach, At, CallInv, CallOf, Detached, AttOf
      <4>2. refs[B(k)] >= 1
        BY <4>1, RefPositive
      <4>. QED
        BY <3>2, <4>1, <4>2 DEF UndoDetach, UnmapDetach, DetachAndPut, TypeOK
    <3>. QED
      BY <1>2, <3>1, <3>2
         DEF Step, Moves, Segmentwise, GivesUp, MapFailAcl, MapAttach, MapPage, MapPageFail,
             MapSegment, MapSegmentFail, MapTable, MapTableFail, MapLeak, MapAdd, MapReturn,
             MapCopyFail, UndoSegment, UndoSegmentFail, UndoPage, UndoPageFail,
             UnmapTable, UnmapSegment, UnmapSegmentFail, UnmapPage, UnmapPageFail,
             UnmapDel
  <2>5. /\ att' \in SUBSET Call /\ hashed' \in SUBSET Call
        /\ partial' \in SUBSET Call /\ leaked' \in SUBSET Call
    BY <1>2 DEF TypeOK, DetachAndPut,
             Step, Moves, Segmentwise, GivesUp, MapFailAcl, MapAttach, MapPage, MapPageFail,
             MapSegment, MapSegmentFail, MapTable, MapTableFail, MapLeak, MapAdd, MapReturn,
             MapCopyFail, UndoSegment, UndoSegmentFail, UndoPage, UndoPageFail, UndoDetach,
             UnmapTable, UnmapSegment, UnmapSegmentFail, UnmapPage, UnmapPageFail, UnmapDetach,
             UnmapDel
  <2>. QED
    BY <2>1, <2>2, <2>3, <2>4, <2>5 DEF TypeOK, CallType
<1>3. ASSUME NEW b \in Buf, CloseFd(b) PROVE TypeOK'
  <2>1. refs[b] >= 1
    BY <1>3, RefPositive DEF CloseFd
  <2>2. refs' \in [Buf -> Nat]
    BY <1>3, <2>1 DEF CloseFd, TypeOK
  <2>. QED
    BY <1>3, <2>2 DEF CloseFd, TypeOK
<1>4. ASSUME NEW k \in Call, NEW b \in Buf, NEW d \in Dev, NEW vs \in (SUBSET Vm) \ {{}},
             MapGet(k, b, d, vs)
      PROVE  TypeOK'
  <2>1. [pc |-> "acl", buf |-> b, dev |-> d, vms |-> vs, seg |-> 1] \in CallType
    BY SecureAssumption DEF CallType, Running, Segment
  <2>2. call' \in [Call -> CallType]
    BY <1>4, <2>1 DEF MapGet, TypeOK, CallType
  <2>. QED
    BY <1>4, <2>2 DEF MapGet, TypeOK, CallType
<1>5. CASE CloseDone \/ CloseFault \/ UNCHANGED vars
  BY <1>5 DEF CloseDone, CloseFault, vars, TypeOK
<1>. QED
  BY <1>2, <1>3, <1>4, <1>5 DEF Next, Step, Moves, Segmentwise, GivesUp

\* Every step keeps the parameters and the attachment each call counts on.
LEMMA CallStep ==
  ASSUME IInv, [Next]_vars
  PROVE  CallInv'
<1> USE DEF IInv
<1>1. ASSUME NEW k \in Call, Step(k) PROVE CallInv'
  <2>1. CallOf(k)'
    <3>1. CallOf(k)
      BY DEF CallInv
    <3>2. CASE Moves(k)
      <4>1. CASE MapFailAcl(k) \/ MapAttach(k) \/ MapPage(k) \/ MapPageFail(k) \/ MapTable(k)
                   \/ MapTableFail(k) \/ MapLeak(k) \/ MapAdd(k) \/ MapReturn(k)
        BY <3>1, <4>1, GotoFrame
           DEF CallOf, At, Detached, Rest, Running, MapFailAcl, MapAttach, MapPage, MapPageFail,
               MapTable, MapTableFail, MapLeak, MapAdd, MapReturn
      <4>2. CASE MapCopyFail(k) \/ UndoPage(k) \/ UndoPageFail(k) \/ UndoDetach(k)
                   \/ UnmapTable(k) \/ UnmapPage(k) \/ UnmapPageFail(k)
                   \/ UnmapDetach(k) \/ UnmapDel(k)
        BY <3>1, <4>2, GotoFrame
           DEF CallOf, At, Detached, DetachAndPut, Rest, Running, MapCopyFail, UndoPage,
               UndoPageFail, UndoDetach, UnmapTable, UnmapPage, UnmapPageFail, UnmapDetach, UnmapDel
      <4>. QED
        BY <3>2, <4>1, <4>2 DEF Moves
    <3>3. CASE Segmentwise(k)
      BY <3>1, <3>3, SegmentDoneFrame
         DEF CallOf, At, Detached, Rest, Running, Segmentwise, MapSegment, UndoSegment, UnmapSegment
    <3>4. CASE GivesUp(k)
      BY <3>1, <3>4, SegmentsFailedFrame
         DEF CallOf, At, Detached, Rest, Running, GivesUp, MapSegmentFail, UndoSegmentFail,
             UnmapSegmentFail
    <3>. QED
      BY <1>1, <3>2, <3>3, <3>4 DEF Step
  <2>2. ASSUME NEW j \in Call, j # k PROVE CallOf(j)'
    BY <1>1, <2>2, StepFrame DEF CallInv, CallOf
  <2>. QED
    BY <2>1, <2>2 DEF CallInv
<1>2. ASSUME NEW k \in Call, NEW b \in Buf, NEW d \in Dev, NEW vs \in (SUBSET Vm) \ {{}},
             MapGet(k, b, d, vs)
      PROVE  CallInv'
  <2>1. /\ call'[k] = [pc |-> "acl", buf |-> b, dev |-> d, vms |-> vs, seg |-> 1]
        /\ \A j \in Call : j # k => call'[j] = call[j]
        /\ UNCHANGED <<att, partial, leaked>>
    BY <1>2 DEF MapGet, TypeOK
  <2>2. k \notin att /\ k \notin leaked
    BY <1>2 DEF MapGet, At, CallInv, CallOf, Detached
  <2>3. CallOf(k)'
    <3>1. call'[k].pc = "acl" /\ call'[k].buf = b /\ call'[k].dev = d /\ call'[k].vms = vs
      BY <2>1
    <3>2. call'[k].seg = 1 /\ vs # {}
      BY <2>1
    <3>. QED
      BY <2>1, <2>2, <3>1, <3>2 DEF CallOf, Detached
  <2>4. ASSUME NEW j \in Call, j # k PROVE CallOf(j)'
    BY <2>1, <2>4 DEF CallInv, CallOf
  <2>. QED
    BY <2>3, <2>4 DEF CallInv
<1>3. CASE UNCHANGED <<call, att, partial, leaked>>
  BY <1>3 DEF CallInv, CallOf
<1>4. ASSUME NEW b \in Buf, CloseFd(b) PROVE CallInv'
  BY <1>3, <1>4 DEF CloseFd
<1>. QED
  BY <1>1, <1>2, <1>3, <1>4
     DEF Next, Step, Moves, Segmentwise, GivesUp, CloseDone, CloseFault, vars

-----------------------------------------------------------------------------
(* Segments and page tables *)

\* A call that keeps or gives up the segments it holds disturbs no other.
LEMMA KeepSegments ==
  ASSUME IInv, NEW k \in Call, Step(k), UNCHANGED owner,
         \A i \in Segment : Holds(k, i)' => Holds(k, i),
         \A i \in Segment : Holds(k, i) \/ LeftSome(k) => Holds(k, i)' \/ LeftSome(k)'
  PROVE  SegmentInv'
<1> USE DEF IInv
<1>1. /\ call'[k].buf = call[k].buf /\ call'[k].vms = call[k].vms
      /\ \A j \in Call : B(j)' = B(j) /\ call'[j].vms = call[j].vms
      /\ \A j \in Call, i \in Segment : j # k => (Holds(j, i)' <=> Holds(j, i))
      /\ \A j \in Call : j # k => (LeftSome(j)' <=> LeftSome(j))
  BY StepFrame DEF B, Holds, LeftSome
<1>2. \A j \in Call, i \in Segment : Holds(j, i)' => Holds(j, i)
  BY <1>1
<1>3. \A j \in Call, i \in Segment : Holds(j, i) \/ LeftSome(j) => Holds(j, i)' \/ LeftSome(j)'
  BY <1>1
<1>4. \A j \in Call, i \in Segment : Holds(j, i)' => (owner[B(j)][i])' = (call[j].vms)'
  BY <1>1, <1>2 DEF SegmentInv
<1>5. \A i, j \in Call, n \in Segment :
         Holds(i, n)' /\ Holds(j, n)' /\ B(i)' = B(j)' => i = j
  BY <1>1, <1>2 DEF SegmentInv
<1>6. ASSUME NEW b \in Buf, NEW i \in Segment, owner[b][i] # {Hlos}
      PROVE  \E j \in Call : B(j)' = b /\ (Holds(j, i)' \/ LeftSome(j)')
  <2>1. PICK j \in Call : B(j) = b /\ (Holds(j, i) \/ LeftSome(j))
    BY <1>6 DEF SegmentInv
  <2>. QED
    BY <1>1, <1>3, <2>1
<1>. QED
  BY <1>4, <1>5, <1>6 DEF SegmentInv

\* A segment is handed over, or taken back.
LEMMA MoveSegment ==
  ASSUME IInv, NEW k \in Call, Segmentwise(k)
  PROVE  SegmentInv'
<1> USE DEF IInv
<1> DEFINE s == call[k].seg
<1>1. /\ B(k) \in Buf /\ s \in Segment /\ call[k].vms \in SUBSET Vm /\ call[k].vms # {}
      /\ call[k].vms # {Hlos}
  BY SecureAssumption
     DEF Segmentwise, MapSegment, UndoSegment, UnmapSegment, At, CallInv, CallOf, B, TypeOK
<1>2. /\ \A j \in Call : B(j)' = B(j) /\ call'[j].vms = call[j].vms
      /\ \A j \in Call, i \in Segment : j # k => (Holds(j, i)' <=> Holds(j, i))
      /\ \A j \in Call : j # k => (LeftSome(j)' <=> LeftSome(j))
  BY StepFrame DEF B, Holds, LeftSome, Step
<1>3. \A b \in Buf, i \in Segment : ~(b = B(k) /\ i = s) => owner'[b][i] = owner[b][i]
  BY <1>1 DEF Segmentwise, MapSegment, UndoSegment, UnmapSegment, HandOver, TakeBack, TypeOK
<1>4. /\ UNCHANGED <<att, partial>>
      /\ ~(k \in att /\ call[k].pc \in {"stuck", "failed", "faulted"})
  BY DEF Segmentwise, MapSegment, UndoSegment, UnmapSegment, At
<1>5. LeftSome(k) => LeftSome(k)'
  BY <1>4 DEF LeftSome
<1>6. CASE MapSegment(k)
  <2>1. \A i \in Segment : Holds(k, i)' <=> Holds(k, i) \/ i = s
    BY <1>1, <1>6, SegmentDoneFrame, SecureAssumption
       DEF MapSegment, At, Holds, Rest, Running, Segment
  <2>2. owner[B(k)][s] = {Hlos} /\ owner'[B(k)][s] = call[k].vms
    BY <1>1, <1>6 DEF MapSegment, HandOver, CurrentSegment, TypeOK
  <2>3. ASSUME NEW j \in Call, j # k, Holds(j, s) PROVE B(j) # B(k)
    <3>1. owner[B(j)][s] = call[j].vms /\ call[j].vms \in SUBSET Vm
      BY <1>1, <2>3 DEF SegmentInv, TypeOK
    <3>. QED
      BY <2>2, <3>1, SecureAssumption
  <2>4. \A j \in Call, i \in Segment : Holds(j, i) => B(j) \in Buf
    BY DEF Holds, CallInv, CallOf, B
  <2>5. ASSUME NEW j \in Call, NEW i \in Segment, Holds(j, i)'
        PROVE  owner'[B(j)][i] = call[j].vms
    <3>1. CASE Holds(j, i)
      <4>1. owner[B(j)][i] = call[j].vms /\ B(j) \in Buf
        BY <2>4, <3>1 DEF SegmentInv
      <4>2. CASE B(j) = B(k) /\ i = s
        BY <2>2, <2>3, <3>1, <4>2
      <4>3. CASE ~(B(j) = B(k) /\ i = s)
        BY <1>3, <4>1, <4>3
      <4>. QED
        BY <4>2, <4>3
    <3>2. CASE ~Holds(j, i)
      BY <1>2, <2>1, <2>2, <2>5, <3>2
    <3>. QED
      BY <3>1, <3>2
  <2>6. ASSUME NEW i \in Call, NEW j \in Call, NEW n \in Segment,
               Holds(i, n)', Holds(j, n)', B(i) = B(j)
        PROVE  i = j
    BY <1>2, <2>1, <2>3, <2>6 DEF SegmentInv
  <2>7. ASSUME NEW b \in Buf, NEW i \in Segment, owner'[b][i] # {Hlos}
        PROVE  \E j \in Call : B(j) = b /\ (Holds(j, i)' \/ LeftSome(j)')
    <3>1. CASE b = B(k) /\ i = s
      BY <2>1, <3>1
    <3>2. CASE ~(b = B(k) /\ i = s)
      <4>1. PICK j \in Call : B(j) = b /\ (Holds(j, i) \/ LeftSome(j))
        BY <1>3, <2>7, <3>2 DEF SegmentInv
      <4>. QED
        BY <1>2, <1>5, <2>1, <4>1
    <3>. QED
      BY <3>1, <3>2
  <2>. QED
    BY <1>2, <2>5, <2>6, <2>7 DEF SegmentInv
<1>7. CASE UndoSegment(k) \/ UnmapSegment(k)
  <2>1. \A i \in Segment : Holds(k, i)' <=> Holds(k, i) /\ i # s
    <3>1. \E pc \in {"undoPage", "unpage"} :
             IF s = Segments THEN call'[k].pc = pc
                             ELSE call'[k].pc = call[k].pc /\ call'[k].seg = s + 1
      BY <1>7, SegmentDoneFrame DEF UndoSegment, UnmapSegment, Rest, Running
    <3>2. call[k].pc \in {"undoSegment", "unassign"}
      BY <1>7 DEF UndoSegment, UnmapSegment, At
    <3>3. ASSUME NEW i \in Segment PROVE Holds(k, i)' <=> Holds(k, i) /\ i # s
      <4>1. s \in Nat /\ i \in Nat /\ Segments \in Nat /\ i <= Segments
        BY <1>1, SecureAssumption DEF Segment
      <4>2. Holds(k, i) <=> i >= s
        BY <3>2 DEF Holds
      <4>3. CASE s = Segments
        <5>1. ~Holds(k, i)'
          BY <3>1, <4>3 DEF Holds
        <5>. QED
          BY <4>1, <4>2, <4>3, <5>1
      <4>4. CASE s # Segments
        <5>1. Holds(k, i)' <=> i >= s + 1
          BY <3>1, <3>2, <4>4 DEF Holds
        <5>. QED
          BY <4>1, <4>2, <5>1
      <4>. QED
        BY <4>3, <4>4
    <3>. QED
      BY <3>3
  <2>2. Holds(k, s) /\ owner'[B(k)][s] = {Hlos}
    <3>1. Holds(k, s)
      BY <1>1, <1>7, SecureAssumption DEF UndoSegment, UnmapSegment, At, Holds, Segment
    <3>2. owner' = [owner EXCEPT ![B(k)][s] = {Hlos}]
      BY <1>7 DEF UndoSegment, UnmapSegment, TakeBack
    <3>. QED
      BY <1>1, <3>1, <3>2 DEF TypeOK
  <2>3. ASSUME NEW j \in Call, NEW i \in Segment, Holds(j, i)'
        PROVE  owner'[B(j)][i] = call[j].vms
    <3>1. Holds(j, i) /\ B(j) \in Buf
      BY <1>2, <2>1, <2>3 DEF Holds, CallInv, CallOf, B
    <3>2. ~(B(j) = B(k) /\ i = s)
      BY <2>1, <2>2, <2>3, <3>1 DEF SegmentInv
    <3>. QED
      BY <1>3, <3>1, <3>2 DEF SegmentInv
  <2>4. ASSUME NEW i \in Call, NEW j \in Call, NEW n \in Segment,
               Holds(i, n)', Holds(j, n)', B(i) = B(j)
        PROVE  i = j
    BY <1>2, <2>1, <2>4 DEF SegmentInv
  <2>5. ASSUME NEW b \in Buf, NEW i \in Segment, owner'[b][i] # {Hlos}
        PROVE  \E j \in Call : B(j) = b /\ (Holds(j, i)' \/ LeftSome(j)')
    <3>1. ~(b = B(k) /\ i = s)
      BY <2>2, <2>5
    <3>2. PICK j \in Call : B(j) = b /\ (Holds(j, i) \/ LeftSome(j))
      BY <1>3, <2>5, <3>1 DEF SegmentInv
    <3>. QED
      BY <1>2, <1>5, <2>1, <3>1, <3>2
  <2>. QED
    BY <1>2, <2>3, <2>4, <2>5 DEF SegmentInv
<1>. QED
  BY <1>6, <1>7 DEF Segmentwise

\* Every step keeps the owners of the segments straight.
LEMMA SegmentStep ==
  ASSUME IInv, [Next]_vars
  PROVE  SegmentInv'
<1> USE DEF IInv
<1>1. ASSUME NEW k \in Call, Moves(k) PROVE SegmentInv'
  <2>1. UNCHANGED owner /\ partial \subseteq partial' /\ CallOf(k)
    BY <1>1 DEF CallInv, Moves, MapFailAcl, MapAttach, MapPage, MapPageFail, MapTable,
         MapTableFail, MapLeak, MapAdd, MapReturn, MapCopyFail, UndoPage, UndoPageFail,
         UndoDetach, UnmapTable, UnmapPage, UnmapPageFail, UnmapDetach, UnmapDel
  <2>2. \A i \in Segment : i >= 1 /\ ~(i < 1)
    BY DEF Segment
  <2>3. ASSUME NEW i \in Segment
        PROVE  /\ Holds(k, i)' => Holds(k, i)
               /\ Holds(k, i) \/ LeftSome(k) => Holds(k, i)' \/ LeftSome(k)'
    <3>1. CASE MapFailAcl(k) \/ MapAttach(k) \/ MapPage(k) \/ MapPageFail(k) \/ MapTable(k)
                 \/ MapTableFail(k) \/ MapLeak(k) \/ MapAdd(k) \/ MapReturn(k)
      BY <2>1, <2>2, <3>1, GotoFrame
         DEF CallOf, At, Detached, Rest, Running, Holds, LeftSome, MapFailAcl, MapAttach, MapPage,
             MapPageFail, MapTable, MapTableFail, MapLeak, MapAdd, MapReturn
    <3>2. CASE MapCopyFail(k) \/ UndoPage(k) \/ UndoPageFail(k) \/ UndoDetach(k)
                 \/ UnmapTable(k) \/ UnmapPage(k) \/ UnmapPageFail(k)
                 \/ UnmapDetach(k) \/ UnmapDel(k)
      BY <2>1, <2>2, <3>2, GotoFrame
         DEF CallOf, At, Detached, DetachAndPut, Rest, Running, Holds, LeftSome, MapCopyFail,
             UndoPage, UndoPageFail, UndoDetach, UnmapTable, UnmapPage, UnmapPageFail,
             UnmapDetach, UnmapDel
    <3>. QED
      BY <1>1, <3>1, <3>2 DEF Moves
  <2>. QED
    BY <1>1, <2>1, <2>3, KeepSegments DEF Step
<1>2. ASSUME NEW k \in Call, GivesUp(k) PROVE SegmentInv'
  <2>1. UNCHANGED <<owner, att>> /\ partial \subseteq partial' /\ CallOf(k)
        /\ call[k].seg \in Segment
    BY <1>2 DEF CallInv, TypeOK, GivesUp, MapSegmentFail, UndoSegmentFail, UnmapSegmentFail
  <2>2. /\ call[k].pc = "assign" /\ call[k].seg # 1 => k \in partial'
        /\ call[k].pc = "undoSegment" => k \in partial'
        /\ call[k].pc = "unassign" => call'[k].pc = "stuck"
        /\ call[k].pc \in {"assign", "undoSegment", "unassign"}
        /\ call'[k].pc \in {"undoPage", "stuck"}
    BY <1>2, <2>1, SegmentsFailedFrame
       DEF GivesUp, MapSegmentFail, UndoSegmentFail, UnmapSegmentFail, At, Rest, Running, Segment
  <2>3. ASSUME NEW i \in Segment
        PROVE  /\ Holds(k, i)' => Holds(k, i)
               /\ Holds(k, i) \/ LeftSome(k) => Holds(k, i)' \/ LeftSome(k)'
    BY <2>1, <2>2, SecureAssumption DEF CallOf, Detached, Holds, LeftSome, Segment
  <2>. QED
    BY <1>2, <2>1, <2>3, KeepSegments DEF Step
<1>3. ASSUME NEW k \in Call, NEW b \in Buf, NEW d \in Dev, NEW vs \in (SUBSET Vm) \ {{}},
             MapGet(k, b, d, vs)
      PROVE  SegmentInv'
  <2>1. /\ call[k].pc = "new" /\ call'[k].pc = "acl"
        /\ \A j \in Call : j # k => call'[j] = call[j]
        /\ UNCHANGED <<owner, att, partial>> /\ k \notin att /\ k \notin partial
    BY <1>3 DEF MapGet, At, CallInv, CallOf, Detached, TypeOK
  <2>2. ASSUME NEW j \in Call, NEW i \in Segment, Holds(j, i) \/ LeftSome(j) \/ Holds(j, i)'
        PROVE  j # k
    BY <2>1, <2>2 DEF Holds, LeftSome
  <2>3. ASSUME NEW j \in Call, j # k
        PROVE  /\ B(j)' = B(j) /\ call'[j].vms = call[j].vms /\ (LeftSome(j)' <=> LeftSome(j))
               /\ \A i \in Segment : Holds(j, i)' <=> Holds(j, i)
    BY <2>1, <2>3 DEF B, Holds, LeftSome
  <2>4. ASSUME NEW j \in Call, NEW i \in Segment, Holds(j, i)'
        PROVE  owner'[B(j)'][i] = call'[j].vms
    BY <2>1, <2>2, <2>3, <2>4 DEF SegmentInv
  <2>5. ASSUME NEW i \in Call, NEW j \in Call, NEW n \in Segment,
               Holds(i, n)', Holds(j, n)', B(i)' = B(j)'
        PROVE  i = j
    BY <2>2, <2>3, <2>5 DEF SegmentInv
  <2>6. ASSUME NEW c \in Buf, NEW i \in Segment, owner[c][i] # {Hlos}
        PROVE  \E j \in Call : B(j)' = c /\ (Holds(j, i)' \/ LeftSome(j)')
    <3>1. PICK j \in Call : B(j) = c /\ (Holds(j, i) \/ LeftSome(j))
      BY <2>6 DEF SegmentInv
    <3>. QED
      BY <2>2, <2>3, <3>1
  <2>. QED
    BY <2>1, <2>4, <2>5, <2>6 DEF SegmentInv
<1>4. CASE UNCHANGED <<owner, call, att, partial>>
  BY <1>4 DEF SegmentInv, Holds, LeftSome, B
<1>5. ASSUME NEW b \in Buf, CloseFd(b) PROVE SegmentInv'
  BY <1>4, <1>5 DEF CloseFd
<1>6. CASE CloseDone \/ CloseFault \/ UNCHANGED vars
  BY <1>4, <1>6 DEF CloseDone, CloseFault, vars
<1>. QED
  BY <1>1, <1>2, <1>3, <1>5, <1>6, MoveSegment DEF Next, Moves, Segmentwise, GivesUp

\* A call that has the page table of its device out, or gave up on it.
Borrows(k) ==
    \/ call[k].pc \in LentPcs \cup {"stuck", "faulted"}
    \/ call[k].pc = "failed" /\ k \in att
    \/ k \in partial

\* Borrowers, by what a call says of itself.
LEMMA BorrowersSays ==
  ASSUME NEW d \in Dev, NEW k \in Call
  PROVE  k \in Borrowers(d) <=> call[k].dev = d /\ Borrows(k)
BY DEF Borrowers, Borrows, LentPcs

\* A call that keeps the page table, or gives up on it, disturbs no other.
LEMMA KeepPage ==
  ASSUME IInv, NEW k \in Call, Step(k), UNCHANGED pgd,
         call'[k].pc \in LentPcs => call[k].pc \in LentPcs,
         Borrows(k) => Borrows(k)'
  PROVE  PageInv'
<1> USE DEF IInv
<1>1. /\ \A j \in Call : call'[j].dev = call[j].dev /\ call'[j].vms = call[j].vms
      /\ \A j \in Call : call'[j].pc \in LentPcs => call[j].pc \in LentPcs
      /\ \A j \in Call : Borrows(j) => Borrows(j)'
  BY StepFrame DEF Borrows
<1>2. \A j \in Call : call'[j].pc \in LentPcs => pgd'[call'[j].dev] = {Hlos} \cup call'[j].vms
  BY <1>1 DEF PageInv
<1>3. \A i, j \in Call : call'[i].pc \in LentPcs /\ call'[j].pc \in LentPcs
                            /\ call'[i].dev = call'[j].dev => i = j
  BY <1>1 DEF PageInv
<1>4. ASSUME NEW d \in Dev, pgd'[d] # {Hlos} PROVE Borrowers(d)' # {}
  <2>1. PICK j \in Call : j \in Borrowers(d)
    BY <1>4 DEF PageInv, PageReturned, Borrowers
  <2>2. call'[j].dev = d /\ Borrows(j)'
    BY <1>1, <2>1, BorrowersSays
  <2>. QED
    BY <2>2 DEF Borrowers, Borrows, LentPcs
<1>. QED
  BY <1>2, <1>3, <1>4 DEF PageInv, PageReturned

\* Every step keeps the page tables straight.
LEMMA PageStep ==
  ASSUME IInv, [Next]_vars
  PROVE  PageInv'
<1> USE DEF IInv
<1>1. ASSUME NEW k \in Call, MapPage(k) PROVE PageInv'
  <2> DEFINE d == call[k].dev
  <2>1. /\ call[k].pc = "page" /\ call'[k].pc = "assign" /\ d \in Dev
        /\ pgd[d] = {Hlos} /\ pgd'[d] = {Hlos} \cup call[k].vms
        /\ \A c \in Dev : c # d => pgd'[c] = pgd[c]
    BY <1>1, GotoFrame DEF MapPage, LendPage, At, CallInv, CallOf, Rest, Running, TypeOK
  <2>2. /\ \A j \in Call : call'[j].dev = call[j].dev /\ call'[j].vms = call[j].vms
        /\ \A j \in Call : j # k => call'[j] = call[j] /\ (Borrows(j) => Borrows(j)')
        /\ Borrows(k)'
    BY <1>1, <2>1, StepFrame DEF Step, Moves, Borrows, LentPcs
  <2>3. ASSUME NEW j \in Call, j # k, call[j].pc \in LentPcs
        PROVE  call[j].dev # d /\ call[j].dev \in Dev
    <3>1. pgd[call[j].dev] = {Hlos} \cup call[j].vms
      BY <2>3 DEF PageInv
    <3>2. call[j].vms \in SUBSET Vm /\ call[j].vms # {} /\ call[j].dev \in Dev
      BY <2>3 DEF CallInv, CallOf, LentPcs, TypeOK
    <3>. QED
      BY <2>1, <3>1, <3>2, SecureAssumption
  <2>4. ASSUME NEW j \in Call, call'[j].pc \in LentPcs
        PROVE  pgd'[call'[j].dev] = {Hlos} \cup call'[j].vms
    BY <2>1, <2>2, <2>3, <2>4 DEF PageInv
  <2>5. ASSUME NEW i \in Call, NEW j \in Call, call'[i].pc \in LentPcs, call'[j].pc \in LentPcs,
               call'[i].dev = call'[j].dev
        PROVE  i = j
    BY <2>2, <2>3, <2>5 DEF PageInv
  <2>6. ASSUME NEW c \in Dev, pgd'[c] # {Hlos} PROVE Borrowers(c)' # {}
    <3>1. \E j \in Call : call'[j].dev = c /\ Borrows(j)'
      <4>1. CASE c = d
        BY <2>2, <4>1
      <4>2. CASE c # d
        <5>1. PICK j \in Call : j \in Borrowers(c)
          BY <2>1, <2>6, <4>2 DEF PageInv, PageReturned, Borrowers
        <5>. QED
          BY <2>2, <4>2, <5>1, BorrowersSays
      <4>. QED
        BY <4>1, <4>2
    <3>. QED
      BY <3>1 DEF Borrowers, Borrows, LentPcs
  <2>. QED
    BY <2>4, <2>5, <2>6 DEF PageInv, PageReturned
<1>2. ASSUME NEW k \in Call, UndoPage(k) \/ UnmapPage(k) PROVE PageInv'
  <2> DEFINE d == call[k].dev
  <2>1. /\ call[k].pc \in LentPcs /\ call'[k].pc \notin LentPcs /\ d \in Dev
        /\ pgd'[d] = {Hlos} /\ \A c \in Dev : c # d => pgd'[c] = pgd[c]
    BY <1>2, GotoFrame
       DEF UndoPage, UnmapPage, ReturnPage, At, CallInv, CallOf, LentPcs, Rest, Running, TypeOK
  <2>2. /\ \A j \in Call : call'[j].dev = call[j].dev /\ call'[j].vms = call[j].vms
        /\ \A j \in Call : j # k => call'[j] = call[j] /\ (Borrows(j) => Borrows(j)')
    BY <1>2, StepFrame DEF Step, Moves, Borrows
  <2>3. ASSUME NEW j \in Call, j # k, call[j].pc \in LentPcs
        PROVE  call[j].dev # d /\ call[j].dev \in Dev
    BY <2>1, <2>3 DEF PageInv, CallInv, CallOf, LentPcs
  <2>4. ASSUME NEW j \in Call, call'[j].pc \in LentPcs
        PROVE  pgd'[call'[j].dev] = {Hlos} \cup call'[j].vms
    BY <2>1, <2>2, <2>3, <2>4 DEF PageInv
  <2>5. ASSUME NEW i \in Call, NEW j \in Call, call'[i].pc \in LentPcs, call'[j].pc \in LentPcs,
               call'[i].dev = call'[j].dev
        PROVE  i = j
    BY <2>1, <2>2, <2>5 DEF PageInv
  <2>6. ASSUME NEW c \in Dev, pgd'[c] # {Hlos} PROVE Borrowers(c)' # {}
    <3>1. PICK j \in Call : j \in Borrowers(c)
      BY <2>1, <2>6 DEF PageInv, PageReturned, Borrowers
    <3>2. call'[j].dev = c /\ Borrows(j)'
      BY <2>1, <2>2, <2>6, <3>1, BorrowersSays
    <3>. QED
      BY <3>2 DEF Borrowers, Borrows, LentPcs
  <2>. QED
    BY <2>4, <2>5, <2>6 DEF PageInv, PageReturned
<1>3. ASSUME NEW k \in Call, Moves(k), ~MapPage(k), ~UndoPage(k), ~UnmapPage(k) PROVE PageInv'
  <2>1. UNCHANGED pgd
    BY <1>3 DEF Moves, MapFailAcl, MapAttach, MapPageFail, MapTable,
         MapTableFail, MapLeak, MapAdd, MapReturn, MapCopyFail, UndoPageFail,
         UndoDetach, UnmapTable, UnmapPageFail, UnmapDetach, UnmapDel
  <2>2. /\ call'[k].pc \in LentPcs => call[k].pc \in LentPcs
        /\ Borrows(k) => Borrows(k)'
    <3>1. CASE MapFailAcl(k) \/ MapAttach(k) \/ MapPageFail(k) \/ MapTable(k)
                 \/ MapTableFail(k) \/ MapLeak(k) \/ MapAdd(k) \/ MapReturn(k)
      BY <3>1, GotoFrame
         DEF CallInv, CallOf, At, Detached, Rest, Running, LentPcs, Borrows, MapFailAcl, MapAttach,
             MapPageFail, MapTable, MapTableFail, MapLeak, MapAdd, MapReturn
    <3>2. CASE MapCopyFail(k) \/ UndoPageFail(k) \/ UndoDetach(k) \/ UnmapTable(k)
                 \/ UnmapPageFail(k) \/ UnmapDetach(k) \/ UnmapDel(k)
      BY <3>2, GotoFrame
         DEF CallInv, CallOf, At, Detached, DetachAndPut, Rest, Running, LentPcs, Borrows,
             MapCopyFail, UndoPageFail, UndoDetach, UnmapTable, UnmapPageFail, UnmapDetach, UnmapDel
    <3>. QED
      BY <1>3, <3>1, <3>2 DEF Moves
  <2>. QED
    BY <1>3, <2>1, <2>2, KeepPage DEF Step
<1>4. ASSUME NEW k \in Call, Segmentwise(k) PROVE PageInv'
  <2>1. UNCHANGED pgd /\ call[k].pc \in LentPcs /\ call'[k].pc \in LentPcs
    BY <1>4, SegmentDoneFrame
       DEF Segmentwise, MapSegment, UndoSegment, UnmapSegment, At, Rest, Running, LentPcs
  <2>. QED
    BY <1>4, <2>1, KeepPage DEF Step, Borrows
<1>5. ASSUME NEW k \in Call, GivesUp(k) PROVE PageInv'
  <2>1. /\ UNCHANGED pgd /\ call[k].pc \in LentPcs
        /\ call'[k].pc \in {"undoPage", "stuck"}
    BY <1>5, SegmentsFailedFrame
       DEF GivesUp, MapSegmentFail, UndoSegmentFail, UnmapSegmentFail, At, Rest, Running, LentPcs
  <2>. QED
    BY <1>5, <2>1, KeepPage DEF Step, Borrows, LentPcs
<1>6. ASSUME NEW k \in Call, NEW b \in Buf, NEW d \in Dev, NEW vs \in (SUBSET Vm) \ {{}},
             MapGet(k, b, d, vs)
      PROVE  PageInv'
  <2>1. /\ call[k].pc = "new" /\ call'[k].pc = "acl"
        /\ \A j \in Call : j # k => call'[j] = call[j]
        /\ UNCHANGED <<pgd, att, partial>> /\ k \notin att /\ k \notin partial
    BY <1>6 DEF MapGet, At, CallInv, CallOf, Detached, TypeOK
  <2>2. ~Borrows(k) /\ call[k].pc \notin LentPcs /\ call'[k].pc \notin LentPcs
    BY <2>1 DEF Borrows, LentPcs
  <2>3. \A c \in Dev : Borrowers(c) \subseteq Borrowers(c)'
    <3>1. ASSUME NEW c \in Dev, NEW j \in Borrowers(c) PROVE j \in Borrowers(c)'
      <4>1. j \in Call /\ j # k /\ call'[j] = call[j]
        BY <2>1, <2>2, <3>1, BorrowersSays DEF Borrowers
      <4>. QED
        BY <2>1, <3>1, <4>1 DEF Borrowers
    <3>. QED
      BY <3>1
  <2>. QED
    BY <2>1, <2>2, <2>3 DEF PageInv, PageReturned
<1>7. CASE UNCHANGED <<pgd, call, att, partial>>
  BY <1>7 DEF PageInv, PageReturned, Borrowers
<1>8. ASSUME NEW b \in Buf, CloseFd(b) PROVE PageInv'
  BY <1>7, <1>8 DEF CloseFd
<1>9. CASE CloseDone \/ CloseFault \/ UNCHANGED vars
  BY <1>7, <1>9 DEF CloseDone, CloseFault, vars
<1>. QED
  BY <1>1, <1>2, <1>3, <1>4, <1>5, <1>6, <1>8, <1>9 DEF Next, Moves, Segmentwise, GivesUp

-----------------------------------------------------------------------------
(* References and entries *)

\* RefAccounting, by the three sets it counts.
LEMMA AccountingSays ==
  RefAccounting <=>
      \A b \in Buf : refs[b] = (IF b \in userFd THEN 1 ELSE 0) + Cardinality(AttOf(b))
                                  + Cardinality(AclOf(b)) + Cardinality(LeakOf(b))
BY DEF RefAccounting, AttOf, AclOf, LeakOf

\* Taking call k out of, or into, one of the sets.
LEMMA OneLess ==
  ASSUME NEW S, IsFiniteSet(S), NEW k \in S
  PROVE  Cardinality(S \ {k}) = Cardinality(S) - 1
BY FS_RemoveElement

\* The same for a call that is added.
LEMMA OneMore ==
  ASSUME NEW S, IsFiniteSet(S), NEW k, k \notin S
  PROVE  Cardinality(S \cup {k}) = Cardinality(S) + 1
BY FS_AddElement

\* A step that leaves the three sets keeps the accounting.
LEMMA SameCounts ==
  ASSUME RefAccounting, UNCHANGED <<refs, userFd>>,
         \A b \in Buf : /\ AttOf(b)' = AttOf(b) /\ AclOf(b)' = AclOf(b)
                        /\ LeakOf(b)' = LeakOf(b)
  PROVE  RefAccounting'
BY DEF RefAccounting, AttOf, AclOf, LeakOf

\* Every step keeps the references of each buffer adding up.
LEMMA AccountingStep ==
  ASSUME IInv, [Next]_vars
  PROVE  RefAccounting'
<1> USE DEF IInv
<1> DEFINE Sum(b) == (IF b \in userFd THEN 1 ELSE 0) + Cardinality(AttOf(b))
                        + Cardinality(AclOf(b)) + Cardinality(LeakOf(b))
<1>1. ASSUME NEW k \in Call, Step(k)
      PROVE  /\ \A j \in Call : B(j)' = B(j) /\ B(k) \in Buf
             /\ \A j \in Call : j # k => call'[j] = call[j]
             /\ userFd' = userFd /\ CallOf(k)
  BY <1>1, StepFrame DEF B, CallInv, CallOf
<1>2. ASSUME NEW k \in Call, MapFailAcl(k) PROVE RefAccounting'
  <2> DEFINE b == B(k)
  <2>1. /\ call[k].pc = "acl" /\ call'[k].pc = "failed" /\ k \notin leaked
        /\ leaked' = leaked \cup {k} /\ UNCHANGED <<refs, att>> /\ att \subseteq Call
        /\ leaked \subseteq Call
    BY <1>2, GotoFrame DEF MapFailAcl, At, CallInv, CallOf, Rest, Running, TypeOK
  <2>2. /\ \A j \in Call : B(j)' = B(j) /\ b \in Buf
        /\ \A j \in Call : j # k => call'[j] = call[j]
        /\ userFd' = userFd
    BY <1>1, <1>2 DEF Step, Moves
  <2>3. /\ k \in AclOf(b) /\ AclOf(b)' = AclOf(b) \ {k}
        /\ k \notin LeakOf(b) /\ LeakOf(b)' = LeakOf(b) \cup {k}
        /\ AttOf(b)' = AttOf(b)
    BY <2>1, <2>2 DEF AclOf, LeakOf, AttOf
  <2>4. /\ Cardinality(AclOf(b)') = Cardinality(AclOf(b)) - 1
        /\ Cardinality(LeakOf(b)') = Cardinality(LeakOf(b)) + 1
        /\ Cardinality(AttOf(b)') = Cardinality(AttOf(b))
    BY <2>2, <2>3, Counts, OneLess, OneMore
  <2>5. ASSUME NEW c \in Buf, c # b
        PROVE  AclOf(c)' = AclOf(c) /\ LeakOf(c)' = LeakOf(c) /\ AttOf(c)' = AttOf(c)
    BY <2>1, <2>2, <2>5 DEF AclOf, LeakOf, AttOf
  <2>6. ASSUME NEW c \in Buf PROVE refs'[c] = Sum(c)'
    <3>1. refs[c] = Sum(c)
      BY AccountingSays
    <3>2. CASE c = b
      BY <2>1, <2>2, <2>4, <3>1, <3>2, Counts
    <3>3. CASE c # b
      BY <2>1, <2>2, <2>5, <3>1, <3>3
    <3>. QED
      BY <3>2, <3>3
  <2>. QED
    BY <2>6 DEF RefAccounting, AttOf, AclOf, LeakOf
<1>3. ASSUME NEW k \in Call, MapAttach(k) PROVE RefAccounting'
  <2> DEFINE b == B(k)
  <2>1. /\ call[k].pc = "acl" /\ call'[k].pc = "page" /\ k \notin att
        /\ att' = att \cup {k} /\ UNCHANGED <<refs, leaked>> /\ att \subseteq Call
        /\ leaked \subseteq Call
    BY <1>3, GotoFrame DEF MapAttach, At, CallInv, CallOf, Detached, Rest, Running, TypeOK
  <2>2. /\ \A j \in Call : B(j)' = B(j) /\ b \in Buf
        /\ \A j \in Call : j # k => call'[j] = call[j]
        /\ userFd' = userFd
    BY <1>1, <1>3 DEF Step, Moves
  <2>3. /\ k \in AclOf(b) /\ AclOf(b)' = AclOf(b) \ {k}
        /\ k \notin AttOf(b) /\ AttOf(b)' = AttOf(b) \cup {k}
        /\ LeakOf(b)' = LeakOf(b)
    BY <2>1, <2>2 DEF AclOf, LeakOf, AttOf
  <2>4. /\ Cardinality(AclOf(b)') = Cardinality(AclOf(b)) - 1
        /\ Cardinality(AttOf(b)') = Cardinality(AttOf(b)) + 1
        /\ Cardinality(LeakOf(b)') = Cardinality(LeakOf(b))
    BY <2>2, <2>3, Counts, OneLess, OneMore
  <2>5. ASSUME NEW c \in Buf, c # b
        PROVE  AclOf(c)' = AclOf(c) /\ LeakOf(c)' = LeakOf(c) /\ AttOf(c)' = AttOf(c)
    BY <2>1, <2>2, <2>5 DEF AclOf, LeakOf, AttOf
  <2>6. ASSUME NEW c \in Buf PROVE refs'[c] = Sum(c)'
    <3>1. refs[c] = Sum(c)
      BY AccountingSays
    <3>2. CASE c = b
      BY <2>1, <2>2, <2>4, <3>1, <3>2, Counts
    <3>3. CASE c # b
      BY <2>1, <2>2, <2>5, <3>1, <3>3
    <3>. QED
      BY <3>2, <3>3
  <2>. QED
    BY <2>6 DEF RefAccounting, AttOf, AclOf, LeakOf
<1>4. ASSUME NEW k \in Call, UndoDetach(k) \/ UnmapDetach(k) PROVE RefAccounting'
  <2> DEFINE b == B(k)
  <2>1. /\ call[k].pc \in {"undoDetach", "detach"} /\ call'[k].pc \in {"failed", "del"} /\ k \in att
        /\ att' = att \ {k} /\ refs' = [refs EXCEPT ![b] = @ - 1] /\ leaked' = leaked
        /\ att \subseteq Call /\ leaked \subseteq Call
    BY <1>4, GotoFrame
       DEF UndoDetach, UnmapDetach, DetachAndPut, At, CallInv, CallOf, Detached, Rest, Running, TypeOK
  <2>2. /\ \A j \in Call : B(j)' = B(j) /\ b \in Buf
        /\ \A j \in Call : j # k => call'[j] = call[j]
        /\ userFd' = userFd
    BY <1>1, <1>4 DEF Step, Moves
  <2>3. /\ k \in AttOf(b) /\ AttOf(b)' = AttOf(b) \ {k}
        /\ AclOf(b)' = AclOf(b) /\ LeakOf(b)' = LeakOf(b)
    BY <2>1, <2>2 DEF AclOf, LeakOf, AttOf
  <2>4. /\ Cardinality(AttOf(b)') = Cardinality(AttOf(b)) - 1
        /\ Cardinality(AclOf(b)') = Cardinality(AclOf(b))
        /\ Cardinality(LeakOf(b)') = Cardinality(LeakOf(b))
        /\ refs'[b] = refs[b] - 1
    BY <2>1, <2>2, <2>3, Counts, OneLess DEF TypeOK
  <2>5. ASSUME NEW c \in Buf, c # b
        PROVE  /\ AclOf(c)' = AclOf(c) /\ LeakOf(c)' = LeakOf(c) /\ AttOf(c)' = AttOf(c)
               /\ refs'[c] = refs[c]
    BY <2>1, <2>2, <2>5 DEF AclOf, LeakOf, AttOf, TypeOK
  <2>6. ASSUME NEW c \in Buf PROVE refs'[c] = Sum(c)'
    <3>1. refs[c] = Sum(c)
      BY AccountingSays
    <3>2. CASE c = b
      BY <2>2, <2>4, <3>1, <3>2, Counts
    <3>3. CASE c # b
      BY <2>2, <2>5, <3>1, <3>3
    <3>. QED
      BY <3>2, <3>3
  <2>. QED
    BY <2>6 DEF RefAccounting, AttOf, AclOf, LeakOf
<1>5. ASSUME NEW k \in Call, Step(k), ~MapFailAcl(k), ~MapAttach(k), ~UndoDetach(k), ~UnmapDetach(k)
      PROVE  RefAccounting'
  <2>1. UNCHANGED <<refs, att, leaked>> /\ call[k].pc # "acl"
    BY <1>5 DEF Step, Moves, Segmentwise, GivesUp, At, MapPage, MapPageFail,
         MapSegment, MapSegmentFail, MapTable, MapTableFail, MapLeak, MapAdd, MapReturn,
         MapCopyFail, UndoSegment, UndoSegmentFail, UndoPage, UndoPageFail,
         UnmapTable, UnmapSegment, UnmapSegmentFail, UnmapPage, UnmapPageFail, UnmapDel
  <2>2. call'[k].pc # "acl"
    <3>1. CASE Moves(k)
      BY <1>5, <3>1, GotoFrame
         DEF Moves, Rest, Running, MapPage, MapPageFail, MapTable, MapTableFail, MapLeak, MapAdd,
             MapReturn, MapCopyFail, UndoPage, UndoPageFail, UnmapTable, UnmapPage, UnmapPageFail,
             UnmapDel
    <3>2. CASE Segmentwise(k)
      BY <2>1, <3>2, SegmentDoneFrame
         DEF Segmentwise, MapSegment, UndoSegment, UnmapSegment, Rest, Running
    <3>3. CASE GivesUp(k)
      BY <3>3, SegmentsFailedFrame
         DEF GivesUp, MapSegmentFail, UndoSegmentFail, UnmapSegmentFail, Rest, Running
    <3>. QED
      BY <1>5, <3>1, <3>2, <3>3 DEF Step
  <2>3. /\ \A j \in Call : B(j)' = B(j) /\ j # k => call'[j] = call[j]
        /\ userFd' = userFd /\ att \subseteq Call /\ leaked \subseteq Call
    BY <1>1, <1>5 DEF TypeOK
  <2>4. \A b \in Buf : AttOf(b)' = AttOf(b) /\ AclOf(b)' = AclOf(b) /\ LeakOf(b)' = LeakOf(b)
    BY <1>1, <1>5, <2>1, <2>2, <2>3 DEF AttOf, AclOf, LeakOf
  <2>. QED
    BY <2>1, <2>3, <2>4, SameCounts
<1>6. ASSUME NEW k \in Call, NEW b \in Buf, NEW d \in Dev, NEW vs \in (SUBSET Vm) \ {{}},
             MapGet(k, b, d, vs)
      PROVE  RefAccounting'
  <2>1. /\ call[k].pc = "new" /\ call'[k].pc = "acl" /\ call'[k].buf = b
        /\ \A j \in Call : j # k => call'[j] = call[j]
        /\ UNCHANGED <<userFd, att, leaked>> /\ k \notin att /\ k \notin leaked
        /\ att \subseteq Call /\ leaked \subseteq Call
        /\ \A c \in Buf : refs'[c] = IF c = b THEN refs[c] + 1 ELSE refs[c]
    BY <1>6 DEF MapGet, At, CallInv, CallOf, Detached, TypeOK
  <2>2. /\ k \notin AclOf(b) /\ AclOf(b)' = AclOf(b) \cup {k}
        /\ AttOf(b)' = AttOf(b) /\ LeakOf(b)' = LeakOf(b)
    BY <2>1 DEF AclOf, AttOf, LeakOf, B
  <2>3. /\ Cardinality(AclOf(b)') = Cardinality(AclOf(b)) + 1
        /\ Cardinality(AttOf(b)') = Cardinality(AttOf(b))
        /\ Cardinality(LeakOf(b)') = Cardinality(LeakOf(b))
    BY <2>2, Counts, OneMore
  <2>4. ASSUME NEW c \in Buf, c # b
        PROVE  AclOf(c)' = AclOf(c) /\ LeakOf(c)' = LeakOf(c) /\ AttOf(c)' = AttOf(c)
    BY <2>1, <2>4 DEF AclOf, LeakOf, AttOf, B
  <2>5. ASSUME NEW c \in Buf PROVE refs'[c] = Sum(c)'
    <3>1. refs[c] = Sum(c)
      BY AccountingSays
    <3>2. CASE c = b
      BY <2>1, <2>3, <3>1, <3>2, Counts
    <3>3. CASE c # b
      BY <2>1, <2>4, <3>1, <3>3
    <3>. QED
      BY <3>2, <3>3
  <2>. QED
    BY <2>5 DEF RefAccounting, AttOf, AclOf, LeakOf
<1>7. ASSUME NEW b \in Buf, CloseFd(b) PROVE RefAccounting'
  <2>1. /\ b \in userFd /\ userFd' = userFd \ {b}
        /\ \A c \in Buf : refs'[c] = IF c = b THEN refs[c] - 1 ELSE refs[c]
    BY <1>7 DEF CloseFd, TypeOK
  <2>2. \A c \in Buf : AclOf(c)' = AclOf(c) /\ LeakOf(c)' = LeakOf(c) /\ AttOf(c)' = AttOf(c)
    BY <1>7 DEF CloseFd, AttOf, AclOf, LeakOf, B
  <2>3. ASSUME NEW c \in Buf PROVE refs'[c] = Sum(c)'
    <3>1. refs[c] = Sum(c)
      BY AccountingSays
    <3>. QED
      BY <2>1, <2>2, <3>1, Counts
  <2>. QED
    BY <2>3 DEF RefAccounting, AttOf, AclOf, LeakOf
<1>8. CASE CloseDone \/ CloseFault \/ UNCHANGED vars
  <2>1. UNCHANGED <<refs, userFd, call, att, leaked>>
    BY <1>8 DEF CloseDone, CloseFault, vars
  <2>. QED
    BY <2>1, SameCounts DEF AttOf, AclOf, LeakOf, B
<1>. QED
  BY <1>2, <1>3, <1>4, <1>5, <1>6, <1>7, <1>8 DEF Next, Step, Moves, Segmentwise, GivesUp

\* Every step keeps an entry no longer than its attachment, but inside unmap and
\* after a failed copy_to_user.
LEMMA EntryStep ==
  ASSUME IInv, [Next]_vars
  PROVE  EntryAttached'
<1> USE DEF IInv
<1>1. ASSUME NEW k \in Call, Step(k) PROVE EntryAttached'
  <2>1. ASSUME k \in hashed' PROVE k \in att' \/ call'[k].pc \in {"del", "failed"}
    <3>1. CASE MapAdd(k)
      BY <3>1 DEF MapAdd, At, CallInv, CallOf, Detached
    <3>2. CASE UndoDetach(k) \/ UnmapDetach(k)
      BY <3>2, GotoFrame DEF UndoDetach, UnmapDetach, Rest, Running
    <3>3. CASE MapFailAcl(k) \/ UnmapDel(k)
      BY <2>1, <3>3, GotoFrame DEF MapFailAcl, UnmapDel, Rest, Running
    <3>4. CASE ~(MapAdd(k) \/ UndoDetach(k) \/ UnmapDetach(k) \/ MapFailAcl(k) \/ UnmapDel(k))
      <4>1. /\ hashed' = hashed /\ att \subseteq att'
            /\ call[k].pc \notin {"del", "failed"}
        BY <1>1, <3>4 DEF Step, Moves, Segmentwise, GivesUp, At, MapAttach, MapPage, MapPageFail,
             MapSegment, MapSegmentFail, MapTable, MapTableFail, MapLeak, MapReturn,
             MapCopyFail, UndoSegment, UndoSegmentFail, UndoPage, UndoPageFail,
             UnmapTable, UnmapSegment, UnmapSegmentFail, UnmapPage, UnmapPageFail
      <4>. QED
        BY <2>1, <4>1 DEF EntryAttached
    <3>. QED
      BY <3>1, <3>2, <3>3, <3>4
  <2>2. ASSUME NEW j \in hashed', j # k PROVE j \in att' \/ call'[j].pc \in {"del", "failed"}
    <3>1. j \in Call
      BY <2>2, TypeStep DEF TypeOK
    <3>. QED
      BY <1>1, <2>2, <3>1, StepFrame DEF EntryAttached
  <2>. QED
    BY <2>1, <2>2 DEF EntryAttached
<1>2. ASSUME NEW k \in Call, NEW b \in Buf, NEW d \in Dev, NEW vs \in (SUBSET Vm) \ {{}},
             MapGet(k, b, d, vs)
      PROVE  EntryAttached'
  BY <1>2 DEF MapGet, At, EntryAttached, TypeOK
<1>3. CASE UNCHANGED <<call, att, hashed>>
  BY <1>3 DEF EntryAttached
<1>4. ASSUME NEW b \in Buf, CloseFd(b) PROVE EntryAttached'
  BY <1>3, <1>4 DEF CloseFd
<1>. QED
  BY <1>1, <1>2, <1>3, <1>4
     DEF Next, Step, Moves, Segmentwise, GivesUp, CloseDone, CloseFault, vars

-----------------------------------------------------------------------------
(* Theorems *)

\* The initial state satisfies the inductive invariant.
LEMMA InvInit == Init => IInv
<1> SUFFICES ASSUME Init PROVE IInv
  OBVIOUS
<1>1. NewCall \in CallType
  BY SecureAssumption DEF NewCall, CallType, Rest, Segment
<1>2. TypeOK
  BY <1>1 DEF Init, TypeOK, CallType
<1>3. CallInv
  BY DEF Init, CallInv, CallOf, NewCall, Detached
<1>4. SegmentInv
  BY DEF Init, SegmentInv, Holds, NewCall
<1>5. PageInv
  BY DEF Init, PageInv, PageReturned, LentPcs, NewCall
<1>6. ASSUME NEW b \in Buf PROVE AttOf(b) = {} /\ AclOf(b) = {} /\ LeakOf(b) = {}
  BY DEF Init, AttOf, AclOf, LeakOf, NewCall
<1>7. RefAccounting
  BY <1>6, FS_EmptySet, AccountingSays DEF Init
<1>8. EntryAttached
  BY DEF Init, EntryAttached
<1>. QED
  BY <1>2, <1>3, <1>4, <1>5, <1>7, <1>8 DEF IInv

\* The inductive invariant holds in every reachable state.
THEOREM Invariance == Spec => []IInv
<1>1. ASSUME IInv, [Next]_vars PROVE IInv'
  BY <1>1, TypeStep, CallStep, SegmentStep, PageStep, AccountingStep, EntryStep DEF IInv
<1>. QED
  BY <1>1, InvInit, PTL DEF Spec

\* While kiumd_dmabuf_vfio_secure_map's mapping is in use, its virtual machines
\* own every segment of the buffer alone and can read the page table: no other
\* call on the device or the buffer takes either away, on any path.
THEOREM SecureWhileMappedHolds == Spec => []SecureWhileMapped
<1>1. ASSUME IInv PROVE SecureWhileMapped
  BY <1>1 DEF IInv, SegmentInv, PageInv, SecureWhileMapped, Holds, LentPcs
<1>. QED
  BY <1>1, Invariance, PTL

\* A released buffer goes back to its heap owned by this kernel alone, unless a
\* call gave up in the middle of a transfer; and a page table is readable by
\* other machines only while a call has it out or gave up on it.
THEOREM HeapReturnedHolds == Spec => []HeapReturned
<1>1. ASSUME IInv, NEW b \in Buf, refs[b] = 0, NEW i \in Segment, owner[b][i] # {Hlos}
      PROVE  \E k \in partial : B(k) = b
  <2>1. PICK k \in Call : B(k) = b /\ (Holds(k, i) \/ LeftSome(k))
    BY <1>1 DEF IInv, SegmentInv
  <2>2. k \in att => FALSE
    BY <1>1, <2>1, RefPositive DEF IInv, AttOf
  <2>3. ~Holds(k, i)
    BY <1>1, <2>2 DEF IInv, CallInv, CallOf, Detached, Holds
  <2>. QED
    BY <2>1, <2>2, <2>3 DEF LeftSome
<1>2. IInv => HeapReturned
  BY <1>1 DEF IInv, PageInv, HeapReturned, HeapOwnsReleased
<1>. QED
  BY <1>2, Invariance, PTL

\* Every variable keeps its type, the references of kiumd_dmabuf_vfio_secure_map
\* and its undo paths add up, and no entry outlives its attachment.
THEOREM SecureInvHolds == Spec => []SecureInv
<1>1. IInv => SecureInv
  BY DEF IInv, SecureInv
<1>. QED
  BY <1>1, Invariance, PTL

=============================================================================
