--------------------------- MODULE KiumdSecureMap ---------------------------
(***************************************************************************)
(* Secure mappings (kiumd_dmabuf_vfio_secure_map,                            *)
(* kiumd_dmabuf_vfio_secure_unmap and the hyp-assign helpers in              *)
(* drivers/kiumd.c).  A secure map lends the page table of the device to the   *)
(* peripheral's virtual machines, hands every segment of the buffer over to    *)
(* them, and maps the buffer; unmap takes all of it back.  Every transfer is   *)
(* a call of the secure monitor, which may refuse it.  No lock is held across   *)
(* these calls: the only lock covers the table of entries.                    *)
(***************************************************************************)
EXTENDS Integers, FiniteSets

CONSTANTS
    Buf,      \* dma-bufs
    Segments, \* segments of a buffer's sg table
    Dev,      \* devices, each with its page table
    Vm,       \* virtual machines of peripherals
    Hlos,     \* the virtual machine of this kernel
    Call,     \* secure map calls, each with its attachment and entry
    ScmFault, \* TRUE: the secure monitor may refuse a transfer that is legal
    None

ASSUME SecureAssumption ==
    /\ IsFiniteSet(Call)
    /\ Segments \in Nat \ {0}
    /\ ScmFault \in BOOLEAN
    /\ Hlos \notin Vm /\ None \notin Buf /\ None \notin Dev

Segment == 1 .. Segments

VARIABLES
    owner,   \* owner[b][i]: virtual machines that own segment i of buffer b
    pgd,     \* pgd[d]: virtual machines that may read the page table of d
    refs,    \* refs[b]: file references of the dma-buf
    userFd,  \* buffers the process has a descriptor of
    call,    \* call[k]: buffer, device and machines of the call, progress
    att,     \* calls whose attachment exists
    hashed,  \* calls whose entry is in the table
    partial, \* calls that left some segments handed over on an error path
    leaked,  \* calls that left their reference of the buffer on an error path
    ctx      \* "open", "closed", or "faulted" inside kiumd_close

vars == <<owner, pgd, refs, userFd, call, att, hashed, partial, leaked, ctx>>

\* Program counters of a call.  A call rests in the first set: it has not been
\* made, has returned, or has ended in an oops.
Rest == {"new", "failed", "mapped", "stuck", "done", "faulted"}
Running == {"acl", "page", "assign", "map", "add", "copy",
            "undoSegment", "undoPage", "undoDetach",
            "unassign", "unpage", "detach", "del"}

NewCall == [pc |-> "new", buf |-> None, dev |-> None, vms |-> {}, seg |-> 1]

TypeOK ==
    /\ owner \in [Buf -> [Segment -> SUBSET (Vm \cup {Hlos})]]
    /\ pgd \in [Dev -> SUBSET (Vm \cup {Hlos})]
    /\ refs \in [Buf -> Nat]
    /\ userFd \in SUBSET Buf
    /\ call \in [Call -> [pc : Rest \cup Running, buf : Buf \cup {None},
                          dev : Dev \cup {None}, vms : SUBSET Vm, seg : Segment]]
    /\ att \in SUBSET Call /\ hashed \in SUBSET Call
    /\ partial \in SUBSET Call /\ leaked \in SUBSET Call
    /\ ctx \in {"open", "closed", "faulted"}

Init ==
    /\ owner = [b \in Buf |-> [i \in Segment |-> {Hlos}]]
    /\ pgd = [d \in Dev |-> {Hlos}]
    /\ refs = [b \in Buf |-> 1]
    /\ userFd = Buf
    /\ call = [k \in Call |-> NewCall]
    /\ att = {} /\ hashed = {} /\ partial = {} /\ leaked = {}
    /\ ctx = "open"

-----------------------------------------------------------------------------
(* qcom_scm_assign_mem refuses a transfer whose source list is not what the    *)
(* memory belongs to.                                                        *)

At(k, pc) == ctx = "open" /\ call[k].pc = pc
Goto(k, pc) == call' = [call EXCEPT ![k].pc = pc]
Refused(owners, src) == ScmFault \/ owners # src

B(k) == call[k].buf
CurrentSegment(k) == owner[B(k)][call[k].seg]

\* Faulty variant of SegmentDone.  SecureWhileMapped: it ends before the last
\* segment.
SegmentDoneShort(k, pc) ==
    call' = IF call[k].seg >= Segments - 1
            THEN [call EXCEPT ![k].pc = pc, ![k].seg = 1]
            ELSE [call EXCEPT ![k].seg = @ + 1]

\* Segment by segment: go on to the next one, or to pc behind the last.
SegmentDone(k, pc) ==
    call' = IF call[k].seg = Segments
            THEN [call EXCEPT ![k].pc = pc, ![k].seg = 1]
            ELSE [call EXCEPT ![k].seg = @ + 1]

SegmentsFailed(k, pc) == call' = [call EXCEPT ![k].pc = pc, ![k].seg = 1]

\* kiumd_io_pgtable_hyp_assign_page, kiumd_io_pgtable_hyp_unassign_page
LendPage(k) ==
    /\ pgd[call[k].dev] = {Hlos}
    /\ pgd' = [pgd EXCEPT ![call[k].dev] = {Hlos} \cup call[k].vms]

ReturnPage(k) ==
    /\ pgd[call[k].dev] = {Hlos} \cup call[k].vms
    /\ pgd' = [pgd EXCEPT ![call[k].dev] = {Hlos}]

PageRefused(k) == Refused(pgd[call[k].dev], {Hlos} \cup call[k].vms)

\* One round of the loop of kiumd_hyp_assign_sg and kiumd_hyp_unassign_sg.
HandOver(k) ==
    /\ CurrentSegment(k) = {Hlos}
    /\ owner' = [owner EXCEPT ![B(k)][call[k].seg] = call[k].vms]

TakeBack(k) ==
    /\ CurrentSegment(k) = call[k].vms
    /\ owner' = [owner EXCEPT ![B(k)][call[k].seg] = {Hlos}]

\* dma_buf_detach and dma_buf_put
DetachAndPut(k) ==
    /\ att' = att \ {k}
    /\ refs' = [refs EXCEPT ![B(k)] = @ - 1]

-----------------------------------------------------------------------------
(* Faulty variants of actions below: each breaks the property named with it.  *)
(* They are not part of Next.                                                *)

\* HeapReturned: unmap does not take the segments back.
UnmapTableKeepOwner(k) ==
    /\ At(k, "mapped")
    /\ Goto(k, "unpage")
    /\ UNCHANGED <<owner, pgd, refs, userFd, att, hashed, partial, leaked, ctx>>

\* SecureInv: detach without the put.
UndoDetachOnly(k) ==
    /\ At(k, "undoDetach")
    /\ att' = att \ {k}
    /\ Goto(k, "failed")
    /\ UNCHANGED <<owner, pgd, refs, userFd, hashed, partial, leaked, ctx>>

-----------------------------------------------------------------------------

\* The process closes its descriptor of a buffer.
CloseFd(b) ==
    /\ b \in userFd
    /\ userFd' = userFd \ {b}
    /\ refs' = [refs EXCEPT ![b] = @ - 1]
    /\ UNCHANGED <<owner, pgd, call, att, hashed, partial, leaked, ctx>>

-----------------------------------------------------------------------------
(* kiumd_dmabuf_vfio_secure_map *)

MapGet(k, b, d, vs) ==
    /\ At(k, "new")
    /\ b \in userFd
    /\ refs' = [refs EXCEPT ![b] = @ + 1]
    /\ call' = [call EXCEPT ![k] = [pc |-> "acl", buf |-> b, dev |-> d, vms |-> vs, seg |-> 1]]
    /\ UNCHANGED <<owner, pgd, userFd, att, hashed, partial, leaked, ctx>>

\* A bad access list (close_file) or a failing dma_buf_attach (free_mem): the
\* reference of dma_buf_get stays.
MapFailAcl(k) ==
    /\ At(k, "acl")
    /\ leaked' = leaked \cup {k}
    /\ Goto(k, "failed")
    /\ UNCHANGED <<owner, pgd, refs, userFd, att, hashed, partial, ctx>>

MapAttach(k) ==
    /\ At(k, "acl")
    /\ att' = att \cup {k}
    /\ Goto(k, "page")
    /\ UNCHANGED <<owner, pgd, refs, userFd, hashed, partial, leaked, ctx>>

MapPage(k) ==
    /\ At(k, "page")
    /\ LendPage(k)
    /\ Goto(k, "assign")
    /\ UNCHANGED <<owner, refs, userFd, att, hashed, partial, leaked, ctx>>

MapPageFail(k) ==
    /\ At(k, "page")
    /\ Refused(pgd[call[k].dev], {Hlos})
    /\ Goto(k, "undoDetach")
    /\ UNCHANGED <<owner, pgd, refs, userFd, att, hashed, partial, leaked, ctx>>

MapSegment(k) ==
    /\ At(k, "assign")
    /\ HandOver(k)
    /\ SegmentDone(k, "map")
    /\ UNCHANGED <<pgd, refs, userFd, att, hashed, partial, leaked, ctx>>

\* hyp_unassign_table: the segments handed over so far are not taken back.
MapSegmentFail(k) ==
    /\ At(k, "assign")
    /\ Refused(CurrentSegment(k), {Hlos})
    /\ partial' = IF call[k].seg > 1 THEN partial \cup {k} ELSE partial
    /\ SegmentsFailed(k, "undoPage")
    /\ UNCHANGED <<owner, pgd, refs, userFd, att, hashed, leaked, ctx>>

MapTable(k) ==
    /\ At(k, "map")
    /\ Goto(k, "add")
    /\ UNCHANGED <<owner, pgd, refs, userFd, att, hashed, partial, leaked, ctx>>

\* sgt is overwritten with the error pointer that hyp_unassign_sg then follows.
MapTableFail(k) ==
    /\ At(k, "map")
    /\ Goto(k, "faulted")
    /\ UNCHANGED <<owner, pgd, refs, userFd, att, hashed, partial, leaked, ctx>>

\* No memory for the entry: close_file undoes nothing.
MapLeak(k) ==
    /\ At(k, "add")
    /\ Goto(k, "failed")
    /\ UNCHANGED <<owner, pgd, refs, userFd, att, hashed, partial, leaked, ctx>>

MapAdd(k) ==
    /\ At(k, "add")
    /\ hashed' = hashed \cup {k}
    /\ Goto(k, "copy")
    /\ UNCHANGED <<owner, pgd, refs, userFd, att, partial, leaked, ctx>>

MapReturn(k) ==
    /\ At(k, "copy")
    /\ Goto(k, "mapped")
    /\ UNCHANGED <<owner, pgd, refs, userFd, att, hashed, partial, leaked, ctx>>

\* copy_to_user fails: all is undone but for the entry.
MapCopyFail(k) ==
    /\ At(k, "copy")
    /\ Goto(k, "undoSegment")
    /\ UNCHANGED <<owner, pgd, refs, userFd, att, hashed, partial, leaked, ctx>>

UndoSegment(k) ==
    /\ At(k, "undoSegment")
    /\ TakeBack(k)
    /\ SegmentDone(k, "undoPage")
    /\ UNCHANGED <<pgd, refs, userFd, att, hashed, partial, leaked, ctx>>

\* The results of the transfers are not looked at on this path.
UndoSegmentFail(k) ==
    /\ At(k, "undoSegment")
    /\ Refused(CurrentSegment(k), call[k].vms)
    /\ partial' = partial \cup {k}
    /\ SegmentsFailed(k, "undoPage")
    /\ UNCHANGED <<owner, pgd, refs, userFd, att, hashed, leaked, ctx>>

UndoPage(k) ==
    /\ At(k, "undoPage")
    /\ ReturnPage(k)
    /\ Goto(k, "undoDetach")
    /\ UNCHANGED <<owner, refs, userFd, att, hashed, partial, leaked, ctx>>

UndoPageFail(k) ==
    /\ At(k, "undoPage")
    /\ PageRefused(k)
    /\ partial' = partial \cup {k}
    /\ Goto(k, "undoDetach")
    /\ UNCHANGED <<owner, pgd, refs, userFd, att, hashed, leaked, ctx>>

UndoDetach(k) ==
    /\ At(k, "undoDetach")
    /\ DetachAndPut(k)
    /\ Goto(k, "failed")
    /\ UNCHANGED <<owner, pgd, userFd, hashed, partial, leaked, ctx>>

-----------------------------------------------------------------------------
(* kiumd_dmabuf_vfio_secure_unmap of a mapping that was returned, from one      *)
(* thread, with the device and access list of the map call                    *)

UnmapTable(k) ==
    /\ At(k, "mapped")
    /\ Goto(k, "unassign")
    /\ UNCHANGED <<owner, pgd, refs, userFd, att, hashed, partial, leaked, ctx>>

UnmapSegment(k) ==
    /\ At(k, "unassign")
    /\ TakeBack(k)
    /\ SegmentDone(k, "unpage")
    /\ UNCHANGED <<pgd, refs, userFd, att, hashed, partial, leaked, ctx>>

\* The call returns an error; attachment, reference and entry stay.
UnmapSegmentFail(k) ==
    /\ At(k, "unassign")
    /\ Refused(CurrentSegment(k), call[k].vms)
    /\ SegmentsFailed(k, "stuck")
    /\ UNCHANGED <<owner, pgd, refs, userFd, att, hashed, partial, leaked, ctx>>

UnmapPage(k) ==
    /\ At(k, "unpage")
    /\ ReturnPage(k)
    /\ Goto(k, "detach")
    /\ UNCHANGED <<owner, refs, userFd, att, hashed, partial, leaked, ctx>>

UnmapPageFail(k) ==
    /\ At(k, "unpage")
    /\ PageRefused(k)
    /\ Goto(k, "stuck")
    /\ UNCHANGED <<owner, pgd, refs, userFd, att, hashed, partial, leaked, ctx>>

UnmapDetach(k) ==
    /\ At(k, "detach")
    /\ DetachAndPut(k)
    /\ Goto(k, "del")
    /\ UNCHANGED <<owner, pgd, userFd, hashed, partial, leaked, ctx>>

UnmapDel(k) ==
    /\ At(k, "del")
    /\ hashed' = hashed \ {k}
    /\ Goto(k, "done")
    /\ UNCHANGED <<owner, pgd, refs, userFd, att, partial, leaked, ctx>>

-----------------------------------------------------------------------------
(* kiumd_close, when no call is inside the file.  A secure entry has no         *)
(* vfio_dev, which kiumd_close follows.                                       *)

Quiet == \A k \in Call : call[k].pc \in Rest \ {"faulted"}

CloseDone ==
    /\ ctx = "open" /\ Quiet
    /\ hashed = {}
    /\ ctx' = "closed"
    /\ UNCHANGED <<owner, pgd, refs, userFd, call, att, hashed, partial, leaked>>

CloseFault ==
    /\ ctx = "open" /\ Quiet
    /\ hashed # {}
    /\ ctx' = "faulted"
    /\ UNCHANGED <<owner, pgd, refs, userFd, call, att, hashed, partial, leaked>>

-----------------------------------------------------------------------------

Next ==
    \/ \E b \in Buf : CloseFd(b)
    \/ \E k \in Call :
          \/ \E b \in Buf, d \in Dev, vs \in (SUBSET Vm) \ {{}} : MapGet(k, b, d, vs)
          \/ MapFailAcl(k) \/ MapAttach(k) \/ MapPage(k) \/ MapPageFail(k)
          \/ MapSegment(k) \/ MapSegmentFail(k) \/ MapTable(k) \/ MapTableFail(k)
          \/ MapLeak(k) \/ MapAdd(k) \/ MapReturn(k) \/ MapCopyFail(k)
          \/ UndoSegment(k) \/ UndoSegmentFail(k) \/ UndoPage(k) \/ UndoPageFail(k)
          \/ UndoDetach(k)
          \/ UnmapTable(k) \/ UnmapSegment(k) \/ UnmapSegmentFail(k) \/ UnmapPage(k)
          \/ UnmapPageFail(k) \/ UnmapDetach(k) \/ UnmapDel(k)
    \/ CloseDone \/ CloseFault

Spec == Init /\ [][Next]_vars

-----------------------------------------------------------------------------

(* While a secure mapping is in use, its machines own every segment of the      *)
(* buffer alone and can read the page table that maps it: no other call, on     *)
(* the same device or the same buffer, on a success or an error path, takes     *)
(* either away.                                                              *)
SecureWhileMapped ==
    \A k \in Call : call[k].pc \in {"map", "add", "copy", "mapped"} =>
        /\ \A i \in Segment : owner[B(k)][i] = call[k].vms
        /\ call[k].vms \subseteq pgd[call[k].dev]

(* A buffer whose last reference is gone returns to its heap owned by this      *)
(* kernel alone, unless a call gave up in the middle of a transfer on one of     *)
(* the paths that go on to release the buffer.                                *)
HeapOwnsReleased ==
    \A b \in Buf : refs[b] = 0 =>
        \/ \A i \in Segment : owner[b][i] = {Hlos}
        \/ \E k \in partial : B(k) = b

\* Calls that have lent the page table and have not returned it.
Borrowers(d) ==
    {k \in Call : call[k].dev = d /\
        \/ call[k].pc \in {"assign", "map", "add", "copy", "undoSegment", "undoPage",
                           "mapped", "unassign", "unpage", "stuck", "faulted"}
        \/ call[k].pc = "failed" /\ k \in att
        \/ k \in partial}

(* The page table of a device is readable by other machines only while a call   *)
(* that lent it is under way, mapped, or gave up without returning it.          *)
PageReturned ==
    \A d \in Dev : pgd[d] # {Hlos} => Borrowers(d) # {}

(* Every reference of a buffer is the process's descriptor, an attachment, a     *)
(* call about to attach, or the reference of a call that failed before it        *)
(* attached.                                                                 *)
RefAccounting ==
    \A b \in Buf :
        refs[b] = (IF b \in userFd THEN 1 ELSE 0)
                    + Cardinality({k \in att : B(k) = b})
                    + Cardinality({k \in Call : B(k) = b /\ call[k].pc = "acl"})
                    + Cardinality({k \in leaked : B(k) = b})

(* An entry outlives its attachment only inside unmap, or after copy_to_user     *)
(* failed at the end of a map call: no other path leaves an entry that unmap or  *)
(* close would follow to freed memory.                                        *)
EntryAttached ==
    \A k \in hashed : k \in att \/ call[k].pc \in {"del", "failed"}

(* Whatever kiumd_dmabuf_vfio_secure_map lent to other machines comes back:     *)
(* the segments of a released buffer and the page table of a device.            *)
HeapReturned == HeapOwnsReleased /\ PageReturned

(* Every variable keeps its type, the references of                            *)
(* kiumd_dmabuf_vfio_secure_map and its undo paths add up, and no entry outlives *)
(* its attachment.                                                           *)
SecureInv == TypeOK /\ RefAccounting /\ EntryAttached

=============================================================================
