------------------------------ MODULE KiumdFile ------------------------------
(***************************************************************************)
(* The reserved memory of a KIUMD file (kiumd_vfio_ctx_init, kiumd_mmap and   *)
(* the end of kiumd_close in drivers/kiumd.c).  An init call stores the        *)
(* regions of a device in an array of the file, which mmap reads.  Neither      *)
(* takes a lock; every access goes through the two fields of the file.  How      *)
(* much is mapped is for the caller of mmap to say.                               *)
(***************************************************************************)
EXTENDS Integers, FiniteSets

CONSTANTS
    RmThread,   \* threads of the process
    RmDev,      \* devices that may be named by an init call
    RmCount,    \* RmCount[d]: entries of its memory-region, negative if it has none
    RmNode,     \* RmNode[d]: the entries whose phandle names a node
    RmInfo,     \* KIUMD_MAX_RESERVED_MEM_AREAS: entries of mem_info
    MaxPages,   \* bound on the pages of a mapping
    MaxArray    \* bound on the arrays allocated

Regions == UNION {0 .. RmCount[d] - 1 : d \in RmDev}

ASSUME RmAssumption ==
    /\ RmDev \subseteq Nat \ {0}
    /\ RmCount \in [RmDev -> Int]
    /\ \A d \in RmDev : RmNode[d] \subseteq {i \in Regions : i < RmCount[d]}
    /\ {RmInfo, MaxPages, MaxArray} \subseteq Nat \ {0}

Null == 0
Array == 1 .. MaxArray

VARIABLES
    rmOpen,     \* the file is open
    rmNum,      \* num_reserved_regions
    rmArea,     \* res_mem_area
    rmArray,    \* rmArray[a]: size, contents (region -> device) and state of array a
    rmCall,     \* what a thread does inside init or mmap
    rmLast,     \* history: the device of the last init that succeeded
    rmMapped,   \* history: the last mapping: the device of the last init before it,
                \* whose region it begins at, the index and the pages
    rmOverlap,  \* history: two calls were inside at once
    rmFailed,   \* history: an init call failed after it had stored something
    rmAgain,    \* history: an init call began after one that succeeded
    rmFault     \* "none", "index" read before it is set, "memory" freed or beyond,
                \* "stack" written beyond mem_info

rmVars == <<rmOpen, rmNum, rmArea, rmArray, rmCall, rmLast, rmMapped, rmOverlap,
            rmFailed, rmAgain, rmFault>>

NoRegion == 0
RmIdle == [pc |-> "idle", dev |-> NoRegion, i |-> 0, n |-> 0]
NoMapping == [of |-> NoRegion, dev |-> NoRegion, i |-> 0, pages |-> 0]
Unused == [state |-> "unused", size |-> 0, content |-> [i \in Regions |-> NoRegion]]

RmInit ==
    /\ rmOpen = TRUE /\ rmNum = 0 /\ rmArea = Null
    /\ rmArray = [a \in Array |-> Unused]
    /\ rmCall = [t \in RmThread |-> RmIdle]
    /\ rmLast = NoRegion
    /\ rmMapped = NoMapping
    /\ rmOverlap = FALSE /\ rmFailed = FALSE /\ rmAgain = FALSE /\ rmFault = "none"

Usable(a) == a # Null /\ rmArray[a].state = "live"

\* kfree(res_mem_area) leaves the pointer.
FreeArea ==
    IF Usable(rmArea)
    THEN rmArray' = [rmArray EXCEPT ![rmArea].state = "freed"] /\ UNCHANGED rmFault
    ELSE rmFault' = "memory" /\ UNCHANGED rmArray

RmEnter(t, state) ==
    /\ rmOpen
    /\ rmCall[t].pc = "idle"
    /\ rmCall' = [rmCall EXCEPT ![t] = state]
    /\ rmOverlap' = (rmOverlap \/ \E u \in RmThread : rmCall[u].pc # "idle")

-----------------------------------------------------------------------------
(* kiumd_vfio_ctx_init *)

\* The count is stored before it is looked at; no regions is an error.
RmCountElems(t, d) ==
    /\ IF RmCount[d] > 0
       THEN RmEnter(t, [RmIdle EXCEPT !.pc = "alloc", !.dev = d]) /\ UNCHANGED rmFailed
       ELSE RmEnter(t, RmIdle) /\ rmFailed' = TRUE
    /\ rmNum' = RmCount[d]
    /\ rmAgain' = (rmAgain \/ rmArea # Null)
    /\ UNCHANGED <<rmOpen, rmArea, rmArray, rmLast, rmMapped, rmFault>>

\* kcalloc of one entry more than the file's count says by now; a negative
\* count overflows and is refused.  The array that was there is forgotten.
RmAlloc(t) ==
    /\ rmCall[t].pc = "alloc" /\ rmNum >= 0
    /\ \E a \in Array :
          /\ rmArray[a].state = "unused"
          /\ \A b \in Array : b < a => rmArray[b].state # "unused"
          /\ rmArea' = a
          /\ rmArray' = [rmArray EXCEPT ![a].state = "live",
                                        ![a].size = rmNum + 1]
    /\ rmCall' = [rmCall EXCEPT ![t].pc = "count"]
    /\ UNCHANGED <<rmOpen, rmNum, rmLast, rmMapped, rmOverlap, rmFailed, rmAgain, rmFault>>

\* The count is read once more for the loop.
RmReadCount(t) ==
    /\ rmCall[t].pc = "count"
    /\ rmCall' = [rmCall EXCEPT ![t].pc = "fill", ![t].n = rmNum]
    /\ UNCHANGED <<rmOpen, rmNum, rmArea, rmArray, rmLast, rmMapped, rmOverlap, rmFailed, rmAgain,
                   rmFault>>

RmAllocFail(t) ==
    /\ rmCall[t].pc = "alloc"
    /\ rmArea' = Null
    /\ rmFailed' = TRUE
    /\ rmCall' = [rmCall EXCEPT ![t] = RmIdle]
    /\ UNCHANGED <<rmOpen, rmNum, rmArray, rmLast, rmMapped, rmOverlap, rmAgain, rmFault>>

\* One region: an entry that names no node stays as kcalloc left it.  The caller's
\* mem_info is an array on the stack that no check guards.
RmFill(t) ==
    LET d == rmCall[t].dev
        i == rmCall[t].i
        fits == Usable(rmArea) /\ i < rmArray[rmArea].size
    IN /\ rmCall[t].pc = "fill" /\ i < rmCall[t].n
       /\ rmCall' = [rmCall EXCEPT ![t].i = i + 1]
       /\ \/ i \notin RmNode[d] /\ UNCHANGED <<rmArray, rmFault>>
          \/ i \in RmNode[d] /\ ~fits /\ rmFault' = "memory" /\ UNCHANGED rmArray
          \/ /\ i \in RmNode[d] /\ fits
             /\ rmArray' = [rmArray EXCEPT ![rmArea].content[i] = d]
             /\ rmFault' = IF i < RmInfo THEN rmFault ELSE "stack"
       /\ UNCHANGED <<rmOpen, rmNum, rmArea, rmLast, rmMapped, rmOverlap, rmFailed, rmAgain>>

\* A region without an address, or copy_to_user at the end: the array is freed.
RmInitFail(t) ==
    /\ rmCall[t].pc = "fill"
    /\ rmCall[t].i >= rmCall[t].n \/ rmCall[t].i \in RmNode[rmCall[t].dev]
    /\ FreeArea
    /\ rmFailed' = TRUE
    /\ rmCall' = [rmCall EXCEPT ![t] = RmIdle]
    /\ UNCHANGED <<rmOpen, rmNum, rmArea, rmLast, rmMapped, rmOverlap, rmAgain>>

RmInitDone(t) ==
    /\ rmCall[t].pc = "fill" /\ rmCall[t].i >= rmCall[t].n
    /\ rmLast' = rmCall[t].dev
    /\ rmCall' = [rmCall EXCEPT ![t] = RmIdle]
    /\ UNCHANGED <<rmOpen, rmNum, rmArea, rmArray, rmMapped, rmOverlap, rmFailed, rmAgain, rmFault>>

-----------------------------------------------------------------------------
(* kiumd_mmap *)

(* Faulty variant, breaks RmInv: mmap compares with the size of the array. *)
AdmittedOneMore(off) == rmNum < 0 \/ off <= rmNum

\* The count is signed and the offset is not: a negative count admits all.
Admitted(off) == rmNum < 0 \/ off < rmNum

RmMmapCheck(t, off) ==
    /\ rmArea # Null
    /\ Admitted(off)
    /\ RmEnter(t, [RmIdle EXCEPT !.pc = "mmap", !.i = off])
    /\ UNCHANGED <<rmOpen, rmNum, rmArea, rmArray, rmLast, rmMapped, rmFailed, rmAgain, rmFault>>

\* The base at an index that has no value yet is read: it may look aligned, or
\* not, or fault.
RmMmapRefuse(t) ==
    /\ rmCall[t].pc = "mmap"
    /\ rmFault' \in {"none", "index"}
    /\ rmCall' = [rmCall EXCEPT ![t] = RmIdle]
    /\ UNCHANGED <<rmOpen, rmNum, rmArea, rmArray, rmLast, rmMapped, rmOverlap, rmFailed, rmAgain>>

\* As many pages as the caller asks for, from the base of the region on: the size of
\* the region is not looked at.
RmMmap(t) ==
    LET i == rmCall[t].i IN
    /\ rmCall[t].pc = "mmap"
    /\ IF Usable(rmArea) /\ i < rmArray[rmArea].size
       THEN /\ \E pages \in 1 .. MaxPages :
                  rmMapped' = [of |-> rmLast, dev |-> rmArray[rmArea].content[i],
                               i |-> i, pages |-> pages]
            /\ UNCHANGED rmFault
       ELSE rmFault' = "memory" /\ UNCHANGED rmMapped
    /\ rmCall' = [rmCall EXCEPT ![t] = RmIdle]
    /\ UNCHANGED <<rmOpen, rmNum, rmArea, rmArray, rmLast, rmOverlap, rmFailed, rmAgain>>

-----------------------------------------------------------------------------

\* kiumd_close frees the array it finds.
RmClose ==
    /\ rmOpen
    /\ \A t \in RmThread : rmCall[t].pc = "idle"
    /\ rmOpen' = FALSE
    /\ IF rmArea = Null THEN UNCHANGED <<rmArray, rmFault>> ELSE FreeArea
    /\ UNCHANGED <<rmNum, rmArea, rmCall, rmLast, rmMapped, rmOverlap, rmFailed, rmAgain>>

RmNext ==
    /\ rmFault = "none"
    /\ \/ RmClose
       \/ \E t \in RmThread :
             \/ \E d \in RmDev : RmCountElems(t, d)
             \/ RmAlloc(t) \/ RmAllocFail(t) \/ RmReadCount(t) \/ RmFill(t) \/ RmInitFail(t) \/ RmInitDone(t)
             \/ \E off \in Regions : RmMmapCheck(t, off)
             \/ RmMmapRefuse(t) \/ RmMmap(t)

RmSpec == RmInit /\ [][RmNext]_rmVars

-----------------------------------------------------------------------------

RmTypeOK ==
    /\ {rmOpen, rmOverlap, rmFailed, rmAgain} \subseteq BOOLEAN
    /\ rmNum \in Int
    /\ rmArea \in Array \cup {Null}
    /\ \A a \in Array : rmArray[a].state \in {"unused", "live", "freed"}
    /\ rmLast \in RmDev \cup {NoRegion}
    /\ rmMapped \in [of : RmDev \cup {NoRegion}, dev : RmDev \cup {NoRegion},
                     i : Regions \cup {0}, pages : 0 .. MaxPages]
    /\ rmFault \in {"none", "index", "memory", "stack"}

RmQuiet == ~rmOverlap /\ ~rmFailed

\* What an init call for device d leaves at index i: its region, or a base of zero.
RmStored(d, i) == IF i \in RmNode[d] THEN d ELSE NoRegion

(* As long as init calls do not fail and calls do not overlap, an array that is   *)
(* freed or too short is never used, a mapping begins at what the last init        *)
(* stored for an index its device has, which is physical address zero where the      *)
(* device tree names no node, and after close an array is left only if init was       *)
(* called a second time.  The stack of init is overwritten, overlapping or not,         *)
(* only for a device with more regions than mem_info has room for.  Where a mapping        *)
(* ends is up to the caller, and nothing is claimed of it.                                  *)
RmInv ==
    /\ RmTypeOK
    /\ RmQuiet => rmFault # "memory"
    /\ RmQuiet /\ rmMapped.pages > 0 =>
          /\ rmMapped.of # NoRegion /\ rmMapped.i < RmCount[rmMapped.of]
          /\ rmMapped.dev = RmStored(rmMapped.of, rmMapped.i)
    /\ RmQuiet => \A t \in RmThread : rmCall[t].pc = "mmap" =>
          rmLast # NoRegion /\ rmArray[rmArea].content[rmCall[t].i] = RmStored(rmLast, rmCall[t].i)
    /\ ~rmOpen /\ RmQuiet /\ ~rmAgain => \A a \in Array : rmArray[a].state # "live"
    /\ rmFault = "stack" => \E d \in RmDev : RmCount[d] > RmInfo

=============================================================================
