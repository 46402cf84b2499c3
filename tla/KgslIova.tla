------------------------------ MODULE KgslIova ------------------------------
(***************************************************************************)
(* Device addresses of KGSL mappings (get_map_offset, set_map_iova,          *)
(* clear_map_iova and kiumd_iova_ctrl in drivers/kiumd.c, called by           *)
(* kiumd_dmabuf_vfio_map and kiumd_dmabuf_vfio_unmap).                       *)
(*                                                                         *)
(* The driver keeps a bitmap of pages for each of the KGSL page tables.  It    *)
(* reserves a range, writes the start of the range into the cookie of the     *)
(* device's domain, and relies on the DMA layer taking the address of the     *)
(* next mapping from there.  The bitmaps, the next-fit positions and the      *)
(* order of these steps are protected by no lock; the cookie's mutex covers   *)
(* the write of the cookie alone.                                            *)
(***************************************************************************)
EXTENDS Integers, FiniteSets

CONSTANTS
    Pt,      \* page tables with a bitmap: KGSL_GLOBAL_PT, KGSL_PER_PROCESS_PT
    Pages,   \* pages of a bitmap (0xC0000 in the code)
    MaxSize, \* largest buffer, in pages
    Call,    \* map calls
    Thread,  \* threads that map and unmap through one device
    Serial,  \* TRUE: one call on the device at a time
    Mixed,   \* TRUE: the device is also used without a KGSL page table
    None

ASSUME IovaAssumption ==
    /\ Pages \in Nat \ {0} /\ MaxSize \in 1 .. Pages
    /\ Serial \in BOOLEAN /\ Mixed \in BOOLEAN
    /\ None \notin Pt /\ None \notin Call

Page == 0 .. Pages - 1

\* An address is a page of the range of a page table.  Addresses of the
\* device's own IOVA allocator carry the call they were made for.
Addr(pt, page) == [pt |-> pt, page |-> page]

Range(at, n) == {Addr(at.pt, p) : p \in at.page .. at.page + n - 1}

VARIABLES
    bits,   \* bits[pt]: pages set in global_map or perprocess_map
    last,   \* last[pt]: last_offset_global or last_offset_perprocess
    cookie, \* type and msi_iova of the domain's cookie
    call,   \* call[k]: state, page table, reserved page, size and address
    th      \* th[t]: program counter, call, and page found by thread t

vars == <<bits, last, cookie, call, th>>

Idle == [pc |-> "idle", call |-> None, bit |-> 0]
NewCall == [state |-> "new", pt |-> None, bit |-> 0, size |-> 1, at |-> Addr(None, 0)]

Addrs == [pt : Pt \cup Call \cup {None}, page : Int]

TypeOK ==
    /\ bits \in [Pt -> SUBSET Page]
    /\ last \in [Pt -> Page]
    /\ cookie \in [type : {"iova", "msi"}, at : Addrs]
    /\ call \in [Call -> [state : {"new", "busy", "live", "unmapping", "done",
                                   "nospace", "collided", "lost"},
                          pt : Pt \cup {None}, bit : Page, size : 1 .. MaxSize, at : Addrs]]
    /\ th \in [Thread -> [pc : {"idle", "reserve", "cookie", "alloc", "map", "copy", "unmap"},
                          call : Call \cup {None}, bit : Page]]

Init ==
    /\ bits = [pt \in Pt |-> {}]
    /\ last = [pt \in Pt |-> 0]
    /\ cookie = [type |-> "iova", at |-> Addr(None, 0)]
    /\ call = [k \in Call |-> NewCall]
    /\ th = [t \in Thread |-> Idle]

-----------------------------------------------------------------------------
(* The bitmap *)

Run(i, n) == i .. i + n - 1

\* bitmap_find_next_zero_area from start: the lowest area of n clear bits, as
\* a set that is empty when there is none.
NextZeroArea(set, start, n) ==
    {i \in start .. Pages - n :
        /\ Run(i, n) \cap set = {}
        /\ \A j \in start .. i - 1 : Run(j, n) \cap set # {}}

\* The bit get_map_offset chooses: an area behind from that ends before the
\* last page, otherwise the first area of the whole bitmap.
MapOffset(set, from, n) ==
    LET behind == {i \in NextZeroArea(set, from, n) : i + n < Pages}
    IN  IF behind # {} THEN behind ELSE NextZeroArea(set, 0, n)

-----------------------------------------------------------------------------
(* The cookie of the DMA layer *)

\* iommu_dma_alloc_iova: with an MSI cookie the address is taken from the
\* cookie and msi_iova moves behind it.
AllocAt(k) == IF cookie.type = "msi" THEN cookie.at ELSE Addr(k, 0)

Advance(n) ==
    cookie' = IF cookie.type = "msi" THEN [cookie EXCEPT !.at.page = @ + n] ELSE cookie

\* iommu_dma_free_iova: with an MSI cookie msi_iova moves back.
FreeIova(n) == Advance(-n)

Present == {k \in Call : call[k].state \in {"live", "unmapping"}}
Mapped(k) == Range(call[k].at, call[k].size)

-----------------------------------------------------------------------------
(* kiumd_dmabuf_vfio_map *)

CanStart(t) ==
    /\ th[t].pc = "idle"
    /\ Serial => \A u \in Thread : th[u].pc = "idle"

Finish(t, state) ==
    /\ call' = [call EXCEPT ![th[t].call].state = state]
    /\ th' = [th EXCEPT ![t] = Idle]

Step(t, pc) == th' = [th EXCEPT ![t].pc = pc]

\* Faulty variants of actions below, each with the property it breaks; they are
\* not part of Next.

\* KgslPlaced: a cookie that has the MSI type already is left alone.
MapCookieOnce(t) ==
    /\ th[t].pc = "cookie"
    /\ cookie' = IF cookie.type = "msi"
                 THEN cookie
                 ELSE [type |-> "msi", at |-> Addr(call[th[t].call].pt, th[t].bit)]
    /\ Step(t, "alloc")
    /\ UNCHANGED <<bits, last, call>>

\* BitmapInv: unmap leaves the last page of the range set.
UnmapClearShort(t, k) ==
    /\ CanStart(t) /\ call[k].state = "live"
    /\ \A u \in Thread : th[u].call # k
    /\ LET at == call[k].at
       IN  bits' = IF at.pt = call[k].pt /\ at.pt \in Pt
                   THEN [bits EXCEPT ![at.pt] = @ \ Run(at.page, call[k].size - 1)]
                   ELSE bits
    /\ call' = [call EXCEPT ![k].state = "unmapping"]
    /\ th' = [th EXCEPT ![t] = [pc |-> "unmap", call |-> k, bit |-> 0]]
    /\ UNCHANGED <<last, cookie>>

\* get_map_offset up to the search; bitmap_set comes later.
MapFind(t, k, pt, n) ==
    /\ CanStart(t) /\ call[k].state = "new"
    /\ \E b \in MapOffset(bits[pt], last[pt], n) :
          /\ call' = [call EXCEPT ![k] = [state |-> "busy", pt |-> pt, bit |-> b, size |-> n,
                                          at |-> Addr(None, 0)]]
          /\ th' = [th EXCEPT ![t] = [pc |-> "reserve", call |-> k, bit |-> b]]
    /\ UNCHANGED <<bits, last, cookie>>

\* -ENOSPC
MapNoSpace(t, k, pt, n) ==
    /\ CanStart(t) /\ call[k].state = "new"
    /\ MapOffset(bits[pt], last[pt], n) = {}
    /\ call' = [call EXCEPT ![k].state = "nospace"]
    /\ UNCHANGED <<bits, last, cookie, th>>

\* bitmap_set and the next-fit position.
MapReserve(t) ==
    /\ th[t].pc = "reserve"
    /\ LET k == th[t].call
           end == th[t].bit + call[k].size
       IN  /\ bits' = [bits EXCEPT ![call[k].pt] = @ \cup (th[t].bit .. end - 1)]
           /\ last' = [last EXCEPT ![call[k].pt] = end % Pages]
    /\ Step(t, "cookie")
    /\ UNCHANGED <<cookie, call>>

\* set_map_iova
MapCookie(t) ==
    /\ th[t].pc = "cookie"
    /\ cookie' = [type |-> "msi", at |-> Addr(call[th[t].call].pt, th[t].bit)]
    /\ Step(t, "alloc")
    /\ UNCHANGED <<bits, last, call>>

\* No cookie, dma_buf_attach fails, or a bad direction: the bits stay set.
MapFail(t) ==
    /\ th[t].pc \in {"cookie", "alloc"}
    /\ Finish(t, "lost")
    /\ UNCHANGED <<bits, last, cookie>>

\* A map call with another ptselect starts here.
MapPlain(t, k, n) ==
    /\ Mixed
    /\ CanStart(t) /\ call[k].state = "new"
    /\ call' = [call EXCEPT ![k].state = "busy", ![k].size = n]
    /\ th' = [th EXCEPT ![t] = [pc |-> "alloc", call |-> k, bit |-> 0]]
    /\ UNCHANGED <<bits, last, cookie>>

MapAlloc(t) ==
    /\ th[t].pc = "alloc"
    /\ call' = [call EXCEPT ![th[t].call].at = AllocAt(th[t].call)]
    /\ Advance(call[th[t].call].size)
    /\ Step(t, "map")
    /\ UNCHANGED <<bits, last>>

Collides(k) == \E o \in Present : Mapped(o) \cap Mapped(k) # {}

MapTable(t) ==
    /\ th[t].pc = "map"
    /\ ~Collides(th[t].call)
    /\ call' = [call EXCEPT ![th[t].call].state = "live"]
    /\ Step(t, "copy")
    /\ UNCHANGED <<bits, last, cookie>>

\* iommu_map refuses a page that is mapped already: the address goes back, the
\* bits stay set.
MapCollide(t) ==
    /\ th[t].pc = "map"
    /\ Collides(th[t].call)
    /\ FreeIova(call[th[t].call].size)
    /\ Finish(t, "collided")
    /\ UNCHANGED <<bits, last>>

MapReturn(t) ==
    /\ th[t].pc = "copy"
    /\ th' = [th EXCEPT ![t] = Idle]
    /\ UNCHANGED <<bits, last, cookie, call>>

\* copy_to_user fails: the table is unmapped, the bits stay set.
MapUndo(t) ==
    /\ th[t].pc = "copy"
    /\ FreeIova(call[th[t].call].size)
    /\ Finish(t, "lost")
    /\ UNCHANGED <<bits, last>>

-----------------------------------------------------------------------------
(* kiumd_dmabuf_vfio_unmap with the address, page table and size of the map   *)
(* call, after map has returned it.                                          *)

\* clear_map_iova of the address the call was given.  An address outside the
\* range of its page table clears nothing of the bitmap.
UnmapClear(t, k) ==
    /\ CanStart(t) /\ call[k].state = "live"
    /\ \A u \in Thread : th[u].call # k
    /\ LET at == call[k].at
       IN  bits' = IF at.pt = call[k].pt /\ at.pt \in Pt
                   THEN [bits EXCEPT ![at.pt] = @ \ Run(at.page, call[k].size)]
                   ELSE bits
    /\ call' = [call EXCEPT ![k].state = "unmapping"]
    /\ th' = [th EXCEPT ![t] = [pc |-> "unmap", call |-> k, bit |-> 0]]
    /\ UNCHANGED <<last, cookie>>

UnmapTable(t) ==
    /\ th[t].pc = "unmap"
    /\ FreeIova(call[th[t].call].size)
    /\ Finish(t, "done")
    /\ UNCHANGED <<bits, last>>

-----------------------------------------------------------------------------
(* kiumd_iova_ctrl *)

\* KGSL_SMMU_GLOBALPT_FIXED_ADDR_SET
IovaSet(t, pt, p) ==
    /\ Mixed /\ CanStart(t)
    /\ cookie' = [type |-> "msi", at |-> Addr(pt, p)]
    /\ UNCHANGED <<bits, last, call, th>>

\* KGSL_SMMU_GLOBALPT_FIXED_ADDR_CLEAR
IovaClear(t) ==
    /\ Mixed /\ CanStart(t)
    /\ cookie' = [type |-> "iova", at |-> Addr(None, 0)]
    /\ UNCHANGED <<bits, last, call, th>>

-----------------------------------------------------------------------------

Next ==
    \E t \in Thread :
        \/ \E k \in Call, pt \in Pt, n \in 1 .. MaxSize :
              MapFind(t, k, pt, n) \/ MapNoSpace(t, k, pt, n)
        \/ \E k \in Call, n \in 1 .. MaxSize : MapPlain(t, k, n)
        \/ MapReserve(t) \/ MapCookie(t) \/ MapFail(t) \/ MapAlloc(t) \/ MapTable(t)
        \/ MapCollide(t) \/ MapReturn(t) \/ MapUndo(t)
        \/ \E k \in Call : UnmapClear(t, k)
        \/ UnmapTable(t)
        \/ \E pt \in Pt, p \in Page : IovaSet(t, pt, p)
        \/ IovaClear(t)
Spec == Init /\ [][Next]_vars

-----------------------------------------------------------------------------

\* Calls for one of the KGSL page tables.
Kgsl == {k \in Call : call[k].pt # None}

Reserved(k) == Run(call[k].bit, call[k].size)

\* KGSL calls whose range is set in the bitmap: mapped, on the way to it, or
\* failed after bitmap_set.
Owners == {k \in Kgsl :
             \/ call[k].state \in {"live", "lost", "collided"}
             \/ \E t \in Thread : th[t].call = k /\ th[t].pc \in {"cookie", "alloc", "map"}}

(* "We are using the iova cookie to set the IOVA, when device want to map a   *)
(* buffer at a specific IOVA": a KGSL buffer is mapped at the range that        *)
(* get_map_offset reserved for it.                                           *)
AtReserved ==
    \A k \in Kgsl \cap Present : call[k].at = Addr(call[k].pt, call[k].bit)

(* With one call at a time, whatever else the device is used for, KGSL calls   *)
(* map at their reserved ranges.                                             *)
SerialAtReserved == Serial => AtReserved

\* Ordinary mappings that were given the address in a KGSL cookie.
Strays == {k \in Call \ Kgsl : call[k].at.pt \in Pt}

(* With one call at a time no KGSL call finds its pages taken, unless an        *)
(* ordinary mapping took them through a cookie left behind: although unmap      *)
(* gives the range back before the pages are unmapped, and although unmapping   *)
(* moves the cookie back, KGSL calls never collide with each other.            *)
NoCollision ==
    Serial /\ Strays = {} => \A k \in Kgsl : call[k].state # "collided"

(* With one call at a time a page is set in the bitmap exactly when a KGSL      *)
(* mapping or a call on the way to one owns it, or a call failed after          *)
(* bitmap_set: the bits of failed calls are the only ones that never come back.*)
BitsAccounted ==
    Serial => \A pt \in Pt :
        bits[pt] = UNION {Reserved(k) : k \in {o \in Owners : call[o].pt = pt}}

(* get_map_offset returns -ENOSPC only when the bitmap has no free run of the  *)
(* size asked for, and what it returns lies in the bitmap and is free.         *)
OffsetComplete ==
    \A pt \in Pt : \A n \in 1 .. MaxSize :
        LET found == MapOffset(bits[pt], last[pt], n)
            free == {i \in 0 .. Pages - n : Run(i, n) \cap bits[pt] = {}}
        IN  found \subseteq free /\ (found = {} => free = {})

(* Calls for a KGSL page table map at the addresses get_map_offset reserved for *)
(* them, and never onto one another.                                         *)
KgslPlaced == SerialAtReserved /\ NoCollision

(* Every variable keeps its type, the next-fit positions in the bitmap above   *)
(* all, set_map_iova and clear_map_iova keep the bitmaps exact, and the search   *)
(* finds room whenever they have room.                                       *)
BitmapInv == TypeOK /\ BitsAccounted /\ OffsetComplete

=============================================================================
