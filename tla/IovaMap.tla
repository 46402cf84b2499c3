------------------------------- MODULE IovaMap -------------------------------
(***************************************************************************)
(* The reserved regions of an IOMMU group (drivers/iommu_iova_map.c).  The     *)
(* pool of a device is a list of address ranges in its device tree; the code     *)
(* sorts it into a list, refuses ranges that overlap, and hands the IOMMU driver  *)
(* the complement.  Addresses and sizes are words up to IovaMax (2^64 - 1 in the   *)
(* code) and every sum wraps.                                                       *)
(***************************************************************************)
EXTENDS Integers, Sequences

CONSTANTS
    IovaMax,    \* the greatest address
    MaxRange    \* bound on the ranges of a device

ASSUME IovaAssumption == IovaMax \in Nat \ {0} /\ MaxRange \in Nat \ {0}

Word(n) == n % (IovaMax + 1)
Addr == 0 .. IovaMax
Region(start, length) == [start |-> start, length |-> Word(length)]

VARIABLES
    iovaPool,    \* history: the ranges of the property read so far
    iovaDma,     \* dma_regions, in list order
    iovaResv,    \* the inverted list; the IOMMU driver gets it when the call is done
    iovaHeld,    \* regions allocated and not freed
    iovaPrev,    \* invert_regions: the place of prev in dma_regions
    iovaPhase    \* "walk" over the property, "between" and "beyond" the regions, or
                 \* how the call ended

iovaVars == <<iovaPool, iovaDma, iovaResv, iovaHeld, iovaPrev, iovaPhase>>

IovaInit ==
    /\ iovaPool = {} /\ iovaDma = <<>> /\ iovaResv = <<>>
    /\ iovaHeld = 0 /\ iovaPrev = 0 /\ iovaPhase = "walk"

-----------------------------------------------------------------------------
(* insert_range *)

(* Faulty variant, breaks IovaMapInv: ranges that touch count as apart only     *)
(* from one side.                                                                *)
CheckOverlapOpen(region, start, end) ==
    end > region.start /\ start <= Word(region.start + region.length - 1)

CheckOverlap(region, start, end) ==
    end >= region.start /\ start <= Word(region.start + region.length - 1)

\* The walk over the list stops at i, the first region that lies behind start.
StopsAt(i, start) ==
    /\ \A j \in 1 .. i - 1 : iovaDma[j].start <= start
    /\ i <= Len(iovaDma) => start < iovaDma[i].start

\* A region up to there overlaps.
Refused(range, i) ==
    \E j \in 1 .. Len(iovaDma) :
        /\ j <= i
        /\ CheckOverlap(iovaDma[j], range.start, Word(range.start + range.length - 1))

IovaInsert(range, i) ==
    /\ iovaPhase = "walk" /\ Len(iovaDma) < MaxRange
    /\ StopsAt(i, range.start) /\ ~Refused(range, i)
    /\ iovaPool' = iovaPool \cup {range}
    /\ iovaDma' = SubSeq(iovaDma, 1, i - 1) \o <<range>> \o SubSeq(iovaDma, i, Len(iovaDma))
    /\ iovaHeld' = iovaHeld + 1
    /\ UNCHANGED <<iovaResv, iovaPrev, iovaPhase>>

\* A refusal or a failed allocation ends the call; nobody frees the list.
IovaInsertFail(range, i) ==
    /\ iovaPhase = "walk" /\ Len(iovaDma) < MaxRange
    /\ StopsAt(i, range.start)
    /\ iovaPool' = iovaPool \cup {range}
    /\ iovaPhase' = IF Refused(range, i) THEN "overlap" ELSE "nomem"
    /\ UNCHANGED <<iovaDma, iovaResv, iovaHeld, iovaPrev>>

-----------------------------------------------------------------------------
(* invert_regions *)

IovaEnd(region) == Word(region.start + region.length)

\* What is reserved between two regions, before the first and beyond the last.
Between(prev, curr) == Region(IovaEnd(prev), curr.start - IovaEnd(prev))
Before(first) == Region(0, first.start)
Beyond(last) == Region(IovaEnd(last), -IovaEnd(last))

\* list_add and list_add_tail of a region, unless it is empty.
AddFirst(region) == IF region.length = 0 THEN iovaResv ELSE <<region>> \o iovaResv
AddLast(region) == IF region.length = 0 THEN iovaResv ELSE Append(iovaResv, region)

\* The property is read: an empty list has no complement.
IovaInvert ==
    /\ iovaPhase = "walk"
    /\ IF iovaDma = <<>> THEN iovaPhase' = "empty" /\ UNCHANGED iovaPrev
                        ELSE iovaPhase' = "between" /\ iovaPrev' = 1
    /\ UNCHANGED <<iovaPool, iovaDma, iovaResv, iovaHeld>>

InvertBetween ==
    /\ iovaPhase = "between" /\ iovaPrev < Len(iovaDma)
    /\ iovaResv' = AddLast(Between(iovaDma[iovaPrev], iovaDma[iovaPrev + 1]))
    /\ iovaHeld' = iovaHeld + Len(iovaResv') - Len(iovaResv)
    /\ iovaPrev' = iovaPrev + 1
    /\ UNCHANGED <<iovaPool, iovaDma, iovaPhase>>

InvertBefore ==
    /\ iovaPhase = "between" /\ iovaPrev = Len(iovaDma)
    /\ iovaResv' = AddFirst(Before(iovaDma[1]))
    /\ iovaHeld' = iovaHeld + Len(iovaResv') - Len(iovaResv)
    /\ iovaPhase' = "beyond"
    /\ UNCHANGED <<iovaPool, iovaDma, iovaPrev>>

\* The end, with the test against overflow; then dma_regions is freed.
InvertBeyond ==
    LET prev == iovaDma[iovaPrev]
    IN  /\ iovaPhase = "beyond"
        /\ iovaResv' = IF IovaMax - prev.start > prev.length THEN AddLast(Beyond(prev)) ELSE iovaResv
        /\ iovaHeld' = iovaHeld + Len(iovaResv') - Len(iovaResv) - Len(iovaDma)
        /\ iovaDma' = <<>>
        /\ iovaPhase' = "done"
        /\ UNCHANGED <<iovaPool, iovaPrev>>

\* The allocation of a region that is not empty fails: both lists are freed.
InvertFail ==
    /\ \/ /\ iovaPhase = "between" /\ iovaPrev < Len(iovaDma)
          /\ Between(iovaDma[iovaPrev], iovaDma[iovaPrev + 1]).length # 0
       \/ /\ iovaPhase = "between" /\ iovaPrev = Len(iovaDma)
          /\ Before(iovaDma[1]).length # 0
       \/ /\ iovaPhase = "beyond" /\ Beyond(iovaDma[iovaPrev]).length # 0
          /\ IovaMax - iovaDma[iovaPrev].start > iovaDma[iovaPrev].length
    /\ iovaHeld' = iovaHeld - Len(iovaResv) - Len(iovaDma)
    /\ iovaDma' = <<>> /\ iovaResv' = <<>>
    /\ iovaPhase' = "nomem"
    /\ UNCHANGED <<iovaPool, iovaPrev>>

IovaNext ==
    \/ \E start \in Addr, length \in Addr, i \in 1 .. Len(iovaDma) + 1 :
           \/ IovaInsert(Region(start, length), i)
           \/ IovaInsertFail(Region(start, length), i)
    \/ IovaInvert \/ InvertBetween \/ InvertBefore \/ InvertBeyond \/ InvertFail

IovaSpec == IovaInit /\ [][IovaNext]_iovaVars

-----------------------------------------------------------------------------

WellFormed(range) == range.length # 0 /\ range.start + range.length <= IovaMax + 1
Addresses(range) == range.start .. range.start + range.length - 1
RegionsOf(list) == {list[i] : i \in DOMAIN list}
AddressesOf(ranges) == UNION {Addresses(r) : r \in ranges}
Ascending(list) ==
    \A i \in 1 .. Len(list) - 1 : list[i].start + list[i].length <= list[i + 1].start

Disjoint(ranges) ==
    \A r, s \in ranges : r # s => Addresses(r) \cap Addresses(s) = {}

\* The address that the test at the end of invert_regions leaves out.
TopLost == iovaPool # {} /\ IovaMax - 1 \in AddressesOf(iovaPool)
               /\ IovaMax \notin AddressesOf(iovaPool)

(* While the ranges of the device tree are well formed, the list is the ranges   *)
(* in ascending order without overlap, the call is refused for an overlap only      *)
(* when there is one, and what the IOMMU driver gets is exactly the complement,      *)
(* except that the last address is missing when the pool ends just below it.  The     *)
(* regions still held are those the driver was given, or, after a failed insert,       *)
(* the list that is never freed.                                                        *)
IovaMapInv ==
    /\ iovaPhase \in {"walk", "between", "beyond", "overlap", "nomem", "empty", "done"}
    /\ iovaHeld = Len(iovaDma) + Len(iovaResv)
    /\ (\A r \in iovaPool : WellFormed(r)) =>
          /\ Ascending(iovaDma) /\ Ascending(iovaResv)
          /\ iovaPhase = "walk" => RegionsOf(iovaDma) = iovaPool /\ Disjoint(iovaPool)
          /\ iovaPhase = "overlap" => \E r \in iovaPool : \E d \in RegionsOf(iovaDma) :
                                          Addresses(r) \cap Addresses(d) # {}
          /\ iovaPhase = "done" =>
                /\ Disjoint(iovaPool)
                /\ AddressesOf(RegionsOf(iovaResv)) =
                      (Addr \ AddressesOf(iovaPool)) \ (IF TopLost THEN {IovaMax} ELSE {})

=============================================================================
