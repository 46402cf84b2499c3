------------------------------ MODULE HeapProbe ------------------------------
(***************************************************************************)
(* Probe of the DMA heaps (drivers/qcom_dma_heap.c, qcom_dt_parser.c and the   *)
(* create functions of qcom_carveout_heap.c and qcom_cma_heap.c).  The device   *)
(* tree lists the heaps; parsing makes a platform device for each and          *)
(* initialises its reserved memory region, then the heaps are created.  A       *)
(* parse that fails gives the regions back that it initialised.                *)
(***************************************************************************)
EXTENDS Integers, FiniteSets

CONSTANTS
    Heaps,  \* number of heap nodes of the device tree
    Trees   \* the device trees: sequences of heap nodes

Heap == 1 .. Heaps

\* A reserved memory region has ops when a driver such as CMA manages it.
Node == [type : {"carveout", "cma", "unknown"}, mem : {"none", "plain", "ops"}]

ASSUME ProbeAssumption ==
    /\ Heaps \in Nat \ {0}
    /\ Trees \subseteq [Heap -> Node]

VARIABLES
    node,    \* node[i]: type of the heap and its memory-region, from the device tree
    idx,     \* heap that probe is working on
    probe,   \* progress of qcom_dma_heap_probe
    region,  \* heaps whose reserved memory is initialised for their device
    memRef,  \* heaps whose memory-region node is referenced
    heap     \* heap[i]: "none", or the result of creating heap i

probeVars == <<node, idx, probe, region, memRef, heap>>

ProbeTypeOK ==
    /\ node \in Trees
    /\ idx \in 0 .. Heaps
    /\ probe \in {"parse", "region", "release", "create", "done", "failed"}
    /\ region \subseteq Heap /\ memRef \subseteq Heap
    /\ heap \in [Heap -> {"none", "created", "failed"}]

ProbeInit ==
    /\ node \in Trees
    /\ idx = 1 /\ probe = "parse"
    /\ region = {} /\ memRef = {}
    /\ heap = [i \in Heap |-> "none"]

-----------------------------------------------------------------------------
(* parse_heap_dt *)

\* release_reserved_memory_regions(heaps, i) starts at the heap before i.
ReleaseStart(i) == i - 1

GiveUp == probe' = "release" /\ idx' = ReleaseStart(idx)

NextNode ==
    IF idx = Heaps THEN probe' = "create" /\ idx' = 1 ELSE probe' = "parse" /\ idx' = idx + 1

\* of_platform_device_create, of_dma_configure and populate_heap.
ParseNode ==
    /\ probe = "parse" /\ idx \in Heap
    /\ probe' = "region"
    /\ memRef' = IF node[idx].mem = "none" THEN memRef ELSE memRef \cup {idx}
    /\ UNCHANGED <<node, idx, region, heap>>

ParseFail ==
    /\ probe = "parse" /\ idx \in Heap
    /\ GiveUp
    /\ UNCHANGED <<node, region, memRef, heap>>

ParseNoRegion ==
    /\ probe = "region" /\ node[idx].mem = "none"
    /\ NextNode
    /\ UNCHANGED <<node, region, memRef, heap>>

\* heap_dt_init succeeds: only a region with ops has something to initialise.
RegionInit ==
    /\ probe = "region" /\ node[idx].mem # "none"
    /\ region' = IF node[idx].mem = "ops" THEN region \cup {idx} ELSE region
    /\ memRef' = memRef \ {idx}
    /\ NextNode
    /\ UNCHANGED <<node, heap>>

\* The region is not found, or cannot be initialised; nobody drops the node.
RegionFail ==
    /\ probe = "region" /\ node[idx].mem # "none"
    /\ GiveUp
    /\ UNCHANGED <<node, region, memRef, heap>>

\* The address does not translate: the region is initialised and released again.
RegionBadAddress ==
    /\ probe = "region" /\ node[idx].mem # "none"
    /\ region' = region \ {idx}
    /\ GiveUp
    /\ UNCHANGED <<node, memRef, heap>>

ReleaseRegion ==
    /\ probe = "release" /\ idx >= 1
    /\ region' = IF node[idx].mem = "none" THEN region ELSE region \ {idx}
    /\ idx' = idx - 1
    /\ UNCHANGED <<node, probe, memRef, heap>>

\* free_pdata; probe returns the error.
ReleaseDone ==
    /\ probe = "release" /\ idx < 1
    /\ probe' = "failed" /\ idx' = 0
    /\ UNCHANGED <<node, region, memRef, heap>>

-----------------------------------------------------------------------------
(* qcom_dma_heap_probe *)

NextHeap ==
    IF idx = Heaps THEN probe' = "done" /\ idx' = 0 ELSE idx' = idx + 1 /\ UNCHANGED probe

\* qcom_carveout_heap_create or qcom_add_cma_heap, up to dma_heap_add.
CreateHeap ==
    /\ probe = "create" /\ node[idx].type # "unknown"
    /\ heap' = [heap EXCEPT ![idx] = "created"]
    /\ NextHeap
    /\ UNCHANGED <<node, region, memRef>>

\* The heap fails, with what it allocated freed; probe goes on with the next.
CreateFail ==
    /\ probe = "create" /\ node[idx].type # "unknown"
    /\ heap' = [heap EXCEPT ![idx] = "failed"]
    /\ NextHeap
    /\ UNCHANGED <<node, region, memRef>>

\* A heap type that probe does not know.
SkipHeap ==
    /\ probe = "create" /\ node[idx].type = "unknown"
    /\ NextHeap
    /\ UNCHANGED <<node, region, memRef, heap>>

\* Every step of probe but the creation of a heap, which also prepares its memory.
ProbeNext ==
    \/ ParseNode \/ ParseFail \/ ParseNoRegion
    \/ RegionInit \/ RegionFail \/ RegionBadAddress
    \/ ReleaseRegion \/ ReleaseDone \/ CreateFail \/ SkipHeap

-----------------------------------------------------------------------------

(* A parse that fails, at whichever heap and step, leaves no region initialised *)
(* and at most the reference of the heap it failed at; one that succeeds leaves *)
(* the regions of all its heaps, so that a heap that is created has its memory. *)
RegionsAccounted ==
    /\ probe = "failed" => region = {} /\ Cardinality(memRef) <= 1
    /\ probe \in {"create", "done"} =>
          memRef = {} /\ region = {i \in Heap : node[i].mem = "ops"}

=============================================================================
