---------------------------- MODULE DriversProofs ----------------------------
(***************************************************************************)
(* The safety of the drivers that share no state, each from its own           *)
(* specification: the download mode, the power requests, the secure calls of    *)
(* user space, the bandwidth profiler, the report of cache errors, the reserved  *)
(* memory of a KIUMD file, the DMA heaps, the MHI network device and the regions   *)
(* of an IOMMU group.  Of the network device: which packets it forgets and how, the *)
(* queue owes nobody a work item, the workqueue is misused by a late transmit only,    *)
(* and it implements the line of NetLink.                                              *)
(***************************************************************************)
EXTENDS Profiler, KryoEdac, Uscmi, ScmUser, KiumdFile, Dload, SgBuffer, MhiEpNet,
        IovaMap, FiniteSetTheorems, TLAPS

-----------------------------------------------------------------------------
(* Download mode *)

\* What a call carries: a writer its mode, probe the value it has read.
DlCallOf(c) ==
    /\ dlCall[c] \in [pc : {"idle", "io", "assign"}, mode : DlMode \cup {"unknown", DlNone},
                     shared : BOOLEAN]
    /\ DlBusy(c) /\ c \in DlWriter => dlCall[c].mode \in DlMode
    /\ dlCall[c].pc = "assign" => dlCall[c].mode \in DlMode \cup {"unknown"}

\* A call without company is the only one, and what it wrote is what is there.
DlAlone(c) ==
    DlBusy(c) /\ ~dlCall[c].shared =>
        /\ \A d \in DlCaller : DlBusy(d) => d = c
        /\ dlCall[c].pc = "assign" => dlCall[c].mode = dlReg

\* The copy that agreed may lag only behind a call about to assign it.
DlLag == dlAgree /\ (\A c \in DlCaller : dlCall[c].pc # "assign") => dlCopy = dlReg

DlIInv ==
    /\ dlReg \in DlMode \cup {"unknown"} /\ dlCopy \in DlMode \cup {"unknown"}
    /\ dlAgree \in BOOLEAN
    /\ dlCall = [c \in DlCaller |-> dlCall[c]]
    /\ \A c \in DlCaller : DlCallOf(c) /\ DlAlone(c)
    /\ DlLag
    /\ dlFile # "present" => dlCopy = "full" /\ \A c \in DlCaller : ~DlBusy(c)

\* The register and the copy of the boot loader's mode at the start.
LEMMA DlInitial == DlInit => DlIInv
<1> SUFFICES ASSUME DlInit PROVE DlIInv
  OBVIOUS
<1>1. \A c \in DlCaller : dlCall[c] = DlIdle /\ ~DlBusy(c)
  BY DEF DlInit, DlBusy, DlIdle
<1>2. \A c \in DlCaller : DlCallOf(c) /\ DlAlone(c)
  <2>1. DlIdle \in [pc : {"idle", "io", "assign"}, mode : DlMode \cup {"unknown", DlNone},
                    shared : BOOLEAN]
    BY DEF DlIdle
  <2>2. DlIdle.pc # "assign"
    BY DEF DlIdle
  <2> QED
    BY <1>1, <2>1, <2>2 DEF DlCallOf, DlAlone
<1>3. dlCall = [c \in DlCaller |-> dlCall[c]]
  BY DEF DlInit
<1> QED
  BY <1>1, <1>2, <1>3 DEF DlInit, DlIInv, DlLag, DlMode

\* A step of the download mode, a store, a read or an assignment, keeps DlIInv.
LEMMA DlStep == DlIInv /\ [DlNext]_dlVars => DlIInv'
<1> SUFFICES ASSUME DlIInv, [DlNext]_dlVars PROVE DlIInv'
  OBVIOUS
<1> USE DlAssumption
<1>1. CASE DlProbeFail
  BY <1>1 DEF DlProbeFail, DlIInv, DlCallOf, DlAlone, DlLag, DlBusy
<1>2. CASE DlCreateFile
  BY <1>2 DEF DlCreateFile, DlBegin, DlIInv, DlCallOf, DlAlone, DlLag, DlBusy, DlCaller, DlProbe
<1>3. CASE DlRead
  <2>1. CASE dlCall' = [dlCall EXCEPT ![DlProbe].pc = "assign", ![DlProbe].mode = dlReg]
    BY <1>3, <2>1, SMTT(20) DEF DlRead, DlEnd, DlIdle, DlIInv, DlCallOf, DlAlone, DlLag, DlBusy, DlCaller, DlProbe
  <2>2. CASE DlEnd(DlProbe)
    BY <1>3, <2>2 DEF DlRead, DlEnd, DlIdle, DlIInv, DlCallOf, DlAlone, DlLag, DlBusy, DlCaller, DlProbe
  <2> QED
    BY <1>3, <2>1, <2>2 DEF DlRead
<1>4. ASSUME NEW c \in DlWriter, DlWrite(c) PROVE DlIInv'
  <2>1. CASE dlReg' = dlCall[c].mode /\ DlWritten(c)
    BY <1>4, <2>1, ZenonT(30) DEF DlWrite, DlWritten, DlIInv, DlCallOf, DlAlone, DlLag, DlBusy,
       DlCaller, DlProbe
  <2>2. CASE UNCHANGED dlReg /\ DlRefused(c)
    BY <1>4, <2>2 DEF DlWrite, DlRefused, DlEnd, DlIdle, DlIInv, DlCallOf, DlAlone,
       DlLag, DlBusy, DlCaller, DlProbe
  <2> QED
    BY <1>4, <2>1, <2>2 DEF DlWrite
<1>5. ASSUME NEW c \in DlWriter, NEW mode \in DlMode, DlStore(c, mode) PROVE DlIInv'
  BY <1>5, ZenonT(30) DEF DlStore, DlBegin, DlIInv, DlCallOf, DlAlone, DlLag, DlBusy, DlCaller, DlProbe
<1>6. ASSUME NEW c \in DlCaller, DlAssign(c) PROVE DlIInv'
  BY <1>6 DEF DlAssign, DlEnd, DlIdle, DlIInv, DlCallOf, DlAlone, DlLag, DlBusy, DlCaller, DlProbe
<1>7. CASE UNCHANGED dlVars
  BY <1>7 DEF dlVars, DlIInv, DlCallOf, DlAlone, DlLag, DlBusy
<1> QED
  BY <1>1, <1>2, <1>3, <1>4, <1>5, <1>6, <1>7 DEF DlNext

(* dload_mode_store and the end of probe: between calls, sysfs shows the      *)
(* value of the register once a call that no other overlapped has succeeded,     *)
(* and without the file nothing touches the copy.                                 *)
THEOREM DloadInvHolds == DlSpec => []DloadInv
<1>1. DlIInv => DloadInv
  BY DEF DlIInv, DloadInv, DlLag, DlBusy
<1> QED
  BY <1>1, DlInitial, DlStep, PTL DEF DlSpec

-----------------------------------------------------------------------------
(* Power requests *)

\* The requests there are: a power request is in its change, a performance
\* request in its change or its put.
PdCallOf(t) ==
    \/ pdCall[t] = PdIdle
    \/ pdCall[t].op \in {"on", "off", "level"} /\ pdCall[t].pc = "change"
    \/ pdCall[t].op = "level" /\ pdCall[t].pc = "put"

PdPutting == \E t \in PdThread : pdCall[t].pc = "put"

\* Before requests overlap one thread is inside, and one that found the domain
\* off to turn it on still finds no count.
PdOneByOne ==
    ~pdOverlap =>
        /\ \A t, u \in PdThread : pdCall[t].pc # "idle" /\ pdCall[u].pc # "idle" => t = u
        /\ \A t \in PdThread : pdCall[t].op = "on" => pdCount = 0
        /\ pdCount = (IF pdLast = "on" THEN 1 ELSE 0) + (IF PdPutting THEN 1 ELSE 0)

\* Until the end of probe the only domain is on, so that nobody takes it.
PdWindow ==
    ~pdUp /\ ~pdMulti =>
        /\ pdHeld /\ pdCount = 0
        /\ \A t \in PdThread : pdCall[t].op \in {"none", "off"}

PdIInv == PdTypeOK /\ (\A t \in PdThread : PdCallOf(t)) /\ PdOneByOne /\ PdWindow

\* After misc_register.
LEMMA PdInitial == PdInit => PdIInv
<1> SUFFICES ASSUME PdInit PROVE PdIInv
  OBVIOUS
<1>1. PdIdle \in [op : {"none", "on", "off", "level"}, pc : {"idle", "change", "put"}]
  BY DEF PdIdle
<1>2. \A t \in PdThread : pdCall[t] = PdIdle
  BY DEF PdInit
<1>3. PdTypeOK
  <2>1. pdCount \in 0 .. MaxCount
    BY PdAssumption DEF PdInit
  <2>2. pdCall \in [PdThread -> [op : {"none", "on", "off", "level"},
                                pc : {"idle", "change", "put"}]]
    BY <1>1 DEF PdInit
  <2> QED
    BY <2>1, <2>2 DEF PdInit, PdTypeOK
<1>4. ~PdPutting /\ \A t \in PdThread : pdCall[t].pc = "idle" /\ pdCall[t].op # "on"
  BY <1>2 DEF PdPutting, PdIdle
<1>5. PdWindow
  BY <1>2 DEF PdInit, PdWindow, PdIdle
<1> QED
  BY <1>2, <1>3, <1>4, <1>5 DEF PdInit, PdIInv, PdCallOf, PdOneByOne

\* A request that begins, whatever it is about, keeps PdIInv when the last
\* successful request still accounts for the count.
LEMMA PdEnterMove ==
    ASSUME PdIInv, NEW t \in PdThread, NEW r,
           \/ r = PdIdle
           \/ r = [op |-> "level", pc |-> "change"] /\ pdMulti
           \/ r = [op |-> "off", pc |-> "change"]
           \/ r = [op |-> "on", pc |-> "change"] /\ pdCount = 0 /\ ~pdHeld,
           PdEnter(t, r), pdCount' = pdCount, pdMulti' = pdMulti, pdOther' = pdOther,
           pdUp' = pdUp, pdHeld' = pdHeld,
           pdLast' \in {"none", "on", "off", "borrowed", "refused"},
           pdLast' = pdLast \/ (pdLast' = "on") = (pdCount > 0)
    PROVE  PdIInv'
<1>1. r \in [op : {"none", "on", "off", "level"}, pc : {"idle", "change", "put"}]
  BY DEF PdIdle
<1>2. PdTypeOK'
  BY <1>1, SMT DEF PdIInv, PdTypeOK, PdEnter
<1>3. \A u \in PdThread : pdCall'[u] = IF u = t THEN r ELSE pdCall[u]
  BY DEF PdIInv, PdTypeOK, PdEnter
<1>4. \A u \in PdThread : PdCallOf(u)'
  BY <1>3 DEF PdIInv, PdCallOf, PdIdle
<1>5. r.pc # "put" /\ (r.op = "on" => pdCount = 0)
  BY DEF PdIdle
<1>6. ASSUME ~pdOverlap' PROVE PdOneByOne'
  <2>1. ~pdOverlap /\ \A u \in PdThread : pdCall[u].pc = "idle"
    BY <1>6 DEF PdEnter, PdIInv, PdTypeOK
  <2>2. ~PdPutting /\ ~PdPutting'
    BY <2>1, <1>3, <1>5 DEF PdPutting
  <2>3. \A u \in PdThread : pdCall[u].op = "on" => pdCount = 0
    BY <2>1 DEF PdIInv, PdOneByOne
  <2>4. pdCount = IF pdLast = "on" THEN 1 ELSE 0
    BY <2>1, <2>2 DEF PdIInv, PdOneByOne
  <2> QED
    BY <2>1, <2>2, <2>3, <2>4, <1>3, <1>5 DEF PdOneByOne
<1>7. PdWindow'
  BY <1>3 DEF PdIInv, PdWindow, PdIdle
<1> QED
  BY <1>2, <1>4, <1>6, <1>7 DEF PdIInv, PdOneByOne

\* A request that ends, after PdPut, PdGet, PdGetFail or PdLevelPut.
LEMMA PdLeaveFrame ==
    ASSUME PdIInv, NEW t \in PdThread, PdLeave(t), pdOverlap' = pdOverlap
    PROVE  /\ pdCall' \in [PdThread -> [op : {"none", "on", "off", "level"},
                                        pc : {"idle", "change", "put"}]]
           /\ \A u \in PdThread : PdCallOf(u)'
           /\ \A u \in PdThread : pdCall'[u] = IF u = t THEN PdIdle ELSE pdCall[u]
           /\ ~pdOverlap /\ pdCall[t].pc # "idle" =>
                  (\A u \in PdThread : pdCall'[u] = PdIdle) /\ ~PdPutting'
<1>1. PdIdle \in [op : {"none", "on", "off", "level"}, pc : {"idle", "change", "put"}]
  BY DEF PdIdle
<1>2. \A u \in PdThread : pdCall'[u] = IF u = t THEN PdIdle ELSE pdCall[u]
  BY DEF PdIInv, PdTypeOK, PdLeave
<1>3. ASSUME ~pdOverlap, pdCall[t].pc # "idle"
      PROVE  (\A u \in PdThread : pdCall'[u] = PdIdle) /\ ~PdPutting'
  <2>1. \A u \in PdThread : u # t => pdCall[u].pc = "idle"
    BY <1>3 DEF PdIInv, PdOneByOne
  <2>2. \A u \in PdThread : u # t => pdCall[u] = PdIdle
    BY <2>1 DEF PdIInv, PdCallOf
  <2> QED
    BY <1>2, <2>2 DEF PdPutting, PdIdle
<1> QED
  BY <1>1, <1>2, <1>3 DEF PdIInv, PdTypeOK, PdLeave, PdCallOf

\* A step of the power requests keeps PdIInv.
LEMMA PdStep == PdIInv /\ [PdNext]_pdVars => PdIInv'
<1> SUFFICES ASSUME PdIInv, [PdNext]_pdVars PROVE PdIInv'
  OBVIOUS
<1> USE PdAssumption
<1>1. CASE PdOther \/ PdSettle
  <2>1. pdUp' = pdUp /\ pdMulti' = pdMulti /\ pdCount' = pdCount /\ pdCall' = pdCall
        /\ pdLast' = pdLast /\ pdOverlap' = pdOverlap
    BY <1>1 DEF PdOther, PdSettle
  <2>2. {pdHeld', pdOther'} \subseteq BOOLEAN /\ (pdHeld' = pdHeld \/ pdUp)
    BY <1>1 DEF PdOther, PdSettle, PdIInv, PdTypeOK
  <2>3. PdTypeOK' /\ PdWindow'
    BY <2>1, <2>2 DEF PdIInv, PdTypeOK, PdWindow
  <2>4. PdOneByOne' /\ \A t \in PdThread : PdCallOf(t)'
    BY <2>1 DEF PdIInv, PdCallOf, PdPutting, PdOneByOne
  <2> QED
    BY <2>3, <2>4 DEF PdIInv
<1>8. CASE PdForbid
  <2>1. PdTypeOK' /\ PdWindow' /\ \A t \in PdThread : PdCallOf(t)'
    <3>1. pdUp' = TRUE /\ pdMulti' = pdMulti /\ pdOther' = pdOther /\ pdCall' = pdCall
          /\ pdOverlap' = pdOverlap
      BY <1>8 DEF PdForbid
    <3>2. pdHeld' \in BOOLEAN /\ pdCount' \in 0 .. MaxCount
          /\ pdLast' \in {"none", "on", "off", "borrowed", "refused"}
      <4>1. pdMulti \in BOOLEAN /\ pdHeld \in BOOLEAN
        BY DEF PdIInv, PdTypeOK
      <4>2. CASE pdMulti
        BY <1>8, <4>1, <4>2 DEF PdForbid, PdIInv, PdTypeOK
      <4>3. CASE ~pdMulti
        <5>1. pdCount = 0
          BY <1>8, <4>3 DEF PdForbid, PdIInv, PdWindow
        <5>2. pdHeld' = FALSE /\ pdCount' = pdCount + 1 /\ pdLast' = "on"
          BY <1>8, <4>3 DEF PdForbid
        <5>3. pdCount' = 1
          BY <5>1, <5>2
        <5>4. 1 \in 0 .. MaxCount
          BY PdAssumption
        <5> QED
          BY <5>2, <5>3, <5>4
      <4> QED
        BY <4>2, <4>3
    <3>3. {pdUp, pdMulti, pdHeld, pdOther, pdOverlap} \subseteq BOOLEAN
      BY DEF PdIInv, PdTypeOK
    <3>4. {pdUp, pdMulti, pdHeld, pdOther, pdOverlap}' \subseteq BOOLEAN
      BY <3>1, <3>2, <3>3
    <3>5. PdTypeOK'
      BY <3>1, <3>2, <3>4 DEF PdIInv, PdTypeOK
    <3>6. PdWindow' /\ \A t \in PdThread : PdCallOf(t)'
      BY <3>1 DEF PdIInv, PdCallOf, PdWindow
    <3> QED
      BY <3>5, <3>6
  <2>2. CASE pdMulti
    <3>1. pdCount' = pdCount /\ pdLast' = pdLast /\ pdCall' = pdCall /\ pdOverlap' = pdOverlap
      BY <1>8, <2>2 DEF PdForbid
    <3>2. PdOneByOne'
      BY <3>1 DEF PdIInv, PdOneByOne, PdPutting
    <3> QED
      BY <2>1, <3>2 DEF PdIInv
  <2>3. CASE ~pdMulti
    <3>1. pdCount' = 1 /\ pdLast' = "on" /\ pdCall' = pdCall /\ pdOverlap' = pdOverlap
      BY <1>8, <2>3 DEF PdForbid, PdIInv, PdWindow
    <3>2. \A t \in PdThread : pdCall[t].op \in {"none", "off"} /\ PdCallOf(t)
      BY <1>8, <2>3 DEF PdForbid, PdIInv, PdWindow
    <3>3. ~PdPutting'
      BY <3>1, <3>2 DEF PdPutting, PdCallOf, PdIdle
    <3>4. PdOneByOne'
      BY <3>1, <3>2, <3>3 DEF PdIInv, PdOneByOne
    <3> QED
      BY <2>1, <3>4 DEF PdIInv
  <2> QED
    BY <2>1, <2>2, <2>3 DEF PdIInv
<1>2. ASSUME NEW t \in PdThread, NEW op \in {"on", "off"}, PdNothing(t, op) PROVE PdIInv'
  <2>1. pdCount \in Nat
    BY DEF PdIInv, PdTypeOK
  <2> QED
    BY <1>2, <2>1, PdEnterMove DEF PdNothing, Needed, DomainOn
<1>3. ASSUME NEW t \in PdThread, NEW op \in {"on", "off"}, PdTest(t, op) PROVE PdIInv'
  <2>1. pdCount \in Nat /\ pdLast \in {"none", "on", "off", "borrowed", "refused"}
    BY DEF PdIInv, PdTypeOK
  <2>2. op = "on" => pdCount = 0 /\ ~pdHeld
    BY <1>3, <2>1 DEF PdTest, Needed, DomainOn
  <2> QED
    BY <1>3, <2>1, <2>2, PdEnterMove DEF PdTest
<1>4. ASSUME NEW t \in PdThread, PdLevel(t) PROVE PdIInv'
  <2>1. pdLast \in {"none", "on", "off", "borrowed", "refused"}
    BY DEF PdIInv, PdTypeOK
  <2> QED
    BY <1>4, <2>1, PdEnterMove DEF PdLevel
<1>5. ASSUME NEW t \in PdThread, NEW ok \in BOOLEAN,
             PdPut(t, ok) \/ PdGet(t) \/ PdGetFail(t) \/ PdLevelPut(t, ok)
      PROVE  PdIInv'
  <2>1. PdLeave(t) /\ pdOverlap' = pdOverlap /\ pdCall[t].pc # "idle"
    BY <1>5 DEF PdPut, PdGet, PdGetFail, PdLevelPut
  <2>2. PdTypeOK'
    <3>1. /\ {pdUp, pdMulti, pdHeld, pdOther, pdOverlap} \subseteq BOOLEAN
          /\ pdCount \in 0 .. MaxCount /\ pdLast \in {"none", "on", "off", "borrowed", "refused"}
      BY DEF PdIInv, PdTypeOK
    <3>2. pdUp' = pdUp /\ pdMulti' = pdMulti /\ pdOther' = pdOther
      BY <1>5 DEF PdPut, PdGet, PdGetFail, PdLevelPut
    <3>3. pdHeld' \in BOOLEAN
      BY <1>5, <3>1 DEF PdPut, PdGet, PdGetFail, PdLevelPut, PutSync
    <3>4. pdCount' \in 0 .. MaxCount
      BY <1>5, <3>1 DEF PdPut, PdGet, PdGetFail, PdLevelPut, PutSync
    <3>5. pdLast' \in {"none", "on", "off", "borrowed", "refused"}
      BY <1>5, <3>1 DEF PdPut, PdGet, PdGetFail, PdLevelPut
    <3>6. {pdUp, pdMulti, pdHeld, pdOther, pdOverlap}' \subseteq BOOLEAN
      BY <2>1, <3>1, <3>2, <3>3
    <3> QED
      BY <2>1, <3>4, <3>5, <3>6, PdLeaveFrame DEF PdTypeOK
  <2>3. ASSUME ~pdOverlap PROVE PdOneByOne'
    <3>1. (\A u \in PdThread : pdCall'[u] = PdIdle) /\ ~PdPutting'
      BY <2>1, <2>3, PdLeaveFrame
    <3>2. pdCount = (IF pdLast = "on" THEN 1 ELSE 0) + (IF pdCall[t].pc = "put" THEN 1 ELSE 0)
      <4>1. PdPutting <=> pdCall[t].pc = "put"
        BY <2>1, <2>3 DEF PdIInv, PdOneByOne, PdPutting
      <4> QED
        BY <2>3, <4>1 DEF PdIInv, PdOneByOne
    <3>3. pdCall[t].op = "on" => pdCount = 0
      BY <2>3 DEF PdIInv, PdOneByOne
    <3>4. pdCount' = IF pdLast' = "on" THEN 1 ELSE 0
      <4>1. CASE PdPut(t, ok)
        BY <3>2, <4>1 DEF PdPut, PutSync
      <4>2. CASE PdGet(t)
        BY <3>2, <3>3, <4>2 DEF PdGet
      <4>3. CASE PdGetFail(t)
        BY <3>2, <4>3 DEF PdGetFail
      <4>4. CASE PdLevelPut(t, ok)
        BY <3>2, <4>4 DEF PdLevelPut, PutSync
      <4> QED
        BY <1>5, <4>1, <4>2, <4>3, <4>4
    <3> QED
      BY <3>1, <3>4 DEF PdOneByOne, PdIdle
  <2>4. PdWindow'
    <3>1. \A u \in PdThread : pdCall'[u] = IF u = t THEN PdIdle ELSE pdCall[u]
      BY <2>1, PdLeaveFrame
    <3>2. pdUp' = pdUp /\ pdMulti' = pdMulti
      BY <1>5 DEF PdPut, PdGet, PdGetFail, PdLevelPut
    <3>3. ASSUME ~pdUp, ~pdMulti PROVE pdHeld' /\ pdCount' = 0
      <4>1. pdHeld /\ pdCount = 0 /\ pdCall[t].op \in {"none", "off"} /\ PdCallOf(t)
        BY <3>3 DEF PdIInv, PdWindow
      <4>2. PdPut(t, ok)
        BY <1>5, <4>1 DEF PdGet, PdGetFail, PdLevelPut, PdCallOf, PdIdle
      <4> QED
        BY <4>1, <4>2 DEF PdPut, PutSync
    <3> QED
      BY <3>1, <3>2, <3>3 DEF PdIInv, PdWindow, PdIdle
  <2> QED
    BY <2>1, <2>2, <2>3, <2>4, PdLeaveFrame DEF PdIInv, PdOneByOne
<1>6. ASSUME NEW t \in PdThread, PdLevelGet(t) PROVE PdIInv'
  <2>1. /\ pdCall[t] = [op |-> "level", pc |-> "change"] /\ pdHeld' = FALSE
        /\ pdCount < MaxCount /\ pdCount' = pdCount + 1
        /\ pdUp' = pdUp /\ pdMulti' = pdMulti /\ pdOther' = pdOther /\ pdLast' = pdLast
        /\ pdOverlap' = pdOverlap /\ pdCall' = [pdCall EXCEPT ![t].pc = "put"]
    BY <1>6 DEF PdLevelGet
  <2>2. \A u \in PdThread : pdCall'[u] = IF u = t THEN [op |-> "level", pc |-> "put"] ELSE pdCall[u]
    BY <2>1 DEF PdIInv, PdTypeOK
  <2>3. pdCall' \in [PdThread -> [op : {"none", "on", "off", "level"},
                                 pc : {"idle", "change", "put"}]]
    BY <2>1 DEF PdIInv, PdTypeOK
  <2>4. {pdUp, pdMulti, pdHeld, pdOther, pdOverlap}' \subseteq BOOLEAN
    BY <2>1 DEF PdIInv, PdTypeOK
  <2>5. PdTypeOK'
    BY <2>1, <2>3, <2>4 DEF PdIInv, PdTypeOK
  <2>6. \A u \in PdThread : PdCallOf(u)'
    BY <2>1, <2>2 DEF PdIInv, PdCallOf, PdIdle
  <2>7. pdUp \/ pdMulti
    BY <2>1 DEF PdIInv, PdWindow
  <2>8. ASSUME ~pdOverlap PROVE PdOneByOne'
    <3>1. \A u \in PdThread : u # t => pdCall[u].pc = "idle"
      BY <2>1, <2>8 DEF PdIInv, PdOneByOne
    <3>2. ~PdPutting /\ PdPutting'
      BY <2>1, <2>2, <3>1 DEF PdPutting
    <3>3. \A u \in PdThread : pdCall'[u].op # "on"
      BY <2>2, <3>1 DEF PdIInv, PdCallOf, PdIdle
    <3> QED
      BY <2>1, <2>2, <2>8, <3>1, <3>2, <3>3 DEF PdIInv, PdTypeOK, PdOneByOne
  <2> QED
    BY <2>1, <2>5, <2>6, <2>7, <2>8 DEF PdIInv, PdOneByOne, PdWindow
<1>7. CASE UNCHANGED pdVars
  BY <1>7 DEF pdVars, PdIInv, PdTypeOK, PdCallOf, PdPutting, PdOneByOne, PdWindow
<1> QED
  BY <1>1, <1>2, <1>3, <1>4, <1>5, <1>6, <1>7, <1>8 DEF PdNext

(* do_power_operation and do_performance_operation: as long as requests come  *)
(* one after the other the usage count is the one the last PWR_ON or PWR_OFF with   *)
(* an effect left, or the end of probe, however they are repeated and whether or     *)
(* not the domain goes off.                                                          *)
THEOREM PdInvHolds == PdSpec => []PdInv
<1>1. PdIInv => PdInv
  BY DEF PdIInv, PdInv, PdOneByOne, PdPutting
<1> QED
  BY <1>1, PdInitial, PdStep, PTL DEF PdSpec

-----------------------------------------------------------------------------
(* Sets that differ in one element *)

\* The sizes of two finite sets that differ in t at most.
LEMMA CardMove ==
    ASSUME NEW S, NEW T, NEW t, IsFiniteSet(S), \A u : u # t => (u \in S <=> u \in T)
    PROVE  /\ IsFiniteSet(T) /\ Cardinality(S) \in Nat /\ Cardinality(T) \in Nat
           /\ Cardinality(T) = (Cardinality(S) + (IF t \in T THEN 1 ELSE 0))
                                   - (IF t \in S THEN 1 ELSE 0)
           /\ t \in S => Cardinality(S) >= 1
<1>1. Cardinality(S) \in Nat
  BY FS_CardinalityType
<1>2. t \in S => Cardinality(S) >= 1 /\ IsFiniteSet(S \ {t}) /\ Cardinality(S \ {t}) = Cardinality(S) - 1
  <2> SUFFICES ASSUME t \in S
               PROVE  /\ Cardinality(S) >= 1 /\ IsFiniteSet(S \ {t})
                      /\ Cardinality(S \ {t}) = Cardinality(S) - 1
    OBVIOUS
  <2>1. IsFiniteSet(S \ {t}) /\ Cardinality(S \ {t}) = Cardinality(S) - 1
    BY FS_RemoveElement
  <2>2. Cardinality(S \ {t}) \in Nat
    BY <2>1, FS_CardinalityType
  <2> QED
    BY <1>1, <2>1, <2>2
<1>3. CASE (t \in S) = (t \in T)
  <2>1. S = T
    BY <1>3
  <2> QED
    BY <1>1, <1>2, <2>1
<1>4. CASE t \in S /\ t \notin T
  <2>1. T = S \ {t}
    BY <1>4
  <2> QED
    BY <1>1, <1>2, <1>4, <2>1
<1>5. CASE t \notin S /\ t \in T
  <2>1. T = S \cup {t}
    BY <1>5
  <2>2. IsFiniteSet(T) /\ Cardinality(T) = Cardinality(S) + 1
    BY <1>5, <2>1, FS_AddElement
  <2> QED
    BY <1>1, <1>2, <1>5, <2>2
<1> QED
  BY <1>3, <1>4, <1>5

-----------------------------------------------------------------------------
(* Secure calls of user space *)

\* The calls that hold a reference of b.
ScmHeld(b) == {t \in Inside(b) : scmCall[t].pc \in {"map", "put"}}

ScmOpened(b) == IF b \in scmOpen THEN 1 ELSE 0

ScmAccount(b) == scmRef[b] = (ScmOpened(b) + scmKept[b]) + Cardinality(ScmHeld(b))

\* A call names a buffer, whose descriptor was closed under it or is open.
ScmCallOf(t) ==
    /\ scmCall[t].pc = "idle" <=> scmCall[t].buf = ScmNone
    /\ scmCall[t].buf \in ScmBuf => scmCall[t].buf \in scmOpen \cup scmClosed

ScmIInv ==
    /\ ScmTypeOK
    /\ \A t \in ScmThread : ScmCallOf(t)
    /\ \A b \in ScmBuf : ScmAccount(b)
    /\ \A b \in scmGone : scmRef[b] = 0
    /\ scmStale \subseteq scmClosed
    /\ \A b \in ScmBuf \ scmScattered : scmKept[b] = 0

\* No call holds anything at the start.
LEMMA ScmInitial == ScmInit => ScmIInv
<1> SUFFICES ASSUME ScmInit PROVE ScmIInv
  OBVIOUS
<1> USE ScmAssumption
<1>1. ScmIdle \in [pc : {"idle", "map", "put", "call"}, buf : ScmBuf \cup {ScmNone}]
  BY DEF ScmIdle
<1>2. ScmTypeOK
  <2>1. scmCall \in [ScmThread -> [pc : {"idle", "map", "put", "call"},
                                  buf : ScmBuf \cup {ScmNone}]]
    BY <1>1 DEF ScmInit
  <2> QED
    BY <2>1 DEF ScmInit, ScmTypeOK
<1>3. \A t \in ScmThread : ScmCallOf(t)
  BY DEF ScmInit, ScmCallOf, ScmIdle
<1>4. ASSUME NEW b \in ScmBuf PROVE ScmAccount(b)
  <2>1. ScmHeld(b) = {}
    BY DEF ScmInit, ScmHeld, Inside, ScmIdle
  <2> QED
    BY <2>1, FS_EmptySet DEF ScmInit, ScmAccount, ScmOpened
<1> QED
  BY <1>2, <1>3, <1>4 DEF ScmInit, ScmIInv

\* The references counted when only the call of t changes.
LEMMA ScmHeldMove ==
    ASSUME NEW b, NEW t \in ScmThread,
           \A u \in ScmThread : u # t => scmCall'[u] = scmCall[u]
    PROVE  /\ Cardinality(ScmHeld(b)) \in Nat /\ Cardinality(ScmHeld(b)') \in Nat
           /\ Cardinality(ScmHeld(b)') =
                  (Cardinality(ScmHeld(b)) + (IF t \in ScmHeld(b)' THEN 1 ELSE 0))
                      - (IF t \in ScmHeld(b) THEN 1 ELSE 0)
           /\ t \in ScmHeld(b) => Cardinality(ScmHeld(b)) >= 1
<1>1. ScmHeld(b) \subseteq ScmThread
  BY DEF ScmHeld, Inside
<1>2. IsFiniteSet(ScmHeld(b))
  BY <1>1, ScmAssumption, FS_Subset
<1>3. \A u : u # t => (u \in ScmHeld(b) <=> u \in ScmHeld(b)')
  BY DEF ScmHeld, Inside
<1> QED
  BY <1>2, <1>3, CardMove

\* Every count of references is a number.
LEMMA ScmHeldNat == \A b : Cardinality(ScmHeld(b)) \in Nat
<1> SUFFICES ASSUME NEW b PROVE Cardinality(ScmHeld(b)) \in Nat
  OBVIOUS
<1>1. ScmHeld(b) \subseteq ScmThread
  BY DEF ScmHeld, Inside
<1> QED
  BY <1>1, ScmAssumption, FS_Subset, FS_CardinalityType

\* The same descriptors, calls and references: the accounts are the same.
LEMMA ScmFrame ==
    ASSUME UNCHANGED <<scmOpen, scmRef, scmCall, scmKept>>, NEW b, ScmAccount(b)
    PROVE  ScmAccount(b)'
  BY DEF ScmAccount, ScmOpened, ScmHeld, Inside

\* The records of a call, and a step of t alone that leaves it a good one.
ScmCalls == [ScmThread -> [pc : {"idle", "map", "put", "call"}, buf : ScmBuf \cup {ScmNone}]]

ScmOnly(t) ==
    /\ scmCall' \in ScmCalls
    /\ \A u \in ScmThread : u # t => scmCall'[u] = scmCall[u]
    /\ ScmCallOf(t)'
    /\ UNCHANGED <<scmOpen, scmClosed>>

\* A call that goes on with its buffer, one that ends and one that begins.
LEMMA ScmGoto ==
    ASSUME ScmIInv, NEW t \in ScmThread, NEW p \in {"put", "call"}, scmCall[t].pc # "idle",
           scmCall' = [scmCall EXCEPT ![t].pc = p], UNCHANGED <<scmOpen, scmClosed>>
    PROVE  /\ ScmOnly(t) /\ scmCall[t].buf \in ScmBuf
           /\ scmCall'[t].pc = p /\ scmCall'[t].buf = scmCall[t].buf
<1>1. scmCall \in ScmCalls /\ ScmCallOf(t)
  BY DEF ScmIInv, ScmTypeOK, ScmCalls
<1>2. scmCall[t].buf \in ScmBuf
  BY <1>1 DEF ScmCalls, ScmCallOf
<1>3. scmCall' \in ScmCalls
  BY <1>1 DEF ScmCalls
<1>4. scmCall'[t].pc = p /\ scmCall'[t].buf = scmCall[t].buf
  BY <1>1 DEF ScmCalls
<1>5. \A u \in ScmThread : u # t => scmCall'[u] = scmCall[u]
  BY <1>1 DEF ScmCalls
<1> QED
  BY <1>1, <1>2, <1>3, <1>4, <1>5, ScmAssumption DEF ScmOnly, ScmCallOf

\* A thread that ends its call.
LEMMA ScmEnds ==
    ASSUME ScmIInv, NEW t \in ScmThread, scmCall' = [scmCall EXCEPT ![t] = ScmIdle],
           UNCHANGED <<scmOpen, scmClosed>>
    PROVE  ScmOnly(t) /\ scmCall'[t].pc = "idle"
  BY ScmAssumption DEF ScmOnly, ScmIdle, ScmCalls, ScmCallOf, ScmIInv, ScmTypeOK

\* A thread that begins to map a buffer of an open file.
LEMMA ScmBegins ==
    ASSUME ScmIInv, NEW t \in ScmThread, NEW b \in scmOpen, b \in ScmBuf,
           scmCall' = [scmCall EXCEPT ![t] = [pc |-> "map", buf |-> b]],
           UNCHANGED <<scmOpen, scmClosed>>
    PROVE  ScmOnly(t) /\ scmCall'[t].pc = "map" /\ scmCall'[t].buf = b
  BY ScmAssumption DEF ScmOnly, ScmCalls, ScmCallOf, ScmIInv, ScmTypeOK

\* What a step of t alone does to the counts.
LEMMA ScmMove ==
    ASSUME ScmIInv, NEW t \in ScmThread, ScmOnly(t)
    PROVE  /\ \A u \in ScmThread : ScmCallOf(u)'
           /\ \A b \in ScmBuf :
                 /\ Cardinality(ScmHeld(b)) \in Nat
                 /\ t \in ScmHeld(b) => scmRef[b] >= ScmOpened(b) + 1
                 /\ Cardinality(ScmHeld(b)') = (Cardinality(ScmHeld(b))
                      + (IF t \in ScmHeld(b)' THEN 1 ELSE 0))
                      - (IF t \in ScmHeld(b) THEN 1 ELSE 0)
           /\ \A b : /\ t \in ScmHeld(b) <=> scmCall[t].buf = b /\ scmCall[t].pc \in {"map", "put"}
                     /\ t \in ScmHeld(b)' <=> scmCall'[t].buf = b /\ scmCall'[t].pc \in {"map", "put"}
<1>1. \A u \in ScmThread : ScmCallOf(u)'
  BY DEF ScmIInv, ScmCallOf, ScmOnly
<1>2. ASSUME NEW b \in ScmBuf
      PROVE  /\ Cardinality(ScmHeld(b)) \in Nat
             /\ t \in ScmHeld(b) => scmRef[b] >= ScmOpened(b) + 1
             /\ Cardinality(ScmHeld(b)') = (Cardinality(ScmHeld(b))
                  + (IF t \in ScmHeld(b)' THEN 1 ELSE 0))
                  - (IF t \in ScmHeld(b) THEN 1 ELSE 0)
  <2>1. /\ Cardinality(ScmHeld(b)) \in Nat
        /\ Cardinality(ScmHeld(b)') =
                  (Cardinality(ScmHeld(b)) + (IF t \in ScmHeld(b)' THEN 1 ELSE 0))
                      - (IF t \in ScmHeld(b) THEN 1 ELSE 0)
        /\ t \in ScmHeld(b) => Cardinality(ScmHeld(b)) >= 1
    BY ScmHeldMove DEF ScmOnly
  <2>2. scmKept[b] \in Nat /\ scmRef[b] = (ScmOpened(b) + scmKept[b]) + Cardinality(ScmHeld(b))
    BY DEF ScmIInv, ScmTypeOK, ScmAccount
  <2>3. ScmOpened(b) \in Nat
    BY DEF ScmOpened
  <2> QED
    BY <2>1, <2>2, <2>3
<1>3. \A b : /\ t \in ScmHeld(b) <=> scmCall[t].buf = b /\ scmCall[t].pc \in {"map", "put"}
             /\ t \in ScmHeld(b)' <=> scmCall'[t].buf = b /\ scmCall'[t].pc \in {"map", "put"}
  BY DEF ScmHeld, Inside
<1> QED
  BY <1>1, <1>2, <1>3

\* A step of the secure calls keeps ScmIInv.
LEMMA ScmStep == ScmIInv /\ [ScmNext]_scmVars => ScmIInv'
<1> SUFFICES ASSUME ScmIInv, [ScmNext]_scmVars PROVE ScmIInv'
  OBVIOUS
<1> USE ScmAssumption
<1>1. CASE ScmProbe
  <2>1. \A b \in ScmBuf : ScmAccount(b)'
    BY <1>1, ScmFrame DEF ScmProbe, ScmIInv
  <2> QED
    BY <1>1, <2>1 DEF ScmProbe, ScmIInv, ScmTypeOK, ScmCallOf
<1>2. ASSUME NEW b \in ScmBuf, ScmExport(b) PROVE ScmIInv'
  <2>1. ScmTypeOK' /\ (\A t \in ScmThread : ScmCallOf(t)') /\ \A c \in scmGone' : scmRef'[c] = 0
    BY <1>2 DEF ScmExport, ScmIInv, ScmTypeOK, ScmCallOf
  <2>2. \A c \in ScmBuf : ScmHeld(c)' = ScmHeld(c)
    BY <1>2 DEF ScmExport, ScmHeld, Inside
  <2>3. b \notin scmOpen
    BY <1>2, ScmHeldNat DEF ScmExport, ScmIInv, ScmTypeOK, ScmAccount, ScmOpened
  <2>4. \A c \in ScmBuf : ScmAccount(c)'
    BY <1>2, <2>2, <2>3, ScmHeldNat, SMTT(20)
       DEF ScmExport, ScmIInv, ScmTypeOK, ScmAccount, ScmOpened
  <2> QED
    BY <1>2, <2>1, <2>4 DEF ScmExport, ScmIInv
<1>3. ASSUME NEW b \in ScmBuf, ScmCloseFd(b) PROVE ScmIInv'
  <2>1. \A c \in ScmBuf : ScmHeld(c)' = ScmHeld(c)
    BY <1>3 DEF ScmCloseFd, ScmHeld, Inside
  <2>2. scmRef[b] >= 1
    BY <1>3, ScmHeldNat DEF ScmCloseFd, ScmIInv, ScmTypeOK, ScmAccount, ScmOpened
  <2>3. ScmTypeOK'
    BY <1>3, <2>2 DEF ScmCloseFd, ScmBufPut, ScmIInv, ScmTypeOK
  <2>4. \A t \in ScmThread : ScmCallOf(t)'
    BY <1>3 DEF ScmCloseFd, ScmIInv, ScmTypeOK, ScmCallOf, Inside
  <2>5. \A c \in ScmBuf : ScmAccount(c)'
    <3>1. \A c \in ScmBuf : scmRef'[c] = IF c = b THEN scmRef[c] - 1 ELSE scmRef[c]
      BY <1>3 DEF ScmCloseFd, ScmBufPut, ScmIInv, ScmTypeOK
    <3>2. \A c \in ScmBuf : ScmOpened(c)' = IF c = b THEN 0 ELSE ScmOpened(c)
      BY <1>3 DEF ScmCloseFd, ScmOpened
    <3>3. ScmOpened(b) = 1
      BY <1>3 DEF ScmCloseFd, ScmOpened
    <3>4. \A c \in ScmBuf : ScmOpened(c) \in Nat /\ scmKept[c] \in Nat /\ scmKept'[c] = scmKept[c]
      BY <1>3 DEF ScmOpened, ScmIInv, ScmTypeOK, ScmCloseFd
    <3> QED
      BY <2>1, <3>1, <3>2, <3>3, <3>4, ScmHeldNat DEF ScmIInv, ScmAccount
  <2>6. \A c \in scmGone' : scmRef'[c] = 0
    BY <1>3, <2>2 DEF ScmCloseFd, ScmBufPut, ScmIInv, ScmTypeOK
  <2> QED
    BY <1>3, <2>3, <2>4, <2>5, <2>6 DEF ScmCloseFd, ScmIInv
<1>4. ASSUME NEW t \in ScmThread, NEW b \in ScmBuf, ScmGet(t, b) PROVE ScmIInv'
  <2>1. b \in scmOpen /\ scmCall[t].pc = "idle" /\ b \notin scmGone
    BY <1>4, ScmHeldNat DEF ScmGet, ScmIInv, ScmTypeOK, ScmAccount, ScmOpened
  <2>2. ScmOnly(t) /\ scmCall'[t].pc = "map" /\ scmCall'[t].buf = b
    BY <1>4, <2>1, ScmBegins DEF ScmGet
  <2>3. /\ \A u \in ScmThread : ScmCallOf(u)'
        /\ \A c \in ScmBuf :
              /\ Cardinality(ScmHeld(c)) \in Nat
              /\ Cardinality(ScmHeld(c)') = Cardinality(ScmHeld(c)) + (IF c = b THEN 1 ELSE 0)
    BY <2>1, <2>2, ScmMove
  <2>4. \A c \in ScmBuf : scmRef'[c] = scmRef[c] + (IF c = b THEN 1 ELSE 0)
    BY <1>4 DEF ScmGet, ScmIInv, ScmTypeOK
  <2>5. \A c \in ScmBuf : ScmOpened(c)' = ScmOpened(c) /\ ScmOpened(c) \in Nat /\ scmKept[c] \in Nat
    BY <1>4 DEF ScmGet, ScmOpened, ScmIInv, ScmTypeOK
  <2>6. \A c \in ScmBuf : ScmAccount(c)'
    BY <1>4, <2>3, <2>4, <2>5 DEF ScmGet, ScmIInv, ScmAccount
  <2>7. ScmTypeOK' /\ \A c \in scmGone' : scmRef'[c] = 0
    BY <1>4, <2>1, <2>2 DEF ScmGet, ScmIInv, ScmTypeOK, ScmOnly, ScmCalls
  <2> QED
    BY <1>4, <2>3, <2>6, <2>7 DEF ScmGet, ScmIInv
<1>5. ASSUME NEW t \in ScmThread, ScmMap(t) PROVE ScmIInv'
  <2>1. ScmOnly(t) /\ scmCall'[t].pc = "put" /\ scmCall'[t].buf = scmCall[t].buf
    BY <1>5, ScmGoto DEF ScmMap
  <2>2. /\ \A u \in ScmThread : ScmCallOf(u)'
        /\ \A c \in ScmBuf : Cardinality(ScmHeld(c)') = Cardinality(ScmHeld(c))
    BY <1>5, <2>1, ScmMove DEF ScmMap
  <2>3. \A c \in ScmBuf : ScmAccount(c)'
    BY <1>5, <2>2 DEF ScmMap, ScmIInv, ScmAccount, ScmOpened
  <2> QED
    BY <1>5, <2>1, <2>2, <2>3 DEF ScmMap, ScmIInv, ScmTypeOK, ScmOnly, ScmCalls
<1>6. ASSUME NEW t \in ScmThread, ScmMapScattered(t) PROVE ScmIInv'
  <2> DEFINE b == scmCall[t].buf
  <2>1. b \in ScmBuf
    BY <1>6 DEF ScmMapScattered, ScmIInv, ScmTypeOK, ScmCallOf
  <2>2. ScmOnly(t) /\ scmCall'[t].pc = "idle"
    BY <1>6, ScmEnds DEF ScmMapScattered
  <2>3. /\ \A u \in ScmThread : ScmCallOf(u)'
        /\ \A c \in ScmBuf :
              /\ Cardinality(ScmHeld(c)) \in Nat
              /\ Cardinality(ScmHeld(c)') = Cardinality(ScmHeld(c)) - (IF c = b THEN 1 ELSE 0)
    BY <1>6, <2>2, ScmMove DEF ScmMapScattered
  <2>4. \A c \in ScmBuf : scmKept'[c] = scmKept[c] + (IF c = b THEN 1 ELSE 0)
    BY <1>6 DEF ScmMapScattered, ScmIInv, ScmTypeOK
  <2>5. \A c \in ScmBuf : ScmOpened(c)' = ScmOpened(c) /\ ScmOpened(c) \in Nat /\ scmKept[c] \in Nat
    BY <1>6 DEF ScmMapScattered, ScmOpened, ScmIInv, ScmTypeOK
  <2>6. \A c \in ScmBuf : ScmAccount(c)'
    BY <1>6, <2>3, <2>4, <2>5 DEF ScmMapScattered, ScmIInv, ScmAccount
  <2>7. ScmTypeOK'
    BY <1>6, <2>1, <2>2 DEF ScmMapScattered, ScmIInv, ScmTypeOK, ScmOnly, ScmCalls
  <2>8. \A c \in ScmBuf \ scmScattered : scmKept'[c] = 0
    BY <1>6 DEF ScmMapScattered, ScmIInv, ScmTypeOK
  <2> QED
    BY <1>6, <2>3, <2>6, <2>7, <2>8 DEF ScmMapScattered, ScmIInv
<1>7. ASSUME NEW t \in ScmThread, ScmMapFail(t) PROVE ScmIInv'
  <2>1. \A b \in ScmBuf : ScmAccount(b)'
    BY <1>7, ScmFrame DEF ScmMapFail, ScmIInv
  <2> QED
    BY <1>7, <2>1 DEF ScmMapFail, ScmIInv, ScmTypeOK, ScmCallOf
<1>8. ASSUME NEW t \in ScmThread, ScmPut(t) PROVE ScmIInv'
  <2> DEFINE b == scmCall[t].buf
  <2>1. ScmOnly(t) /\ b \in ScmBuf /\ scmCall'[t].pc = "call" /\ scmCall'[t].buf = b
    BY <1>8, ScmGoto DEF ScmPut
  <2>2. /\ \A u \in ScmThread : ScmCallOf(u)'
        /\ \A c \in ScmBuf :
              /\ Cardinality(ScmHeld(c)) \in Nat
              /\ Cardinality(ScmHeld(c)') = Cardinality(ScmHeld(c)) - (IF c = b THEN 1 ELSE 0)
        /\ scmRef[b] >= ScmOpened(b) + 1
    BY <1>8, <2>1, ScmMove DEF ScmPut
  <2>3. \A c \in ScmBuf : scmRef'[c] = scmRef[c] - (IF c = b THEN 1 ELSE 0)
    BY <1>8 DEF ScmPut, ScmBufPut, ScmIInv, ScmTypeOK
  <2>4. \A c \in ScmBuf : ScmOpened(c)' = ScmOpened(c) /\ ScmOpened(c) \in Nat /\ scmKept[c] \in Nat
    BY <1>8 DEF ScmPut, ScmOpened, ScmIInv, ScmTypeOK
  <2>5. \A c \in ScmBuf : ScmAccount(c)'
    BY <1>8, <2>2, <2>3, <2>4 DEF ScmPut, ScmIInv, ScmAccount
  <2>6. scmRef[b] >= 1 /\ scmRef \in [ScmBuf -> Nat]
    BY <2>1, <2>2, <2>4 DEF ScmIInv, ScmTypeOK
  <2>7. scmRef' \in [ScmBuf -> Nat]
    BY <1>8, <2>1, <2>6 DEF ScmPut, ScmBufPut
  <2>8. ScmTypeOK'
    BY <1>8, <2>1, <2>7 DEF ScmPut, ScmBufPut, ScmIInv, ScmTypeOK, ScmOnly, ScmCalls
  <2>9. \A c \in scmGone' : scmRef'[c] = 0
    <3>1. b \notin scmGone
      BY <2>6 DEF ScmIInv
    <3>2. \A c \in scmGone' : c \in scmGone \/ (c = b /\ scmRef[b] = 1)
      BY <1>8 DEF ScmPut, ScmBufPut
    <3>3. \A c \in scmGone : c \in ScmBuf /\ scmRef[c] = 0
      BY DEF ScmIInv, ScmTypeOK
    <3> QED
      BY <2>1, <2>3, <2>6, <3>1, <3>2, <3>3
  <2> QED
    BY <1>8, <2>2, <2>5, <2>8, <2>9 DEF ScmPut, ScmIInv
<1>9. ASSUME NEW t \in ScmThread, ScmSecureCall(t) PROVE ScmIInv'
  <2>1. ScmOnly(t) /\ scmCall'[t].pc = "idle"
    BY <1>9, ScmEnds DEF ScmSecureCall
  <2>2. /\ \A u \in ScmThread : ScmCallOf(u)'
        /\ \A c \in ScmBuf : Cardinality(ScmHeld(c)') = Cardinality(ScmHeld(c))
    BY <1>9, <2>1, ScmMove DEF ScmSecureCall
  <2>3. \A c \in ScmBuf : ScmAccount(c)'
    BY <1>9, <2>2 DEF ScmSecureCall, ScmIInv, ScmAccount, ScmOpened
  <2>4. scmCall[t].buf \in scmGone => scmCall[t].buf \in scmClosed
    BY ScmHeldNat DEF ScmIInv, ScmTypeOK, ScmCallOf, ScmAccount, ScmOpened
  <2> QED
    BY <1>9, <2>1, <2>2, <2>3, <2>4 DEF ScmSecureCall, ScmIInv, ScmTypeOK, ScmOnly, ScmCalls
<1>10. CASE UNCHANGED scmVars
  <2>1. \A b \in ScmBuf : ScmAccount(b)'
    BY <1>10, ScmFrame DEF scmVars, ScmIInv
  <2> QED
    BY <1>10, <2>1 DEF scmVars, ScmIInv, ScmTypeOK, ScmCallOf
<1> QED
  BY <1>1, <1>2, <1>3, <1>4, <1>5, <1>6, <1>7, <1>8, <1>9, <1>10 DEF ScmNext

(* translate_fd_to_pa and the secure call: whatever fails in between, every    *)
(* reference of a buffer is its descriptor's, a call's or one that the error       *)
(* path for scattered buffers keeps, and a released buffer reaches the secure       *)
(* world only when its descriptor was closed during the call.                        *)
THEOREM ScmRefsHolds == ScmSpec => []ScmRefs
<1>1. ScmIInv => ScmRefs
  <2> SUFFICES ASSUME ScmIInv, NEW b \in ScmBuf
               PROVE  scmRef[b] = Cardinality({b} \cap scmOpen) + scmKept[b]
                        + Cardinality({t \in Inside(b) : scmCall[t].pc \in {"map", "put"}})
    BY DEF ScmIInv, ScmRefs
  <2>1. {b} \cap scmOpen = IF b \in scmOpen THEN {b} ELSE {}
    OBVIOUS
  <2>2. Cardinality({b} \cap scmOpen) = ScmOpened(b)
    BY <2>1, FS_EmptySet, FS_Singleton DEF ScmOpened
  <2> QED
    BY <2>2 DEF ScmIInv, ScmAccount, ScmHeld
<1> QED
  BY <1>1, ScmInitial, ScmStep, PTL DEF ScmSpec

-----------------------------------------------------------------------------
(* Bandwidth profiler *)

BwCalls ==
    [BwThread -> [pc : {"idle", "copy", "dispatch", "get", "first", "again", "reply"},
                  file : BwFile \cup {BwNone}, mode : BOOLEAN, cmd : Commands,
                  layout : BOOLEAN, shm : {"none", "own", "stale"}, crossed : BOOLEAN]]

\* A call is inside an open file; the step it is at says what it knows of its
\* buffer; the flag is its own, and so is what it read from it, until crossed.
BwCallInv(t) ==
    /\ bwCall[t].pc = "idle" <=> bwCall[t].file = BwNone
    /\ bwCall[t].pc # "idle" => bwFile[bwCall[t].file] = "open"
    /\ bwCall[t].shm = (IF bwCall[t].pc \in {"first", "reply"} THEN "own"
                        ELSE IF bwCall[t].pc = "again" THEN "stale" ELSE "none")
    /\ bwCall[t].pc # "idle" /\ ~bwCall[t].crossed =>
          /\ bwDisabled = bwCall[t].mode
          /\ BwCallOf(t, {"dispatch", "first", "again", "reply"}) =>
                bwCall[t].layout = bwCall[t].mode
          /\ BwCallOf(t, {"get", "first", "again", "reply"}) => bwCall[t].cmd = "get"

\* The lock is the open file's.
BwFiles ==
    /\ bwLock <=> \E f \in BwFile : bwFile[f] = "open"
    /\ \A f, g \in BwFile : bwFile[f] = "open" /\ bwFile[g] = "open" => f = g

\* The clock goes with it, less what the opens without an enable have taken or will.
BwClock ==
    /\ bwUnclocked \subseteq {f \in BwFile : bwFile[f] # "new"}
    /\ bwClk = (IF bwLock THEN 1 ELSE 0) - Cardinality(bwUnclocked)

\* What ends a run of the profiler.
BwMisuse ==
    /\ bwStarved => bwFault
    /\ bwFault => bwStarved \/ bwProbe # "done"

\* A session has a file, and two files between open and stop mean an overlap.
BwSession ==
    /\ BwSessionStops
    /\ \A f, g \in BwFile : bwFile[f] = "stopping" /\ bwFile[g] \in {"open", "stopping"}
                               => f = g \/ bwOverlap

BwOwners == {t \in BwThread : bwCall[t].shm = "own"}

BwIInv ==
    /\ BwTypeOK
    /\ \A t \in BwThread : BwCallInv(t)
    /\ BwFiles
    /\ BwClock
    /\ BwMisuse
    /\ BwSession
    /\ bwShm = Cardinality(BwOwners) - IF bwStarved THEN 1 ELSE 0

\* A thread outside the ioctl has a record like any other.
LEMMA BwIdleType ==
    BwIdle \in [pc : {"idle", "copy", "dispatch", "get", "first", "again", "reply"},
                file : BwFile \cup {BwNone}, mode : BOOLEAN, cmd : Commands,
                layout : BOOLEAN, shm : {"none", "own", "stale"}, crossed : BOOLEAN]
  BY DEF BwIdle, Commands

\* Before the device is there.
LEMMA BwInitial == BwInit => BwIInv
<1> SUFFICES ASSUME BwInit PROVE BwIInv
  OBVIOUS
<1>1. bwCall \in BwCalls
  BY BwIdleType DEF BwInit, BwCalls
<1>2. BwTypeOK
  <2>1. bwFile \in [BwFile -> {"new", "open", "stopping", "closed"}]
    BY DEF BwInit
  <2>2. bwClk \in Int /\ bwShm \in Int
    BY DEF BwInit
  <2>3. /\ bwProbe \in {"no", "added", "done"} /\ bwLock \in BOOLEAN /\ bwDisabled \in BOOLEAN
        /\ bwRunning \in BwFile \cup {BwNone} /\ bwMissed \subseteq BwFile
        /\ bwUnclocked \subseteq BwFile
        /\ {bwOverlap, bwCut, bwStarved, bwFault} \subseteq BOOLEAN
    BY DEF BwInit
  <2> QED
    BY <1>1, <2>1, <2>2, <2>3 DEF BwTypeOK, BwCalls
<1>3. \A t \in BwThread : BwCallInv(t)
  BY DEF BwInit, BwCallInv, BwIdle, BwCallOf
<1>4. BwOwners = {}
  BY DEF BwInit, BwOwners, BwIdle
<1>5. BwFiles /\ BwMisuse /\ BwSession
  BY DEF BwInit, BwFiles, BwMisuse, BwSession, BwSessionStops
<1>6. BwClock
  BY FS_EmptySet DEF BwInit, BwClock
<1> QED
  BY <1>2, <1>3, <1>4, <1>5, <1>6, FS_EmptySet DEF BwInit, BwIInv

\* A step of one call: it leaves the files and the flag, and fits its call.
BwOnly(t) ==
    /\ bwCall' \in BwCalls
    /\ \A u \in BwThread : u # t => bwCall'[u] = bwCall[u]
    /\ UNCHANGED <<bwProbe, bwLock, bwClk, bwFile, bwDisabled, bwUnclocked, bwMissed,
                   bwOverlap, bwCut>>

\* The shared buffers when only the call of t changes.
LEMMA BwOwnersMove ==
    ASSUME NEW t \in BwThread, \A u \in BwThread : u # t => bwCall'[u] = bwCall[u]
    PROVE  /\ Cardinality(BwOwners) \in Nat /\ Cardinality(BwOwners') \in Nat
           /\ Cardinality(BwOwners') =
                  (Cardinality(BwOwners) + (IF bwCall'[t].shm = "own" THEN 1 ELSE 0))
                      - (IF bwCall[t].shm = "own" THEN 1 ELSE 0)
<1>1. BwOwners \subseteq BwThread
  BY DEF BwOwners
<1>2. IsFiniteSet(BwOwners)
  BY <1>1, BwAssumption, FS_Subset
<1>3. \A u : u # t => (u \in BwOwners <=> u \in BwOwners')
  BY DEF BwOwners
<1>4. (t \in BwOwners <=> bwCall[t].shm = "own") /\ (t \in BwOwners' <=> bwCall'[t].shm = "own")
  BY DEF BwOwners
<1> QED
  BY <1>2, <1>3, <1>4, CardMove

\* A step of one call keeps the invariant when its own part holds after it.
LEMMA BwMove ==
    ASSUME BwIInv, NEW t \in BwThread, BwOnly(t), BwCallInv(t)', bwFault' \in BOOLEAN,
           bwStarved' = bwStarved, bwFault => bwFault', bwFault' => bwFault \/ bwProbe # "done",
           bwShm' = (bwShm + (IF bwCall'[t].shm = "own" THEN 1 ELSE 0))
                        - (IF bwCall[t].shm = "own" THEN 1 ELSE 0),
           \/ bwRunning' \in {bwRunning, BwNone}
           \/ bwRunning' \in BwFile /\ bwFile[bwRunning'] = "open"
    PROVE  BwIInv'
<1>1. \A u \in BwThread : BwCallInv(u)'
  <2> SUFFICES ASSUME NEW u \in BwThread, u # t PROVE BwCallInv(u)'
    OBVIOUS
  <2>1. bwCall'[u] = bwCall[u] /\ BwCallInv(u) /\ bwFile' = bwFile /\ bwDisabled' = bwDisabled
    BY DEF BwOnly, BwIInv
  <2> QED
    BY <2>1 DEF BwCallInv, BwCallOf
<1>2. bwShm' = (Cardinality(BwOwners') - IF bwStarved' THEN 1 ELSE 0) /\ bwShm' \in Int
  BY BwOwnersMove DEF BwIInv, BwOnly
<1>3. BwTypeOK'
  BY <1>2 DEF BwIInv, BwTypeOK, BwOnly, BwCalls
<1>4. BwFiles' /\ BwSession'
  BY DEF BwIInv, BwFiles, BwSession, BwSessionStops, BwOnly
<1>5. BwClock' /\ BwMisuse'
  BY DEF BwIInv, BwClock, BwMisuse, BwOnly
<1> QED
  BY <1>1, <1>2, <1>3, <1>4, <1>5 DEF BwIInv

\* The steps of a call that go on to p, with the layout l, the buffer s.
LEMMA BwGoto ==
    ASSUME BwIInv, NEW t \in BwThread,
           NEW p \in {"dispatch", "get", "first", "again", "reply"},
           NEW l \in BOOLEAN, NEW s \in {"none", "own", "stale"}, bwCall[t].pc # "idle",
           bwCall' = [bwCall EXCEPT ![t] = [@ EXCEPT !.pc = p, !.layout = l, !.shm = s]],
           UNCHANGED <<bwProbe, bwLock, bwClk, bwFile, bwDisabled, bwUnclocked, bwMissed,
                       bwOverlap, bwCut>>,
           s = (IF p \in {"first", "reply"} THEN "own" ELSE IF p = "again" THEN "stale" ELSE "none"),
           l = bwCall[t].layout \/ l = bwDisabled,
           p \in {"first", "again", "reply"} => l = bwDisabled \/ bwCall[t].pc \in {"first", "again"},
           p = "dispatch" => l = bwDisabled,
           p = "get" /\ ~bwCall[t].crossed => bwCall[t].cmd = "get",
           p \in {"first", "again", "reply"} => bwCall[t].pc \in {"get", "first", "again", "reply"}
    PROVE  /\ BwOnly(t) /\ BwCallInv(t)' /\ bwCall'[t].shm = s
<1>1. bwCall \in BwCalls /\ BwCallInv(t) /\ bwDisabled \in BOOLEAN
  BY DEF BwIInv, BwTypeOK, BwCalls
<1>2. bwCall'[t] = [bwCall[t] EXCEPT !.pc = p, !.layout = l, !.shm = s]
      /\ \A u \in BwThread : u # t => bwCall'[u] = bwCall[u]
  BY <1>1 DEF BwCalls
<1>3. bwCall' \in BwCalls
  <2>1. [bwCall[t] EXCEPT !.pc = p, !.layout = l, !.shm = s] \in
          [pc : {"idle", "copy", "dispatch", "get", "first", "again", "reply"},
           file : BwFile \cup {BwNone}, mode : BOOLEAN, cmd : Commands,
           layout : BOOLEAN, shm : {"none", "own", "stale"}, crossed : BOOLEAN]
    BY <1>1, ZenonT(30) DEF BwCalls
  <2> QED
    BY <1>1, <2>1 DEF BwCalls
<1>4. /\ bwCall'[t].pc = p /\ bwCall'[t].layout = l /\ bwCall'[t].shm = s
      /\ bwCall'[t].file = bwCall[t].file /\ bwCall'[t].mode = bwCall[t].mode
      /\ bwCall'[t].cmd = bwCall[t].cmd /\ bwCall'[t].crossed = bwCall[t].crossed
  BY <1>1, <1>2 DEF BwCalls
<1>5. BwCallInv(t)'
  BY <1>1, <1>4 DEF BwCallInv, BwCallOf
<1> QED
  BY <1>2, <1>3, <1>4, <1>5 DEF BwOnly

\* A call that ends.
LEMMA BwEnds ==
    ASSUME BwIInv, NEW t \in BwThread, bwCall' = [bwCall EXCEPT ![t] = BwIdle],
           UNCHANGED <<bwProbe, bwLock, bwClk, bwFile, bwDisabled, bwUnclocked, bwMissed,
                       bwOverlap, bwCut>>
    PROVE  /\ BwOnly(t) /\ BwCallInv(t)' /\ bwCall'[t].shm = "none"
<1>1. bwCall'[t] = BwIdle /\ \A u \in BwThread : u # t => bwCall'[u] = bwCall[u]
  BY DEF BwIInv, BwTypeOK
<1>2. bwCall' \in BwCalls
  BY BwIdleType DEF BwIInv, BwTypeOK, BwCalls
<1>3. BwCallInv(t)' /\ bwCall'[t].shm = "none"
  BY <1>1 DEF BwCallInv, BwIdle, BwCallOf
<1> QED
  BY <1>1, <1>2, <1>3 DEF BwOnly

\* The enables after an open, a release and a stop command.
LEMMA BwClockStep ==
    ASSUME BwIInv, NEW f \in BwFile,
           \/ BwOpen(f, TRUE)
           \/ BwOpen(f, FALSE)
           \/ BwRelease(f)
           \/ BwReleaseStop(f, TRUE)
           \/ BwReleaseStop(f, FALSE)
    PROVE  BwClock'
<1>1. BwClock /\ BwFiles /\ bwFile \in [BwFile -> {"new", "open", "stopping", "closed"}]
      /\ bwClk \in Int /\ bwLock \in BOOLEAN
  BY DEF BwIInv, BwTypeOK
<1>2. IsFiniteSet(bwUnclocked) /\ Cardinality(bwUnclocked) \in Nat
  BY <1>1, BwAssumption, FS_Subset, FS_CardinalityType DEF BwClock
<1>3. CASE BwOpen(f, TRUE)
  BY <1>1, <1>2, <1>3 DEF BwOpen, TakeLock, BwClock
<1>4. CASE BwOpen(f, FALSE)
  <2>1. f \notin bwUnclocked /\ bwUnclocked' = bwUnclocked \cup {f}
    BY <1>1, <1>4 DEF BwOpen, BwClock
  <2>2. Cardinality(bwUnclocked') = Cardinality(bwUnclocked) + 1
    BY <1>2, <2>1, FS_AddElement
  <2>3. bwUnclocked' \subseteq {g \in BwFile : bwFile'[g] # "new"}
    BY <1>1, <1>4, <2>1 DEF BwOpen, BwClock
  <2>4. ~bwLock /\ bwLock' /\ bwClk' = bwClk
    BY <1>4 DEF BwOpen, TakeLock
  <2> QED
    BY <1>1, <1>2, <2>2, <2>3, <2>4 DEF BwClock
<1>5. CASE BwRelease(f)
  <2>1. bwLock /\ bwLock' = FALSE /\ bwClk' = bwClk - 1 /\ bwUnclocked' = bwUnclocked
    BY <1>1, <1>5 DEF BwRelease, BwFiles
  <2>2. bwUnclocked' \subseteq {g \in BwFile : bwFile'[g] # "new"}
    BY <1>1, <1>5 DEF BwRelease, BwClock
  <2> QED
    BY <1>1, <1>2, <2>1, <2>2 DEF BwClock
<1>6. CASE BwReleaseStop(f, TRUE) \/ BwReleaseStop(f, FALSE)
  BY <1>1, <1>2, <1>6 DEF BwReleaseStop, BwClock
<1> QED
  BY <1>3, <1>4, <1>5, <1>6

\* profiler_open, profiler_release and its stop command.
LEMMA BwFileStep ==
    ASSUME BwIInv, NEW f \in BwFile,
           \/ BwOpen(f, TRUE)
           \/ BwOpen(f, FALSE)
           \/ BwRelease(f)
           \/ BwReleaseStop(f, TRUE)
           \/ BwReleaseStop(f, FALSE)
    PROVE  BwIInv'
<1>1. BwTypeOK'
  <2>1. bwFile' \in [BwFile -> {"new", "open", "stopping", "closed"}]
    BY DEF BwIInv, BwTypeOK, BwOpen, BwRelease, BwReleaseStop
  <2>2. bwClk' \in Int /\ bwShm' \in Int
    BY DEF BwIInv, BwTypeOK, BwOpen, BwRelease, BwReleaseStop
  <2>3. bwCall' \in BwCalls /\ bwMissed' \subseteq BwFile /\ bwRunning' \in BwFile \cup {BwNone}
        /\ bwProbe' \in {"no", "added", "done"}
    BY DEF BwIInv, BwTypeOK, BwOpen, BwRelease, BwReleaseStop, BwCalls
  <2>5. bwUnclocked' \subseteq BwFile
    BY DEF BwIInv, BwTypeOK, BwOpen, BwRelease, BwReleaseStop
  <2>4. {bwLock', bwDisabled', bwOverlap', bwCut', bwStarved', bwFault'} \subseteq BOOLEAN
    BY DEF BwIInv, BwTypeOK, BwOpen, BwRelease, BwReleaseStop
  <2> QED
    BY <2>1, <2>2, <2>3, <2>4, <2>5 DEF BwTypeOK, BwCalls
<1>2. \A t \in BwThread : BwCallInv(t)'
  BY BwAssumption DEF BwIInv, BwTypeOK, BwCallInv, BwCallOf, BwOpen, BwRelease, BwReleaseStop
<1>3. BwOwners' = BwOwners /\ bwShm' = bwShm /\ bwStarved' = bwStarved
  BY DEF BwOwners, BwOpen, BwRelease, BwReleaseStop
<1>6. BwMisuse'
  BY DEF BwIInv, BwMisuse, BwOpen, BwRelease, BwReleaseStop
<1>7. BwClock'
  BY BwClockStep
<1>4. BwFiles'
  <2>1. CASE BwOpen(f, TRUE) \/ BwOpen(f, FALSE)
    BY <2>1 DEF BwOpen, TakeLock, BwIInv, BwTypeOK, BwFiles
  <2>2. CASE BwRelease(f)
    BY <2>2 DEF BwRelease, BwIInv, BwTypeOK, BwFiles
  <2>3. CASE BwReleaseStop(f, TRUE) \/ BwReleaseStop(f, FALSE)
    BY <2>3 DEF BwReleaseStop, BwIInv, BwTypeOK, BwFiles
  <2> QED
    BY <2>1, <2>2, <2>3
<1>5. BwSession'
  <2>1. CASE BwOpen(f, TRUE) \/ BwOpen(f, FALSE)
    <3>1. /\ bwFile[f] = "new" /\ bwFile' = [bwFile EXCEPT ![f] = "open"]
          /\ bwOverlap' = (bwOverlap \/ Stopping # {})
          /\ bwRunning' = bwRunning /\ bwMissed' = bwMissed /\ bwCut' = bwCut
      BY <2>1 DEF BwOpen
    <3>2. \A g \in BwFile : bwFile'[g] = IF g = f THEN "open" ELSE bwFile[g]
      BY <3>1 DEF BwIInv, BwTypeOK
    <3>3. bwRunning \in BwFile \cup {BwNone}
      BY DEF BwIInv, BwTypeOK
    <3>4. BwSessionStops'
      BY <3>1, <3>2, <3>3 DEF BwIInv, BwSession, BwSessionStops
    <3>5. ASSUME NEW g \in BwFile, NEW h \in BwFile,
                 bwFile'[g] = "stopping", bwFile'[h] \in {"open", "stopping"}
          PROVE  g = h \/ bwOverlap'
      BY <3>1, <3>2, <3>5 DEF BwIInv, BwSession, Stopping
    <3> QED
      BY <3>4, <3>5 DEF BwSession
  <2>2. CASE BwRelease(f)
    BY <2>2 DEF BwRelease, BwIInv, BwTypeOK, BwFiles, BwSession, BwSessionStops
  <2>3. CASE BwReleaseStop(f, TRUE)
    BY <2>3, BwAssumption DEF BwReleaseStop, BwIInv, BwTypeOK, BwSession, BwSessionStops
  <2>4. CASE BwReleaseStop(f, FALSE)
    BY <2>4, BwAssumption DEF BwReleaseStop, BwIInv, BwTypeOK, BwSession, BwSessionStops
  <2> QED
    BY <2>1, <2>2, <2>3, <2>4
<1> QED
  BY <1>1, <1>2, <1>3, <1>4, <1>5, <1>6, <1>7 DEF BwIInv

\* GET_BW_INFO begins, of either kind.
LEMMA BwIoctlStep ==
    ASSUME BwIInv, NEW t \in BwThread, NEW f \in BwFile, NEW mode \in BOOLEAN,
           NEW cmd \in Commands, BwIoctl(t, f, mode, cmd)
    PROVE  BwIInv'
<1> DEFINE r == [BwIdle EXCEPT !.pc = "copy", !.file = f, !.mode = mode, !.cmd = cmd]
<1>1. /\ r.pc = "copy" /\ r.file = f /\ r.mode = mode /\ r.cmd = cmd
      /\ r.shm = "none" /\ r.crossed = FALSE /\ r.layout = FALSE
      /\ r \in [pc : {"idle", "copy", "dispatch", "get", "first", "again", "reply"},
                file : BwFile \cup {BwNone}, mode : BOOLEAN, cmd : Commands,
                layout : BOOLEAN, shm : {"none", "own", "stale"}, crossed : BOOLEAN]
  BY DEF BwIdle
<1>2. bwCall \in BwCalls
  BY DEF BwIInv, BwTypeOK, BwCalls
<1>3. bwCall'[t] = r
  BY DEF BwIoctl
<1>4. \A u \in BwThread : u # t =>
         /\ bwCall'[u] \in [pc : {"idle", "copy", "dispatch", "get", "first", "again", "reply"},
                file : BwFile \cup {BwNone}, mode : BOOLEAN, cmd : Commands,
                layout : BOOLEAN, shm : {"none", "own", "stale"}, crossed : BOOLEAN]
         /\ bwCall'[u].pc = bwCall[u].pc /\ bwCall'[u].file = bwCall[u].file
         /\ bwCall'[u].mode = bwCall[u].mode /\ bwCall'[u].cmd = bwCall[u].cmd
         /\ bwCall'[u].layout = bwCall[u].layout /\ bwCall'[u].shm = bwCall[u].shm
         /\ bwCall[u].crossed => bwCall'[u].crossed
         /\ bwCall[u].pc # "idle" /\ bwCall[u].mode # mode => bwCall'[u].crossed
  BY <1>2, ZenonT(30) DEF BwIoctl, BwCalls
<1>5. bwCall' \in BwCalls
  <2> HIDE DEF r
  <2>1. \A u \in BwThread : bwCall'[u] \in
          [pc : {"idle", "copy", "dispatch", "get", "first", "again", "reply"},
           file : BwFile \cup {BwNone}, mode : BOOLEAN, cmd : Commands,
           layout : BOOLEAN, shm : {"none", "own", "stale"}, crossed : BOOLEAN]
    BY <1>1, <1>3, <1>4
  <2>2. bwCall' = [u \in BwThread |-> bwCall'[u]]
    BY DEF BwIoctl
  <2> QED
    BY <2>1, <2>2 DEF BwCalls
<1>6. BwTypeOK'
  BY <1>5 DEF BwIInv, BwTypeOK, BwIoctl, ModeFlag, BwCalls
<1>7. \A u \in BwThread : BwCallInv(u)'
  <2> HIDE DEF r
  <2>1. BwCallInv(t)'
    BY <1>1, <1>3, BwAssumption DEF BwCallInv, BwCallOf, BwIoctl, ModeFlag
  <2>2. ASSUME NEW u \in BwThread, u # t PROVE BwCallInv(u)'
    <3>1. BwCallInv(u) /\ bwFile' = bwFile /\ bwDisabled' = mode
      BY DEF BwIInv, BwIoctl, ModeFlag
    <3> QED
      BY <1>4, <2>2, <3>1 DEF BwCallInv, BwCallOf
  <2> QED
    BY <2>1, <2>2
<1>8. BwOwners' = BwOwners
  <2> HIDE DEF r
  <2>1. bwCall[t].shm = "none"
    BY DEF BwIInv, BwCallInv, BwIoctl
  <2> QED
    BY <1>1, <1>3, <1>4, <2>1 DEF BwOwners
<1>9. BwFiles' /\ BwSession' /\ bwShm' = bwShm /\ bwStarved' = bwStarved
  BY DEF BwIInv, BwFiles, BwSession, BwSessionStops, BwIoctl
<1>10. BwClock' /\ BwMisuse'
  BY DEF BwIInv, BwClock, BwMisuse, BwIoctl
<1> QED
  BY <1>6, <1>7, <1>8, <1>9, <1>10 DEF BwIInv

\* The steps of profiler_get_bw_info and bw_profiling_get that go on.
LEMMA BwGoOn ==
    ASSUME BwIInv, NEW t \in BwThread,
           BwCopy(t) \/ BwGet(t) \/ BwAlloc(t) \/ BwRegisters(t) \/ BwAllocAgain(t)
    PROVE  BwIInv'
<1>1. bwCall \in BwCalls /\ BwCallInv(t) /\ bwShm \in Int
      /\ bwDisabled \in BOOLEAN /\ bwCall[t].layout \in BOOLEAN
  BY DEF BwIInv, BwTypeOK, BwCalls
<1>2. CASE BwCopy(t)
  <2>1. bwCall' = [bwCall EXCEPT ![t] = [@ EXCEPT !.pc = "dispatch", !.layout = bwDisabled,
                                                  !.shm = "none"]]
    BY <1>1, <1>2 DEF BwCopy, BwCalls, BwCallInv
  <2>2. BwOnly(t) /\ BwCallInv(t)' /\ bwCall'[t].shm = "none" /\ bwCall[t].shm = "none"
    BY <1>1, <1>2, <2>1, BwGoto, ZenonT(30) DEF BwCopy, BwCallInv
  <2> QED
    BY <1>1, <1>2, <2>2, BwMove DEF BwCopy, BwIInv, BwTypeOK
<1>3. CASE BwGet(t)
  <2>1. bwCall' = [bwCall EXCEPT ![t] = [@ EXCEPT !.pc = "get", !.layout = bwCall[t].layout,
                                                  !.shm = "none"]]
    BY <1>1, <1>3 DEF BwGet, ReadCommand, BwCalls, BwCallInv
  <2>2. ~bwCall[t].crossed => bwCall[t].cmd = "get"
    BY <1>1, <1>3 DEF BwGet, ReadCommand, BwCallInv, BwCallOf
  <2>3. /\ bwCall[t].pc = "dispatch" /\ bwCall[t].shm = "none"
        /\ UNCHANGED <<bwProbe, bwLock, bwClk, bwFile, bwDisabled, bwUnclocked, bwMissed,
                       bwOverlap, bwCut>>
    BY <1>1, <1>3 DEF BwGet, ReadCommand, BwCallInv
  <2>4. BwOnly(t) /\ BwCallInv(t)' /\ bwCall'[t].shm = "none"
    <3> DEFINE l == bwCall[t].layout
    <3>1. bwCall' = [bwCall EXCEPT ![t] = [@ EXCEPT !.pc = "get", !.layout = l, !.shm = "none"]]
      BY <2>1
    <3>2. l \in BOOLEAN /\ l = bwCall[t].layout
      BY <1>1
    <3> HIDE DEF l
    <3> QED
      BY <2>2, <2>3, <3>1, <3>2, BwGoto
  <2> QED
    BY <1>1, <1>3, <2>3, <2>4, BwMove DEF BwGet, BwIInv, BwTypeOK
<1>4. CASE BwAlloc(t)
  <2> DEFINE p == IF bwDisabled THEN "reply" ELSE "first"
  <2>1. bwCall' = [bwCall EXCEPT ![t] = [@ EXCEPT !.pc = p, !.layout = bwDisabled,
                                                  !.shm = "own"]]
    BY <1>1, <1>4 DEF BwAlloc, BwCalls, BwCallInv
  <2>2. p \in {"first", "reply"}
    OBVIOUS
  <2>3. /\ bwCall[t].pc = "get" /\ bwCall[t].shm = "none"
        /\ UNCHANGED <<bwProbe, bwLock, bwClk, bwFile, bwDisabled, bwUnclocked, bwMissed,
                       bwOverlap, bwCut>>
    BY <1>1, <1>4 DEF BwAlloc, BwCallInv
  <2>4. BwOnly(t) /\ BwCallInv(t)' /\ bwCall'[t].shm = "own"
    <3> HIDE DEF p
    <3> QED
      BY <1>1, <2>1, <2>2, <2>3, BwGoto
  <2> QED
    BY <1>1, <1>4, <2>3, <2>4, BwMove DEF BwAlloc, BwIInv, BwTypeOK
<1>5. CASE BwRegisters(t)
  <2>1. bwCall' = [bwCall EXCEPT ![t] = [@ EXCEPT !.pc = "again", !.layout = bwCall[t].layout,
                                                  !.shm = "stale"]]
    BY <1>1, <1>5 DEF BwRegisters, BwCalls, BwCallInv
  <2>2. BwOnly(t) /\ BwCallInv(t)' /\ bwCall'[t].shm = "stale" /\ bwCall[t].shm = "own"
    BY <1>1, <1>5, <2>1, BwGoto DEF BwRegisters, BwCallInv
  <2>4. bwShm' = bwShm - 1 /\ bwRunning' = bwRunning
    BY <1>5 DEF BwRegisters
  <2>3. /\ bwFault' \in BOOLEAN /\ bwStarved' = bwStarved
        /\ bwFault => bwFault'
        /\ bwFault' => bwFault \/ bwProbe # "done"
    BY <1>5 DEF BwRegisters, BwIInv, BwTypeOK
  <2> QED
    BY <1>1, <2>2, <2>3, <2>4, BwMove
<1>6. CASE BwAllocAgain(t)
  <2>1. bwCall' = [bwCall EXCEPT ![t] = [@ EXCEPT !.pc = "reply", !.layout = bwCall[t].layout,
                                                  !.shm = "own"]]
    BY <1>1, <1>6 DEF BwAllocAgain, BwCalls, BwCallInv
  <2>2. BwOnly(t) /\ BwCallInv(t)' /\ bwCall'[t].shm = "own" /\ bwCall[t].shm = "stale"
    BY <1>1, <1>6, <2>1, BwGoto DEF BwAllocAgain, BwCallInv
  <2> QED
    BY <1>1, <1>6, <2>2, BwMove DEF BwAllocAgain, BwIInv, BwTypeOK
<1> QED
  BY <1>2, <1>3, <1>4, <1>5, <1>6

\* The steps that end a call: a command sent, one that is none, a reply, a failure.
LEMMA BwEnd ==
    ASSUME BwIInv, NEW t \in BwThread,
           \/ \E cmd \in Commands, issued \in BOOLEAN : BwStartStop(t, cmd, issued)
           \/ BwBadCommand(t)
           \/ BwGetFail(t)
           \/ BwReply(t)
    PROVE  BwIInv'
<1>1. bwCall \in BwCalls /\ BwCallInv(t) /\ bwShm \in Int /\ bwRunning \in BwFile \cup {BwNone}
      /\ bwCall[t].file \in BwFile \cup {BwNone} /\ bwCall[t].shm \in {"none", "own", "stale"}
  BY DEF BwIInv, BwTypeOK, BwCalls
<1>2. BwOnly(t) /\ BwCallInv(t)' /\ bwCall'[t].shm = "none"
  BY BwEnds DEF BwStartStop, BwBadCommand, BwGetFail, BwReply, BwOut
<1>3. ASSUME NEW cmd \in Commands, NEW issued \in BOOLEAN, BwStartStop(t, cmd, issued)
      PROVE  BwIInv'
  <2>1. /\ bwCall[t].pc = "dispatch" /\ bwShm' = bwShm /\ bwFault' = bwFault
        /\ bwStarved' = bwStarved
    BY <1>3 DEF BwStartStop, ReadCommand
  <2>2. bwCall[t].shm = "none" /\ bwCall[t].file \in BwFile /\ bwFile[bwCall[t].file] = "open"
    BY <1>1, <2>1 DEF BwCallInv
  <2>3. \/ bwRunning' \in {bwRunning, BwNone}
        \/ bwRunning' = bwCall[t].file
    BY <1>3 DEF BwStartStop
  <2>4. bwFault' \in BOOLEAN
    BY <2>1 DEF BwIInv, BwTypeOK
  <2>5. bwShm' = (bwShm + (IF bwCall'[t].shm = "own" THEN 1 ELSE 0))
                     - (IF bwCall[t].shm = "own" THEN 1 ELSE 0)
    BY <1>1, <1>2, <2>1, <2>2
  <2> QED
    BY <1>2, <2>1, <2>2, <2>3, <2>4, <2>5, BwMove
<1>4. CASE BwBadCommand(t)
  <2>1. /\ bwCall[t].shm = "none" /\ bwShm' = bwShm /\ bwFault' = bwFault
        /\ bwRunning' = bwRunning /\ bwStarved' = bwStarved
    BY <1>1, <1>4 DEF BwBadCommand, ReadCommand, BwCallInv
  <2>2. bwFault' \in BOOLEAN
    BY <2>1 DEF BwIInv, BwTypeOK
  <2> QED
    BY <1>1, <1>2, <2>1, <2>2, BwMove
<1>5. CASE BwGetFail(t) \/ BwReply(t)
  <2>3. bwCall[t].shm \in {"none", "own"}
    BY <1>1, <1>5 DEF BwGetFail, BwReply, BwCallInv
  <2>1. bwFault \in BOOLEAN /\ bwFault' = bwFault /\ bwStarved' = bwStarved
    BY <1>5, <2>3 DEF BwGetFail, BwReply, BwOut, BwIInv, BwTypeOK
  <2>2. bwShm' = (IF bwCall[t].shm = "own" THEN bwShm - 1 ELSE bwShm) /\ bwRunning' = bwRunning
    BY <1>5, <2>3 DEF BwGetFail, BwReply, BwOut
  <2> QED
    BY <1>1, <1>2, <2>1, <2>2, BwMove
<1> QED
  BY <1>3, <1>4, <1>5

\* The second allocation fails: the buffer of the first command is freed again.
LEMMA BwStarve ==
    ASSUME BwIInv, ~bwFault, NEW t \in BwThread, BwAllocFail(t)
    PROVE  BwIInv'
<1>1. bwCall \in BwCalls /\ BwCallInv(t) /\ bwShm \in Int /\ bwStarved = FALSE
  BY DEF BwIInv, BwTypeOK, BwCalls, BwMisuse
<1>2. BwOnly(t) /\ BwCallInv(t)' /\ bwCall'[t].shm = "none"
  BY BwEnds DEF BwAllocFail, BwOut
<1>3. /\ bwCall[t].shm = "stale" /\ bwShm' = bwShm - 1 /\ bwRunning' = bwRunning
      /\ bwFault' = TRUE /\ bwStarved' = TRUE
  BY <1>1 DEF BwAllocFail, BwOut, BwCallInv
<1>4. \A u \in BwThread : BwCallInv(u)'
  <2> SUFFICES ASSUME NEW u \in BwThread, u # t PROVE BwCallInv(u)'
    BY <1>2
  <2>1. bwCall'[u] = bwCall[u] /\ BwCallInv(u) /\ bwFile' = bwFile /\ bwDisabled' = bwDisabled
    BY <1>2 DEF BwOnly, BwIInv
  <2> QED
    BY <2>1 DEF BwCallInv, BwCallOf
<1>5. BwOwners' = BwOwners
  BY <1>2, <1>3 DEF BwOwners, BwOnly
<1>6. bwShm' = Cardinality(BwOwners') - 1 /\ bwShm' \in Int
  <2>1. Cardinality(BwOwners) \in Nat
    BY <1>2, BwOwnersMove DEF BwOnly
  <2>2. bwShm = Cardinality(BwOwners) - IF bwStarved THEN 1 ELSE 0
    BY DEF BwIInv
  <2>3. bwShm = Cardinality(BwOwners)
    BY <1>1, <2>1, <2>2
  <2> QED
    BY <1>3, <1>5, <2>1, <2>3
<1>7. BwTypeOK'
  BY <1>2, <1>3, <1>6 DEF BwIInv, BwTypeOK, BwOnly, BwCalls
<1>8. BwFiles' /\ BwSession'
  BY <1>2, <1>3 DEF BwIInv, BwFiles, BwSession, BwSessionStops, BwOnly
<1>9. BwClock' /\ BwMisuse'
  BY <1>2, <1>3 DEF BwIInv, BwClock, BwMisuse, BwOnly
<1> QED
  BY <1>3, <1>4, <1>6, <1>7, <1>8, <1>9 DEF BwIInv

\* A step of the profiler keeps BwIInv.
LEMMA BwStep == BwIInv /\ [BwNext]_bwVars => BwIInv'
<1> SUFFICES ASSUME BwIInv, [BwNext]_bwVars PROVE BwIInv'
  OBVIOUS
<1>1. CASE (BwProbe /\ ~bwFault) \/ UNCHANGED bwVars
  <2>1. BwTypeOK' /\ \A t \in BwThread : BwCallInv(t)'
    BY <1>1 DEF BwProbe, bwVars, BwIInv, BwTypeOK, BwCallInv, BwCallOf
  <2>2. BwFiles' /\ BwSession' /\ BwOwners' = BwOwners /\ bwShm' = bwShm
        /\ bwStarved' = bwStarved
    BY <1>1 DEF BwProbe, bwVars, BwIInv, BwFiles, BwSession, BwSessionStops, BwOwners
  <2>3. BwClock'
    BY <1>1 DEF BwProbe, bwVars, BwIInv, BwClock
  <2>4. CASE UNCHANGED bwVars
    BY <2>1, <2>2, <2>3, <2>4 DEF bwVars, BwIInv, BwMisuse
  <2>5. CASE BwProbe /\ ~bwFault
    BY <2>1, <2>2, <2>3, <2>5 DEF BwProbe, BwIInv, BwMisuse
  <2> QED
    BY <1>1, <2>4, <2>5
<1>7. ASSUME NEW f \in BwFile, NEW enabled \in BOOLEAN, BwOpen(f, enabled) PROVE BwIInv'
  <2>1. enabled = TRUE \/ enabled = FALSE
    OBVIOUS
  <2> QED
    BY <1>7, <2>1, BwFileStep
<1>2. ASSUME NEW f \in BwFile, BwRelease(f) PROVE BwIInv'
  BY <1>2, BwFileStep
<1>3. ASSUME NEW f \in BwFile, NEW issued \in BOOLEAN, BwReleaseStop(f, issued) PROVE BwIInv'
  <2>1. issued = TRUE \/ issued = FALSE
    OBVIOUS
  <2> QED
    BY <1>3, <2>1, BwFileStep
<1>4. ASSUME NEW t \in BwThread, NEW f \in BwFile, NEW mode \in BOOLEAN, NEW cmd \in Commands,
             BwIoctl(t, f, mode, cmd)
      PROVE  BwIInv'
  BY <1>4, BwIoctlStep
<1>5. ASSUME NEW t \in BwThread,
             \/ \E cmd \in Commands, issued \in BOOLEAN : BwStartStop(t, cmd, issued)
             \/ BwBadCommand(t)
             \/ BwGetFail(t)
             \/ BwReply(t)
      PROVE  BwIInv'
  BY <1>5, BwEnd
<1>6. ASSUME NEW t \in BwThread,
             BwCopy(t) \/ BwGet(t) \/ BwAlloc(t) \/ BwRegisters(t) \/ BwAllocAgain(t)
      PROVE  BwIInv'
  BY <1>6, BwGoOn
<1>8. ASSUME NEW t \in BwThread, ~bwFault, BwAllocFail(t) PROVE BwIInv'
  BY <1>8, BwStarve
<1> QED
  BY <1>1, <1>2, <1>3, <1>4, <1>5, <1>6, <1>7, <1>8 DEF BwNext

\* The invariant of the profiler, from which its three properties follow.
THEOREM BwInvariance == BwSpec => []BwIInv
  BY BwInitial, BwStep, PTL DEF BwSpec

(* profiler_open, profiler_release and bw_profiling_get: one open at a time, an  *)
(* enable of the clock for it less one for each open the clock refused, and a      *)
(* buffer for each call that owns one less the one freed twice when a second        *)
(* allocation fails; nothing is misused but that way or before probe has ended.      *)
THEOREM BwInvHolds == BwSpec => []BwInv
<1>1. BwIInv => BwInv
  <2> SUFFICES ASSUME BwIInv PROVE BwInv
    OBVIOUS
  <2> DEFINE O == {f \in BwFile : bwFile[f] = "open"}
  <2>1. Cardinality(O) = IF bwLock THEN 1 ELSE 0
    <3>1. CASE bwLock
      <4>1. PICK f \in BwFile : bwFile[f] = "open"
        BY <3>1 DEF BwIInv, BwFiles
      <4>2. O = {f}
        BY <4>1 DEF BwIInv, BwFiles
      <4> QED
        BY <3>1, <4>2, FS_Singleton
    <3>2. CASE ~bwLock
      <4>1. O = {}
        BY <3>2 DEF BwIInv, BwFiles
      <4> QED
        BY <3>2, <4>1, FS_EmptySet
    <3> QED
      BY <3>1, <3>2
  <2> QED
    BY <2>1 DEF BwIInv, BwClock, BwMisuse, BwInv, BwOwners
<1> QED
  BY <1>1, BwInvariance, PTL

(* profiler_release: the secure world profiles for a file that is open or     *)
(* about to send its stop command, unless the command could not be sent, and     *)
(* only a file opened between unlock and stop can lose its session to another's.   *)
THEOREM BwSessionStopsHolds == BwSpec => []BwSessionStops
<1>1. BwIInv => BwSessionStops
  BY DEF BwIInv, BwSession
<1> QED
  BY <1>1, BwInvariance, PTL

(* profiler_get_bw_info reads bw_profiling_disabled three times: a call that   *)
(* no ioctl of the other kind crossed sends its own command and answers in its    *)
(* own layout.                                                                    *)
THEOREM BwOwnLayoutHolds == BwSpec => []BwOwnLayout
<1>1. BwIInv => BwOwnLayout
  BY DEF BwIInv, BwOwnLayout, BwCallInv, BwCallOf
<1> QED
  BY <1>1, BwInvariance, PTL

-----------------------------------------------------------------------------
(* Cache errors *)

EdRecord == [kind : {"none", "irq12", "irq3", "pm", "panic"},
             pc : {"idle", "wait", "check", "clear", "stopped"},
             todo : {<<>>} \cup {<<r>> : r \in Records} \cup {<<L3, c>> : c \in EdacCpu}]

\* The record a handler is at.
EdAt(c) == Head(edacCpu[c].todo)

\* What is registered when, and when edev_ctl is gone.
EdLife ==
    /\ edacState = "none" => edacNotify = {}
    /\ edacData = "freed" <=> edacState \in {"failed", "unwinding", "releasing", "removed"}
    /\ "irq12" \in edacNotify => edacGlobal /\ edacState \in {"irqs", "up", "unwinding", "failed"}
    /\ "pm" \in edacNotify => edacGlobal /\ edacState \in {"up", "removing"}
    /\ edacState \in {"added", "irqs", "up", "removing", "unwinding"} => edacGlobal

\* A handler goes through its own records, and those of an interrupt run only
\* while it is requested.
EdCpu(c) ==
    /\ edacCpu[c].pc = "idle" <=> edacCpu[c].kind = "none"
    /\ edacCpu[c].kind = "none" => edacCpu[c].todo = <<>>
    /\ edacCpu[c].kind = "irq12" => edacCpu[c].todo = <<c>> /\ "irq12" \in edacNotify
    /\ edacCpu[c].kind = "irq3" => edacCpu[c].todo = <<L3>> /\ "irq3" \in edacNotify
    /\ edacCpu[c].kind \in {"pm", "panic"} => edacCpu[c].todo \in {<<L3, c>>, <<c>>}
    /\ edacCpu[c].kind = "panic" => edacPanic # EdacNoCpu

\* A CPU that panicked in its report, with the lock.
EdStuck(c) ==
    /\ edacCpu[c].pc = "wait" /\ edacPanic = c
    /\ \E r \in {L3, c} : /\ edacErr[r] = "ue" \/ (edacErr[r] = "ce" /\ panicOnCe)
                          /\ edacDone[r] = 1

\* One that found another CPU panicking already.
EdStopped(c) == edacCpu[c].pc = "stopped" /\ panicOnCe /\ edacPanic \notin {EdacNoCpu, c}

EdLock(c) ==
    /\ edacCpu[c].pc \in {"check", "clear", "stopped"} => edacLock = c
    /\ edacLock = c => edacCpu[c].pc \in {"check", "clear"} \/ EdStuck(c) \/ EdStopped(c)
    /\ edacCpu[c].pc = "clear" => edacErr[EdAt(c)] \in {"ce", "ue"} /\ edacDone[EdAt(c)] = 1

\* A reported error that is still in its record has the lock's holder over it.
EdErr(r) ==
    /\ edacDone[r] \in 0 .. 1
    /\ edacErr[r] = "bus" => r = L3
    /\ edacErr[r] # "none" /\ edacDone[r] = 1 =>
          \E c \in EdacCpu : /\ edacLock = c
                             /\ \/ edacCpu[c].pc \in {"wait", "stopped"}
                                \/ edacCpu[c].pc = "clear" /\ EdAt(c) = r

\* The first panic clears panic_on_ue.
EdUe == panicOnUe => edacPanic = EdacNoCpu

EdIInv ==
    /\ EdacInv
    /\ EdUe
    /\ EdLife
    /\ \A c \in EdacCpu : EdCpu(c) /\ EdLock(c)
    /\ \A r \in Records : EdErr(r)
    /\ ~edacLost

\* What a handler in progress is at, and what is left after it.
LEMMA EdTodo ==
    ASSUME NEW c \in EdacCpu, EdCpu(c), edacCpu[c].pc # "idle", edacCpu[c] \in EdRecord
    PROVE  /\ EdAt(c) \in {L3, c} /\ EdAt(c) \in Records
           /\ edacCpu[c].kind = "irq12" => EdAt(c) = c
           /\ \/ /\ Len(edacCpu[c].todo) = 1
                 /\ edacCpu[c].kind \in {"pm", "panic"} => EdAt(c) = c
              \/ /\ Len(edacCpu[c].todo) = 2 /\ edacCpu[c].todo = <<L3, c>>
                 /\ Tail(edacCpu[c].todo) = <<c>>
                 /\ edacCpu[c].kind \in {"pm", "panic"}
<1>1. edacCpu[c].kind \in {"irq12", "irq3", "pm", "panic"}
  BY DEF EdCpu, EdRecord
<1>2. edacCpu[c].todo = <<c>> \/ edacCpu[c].todo = <<L3>> \/ edacCpu[c].todo = <<L3, c>>
  BY <1>1 DEF EdCpu
<1>3. edacCpu[c].kind = "irq12" => edacCpu[c].todo = <<c>>
  BY DEF EdCpu
<1>4. edacCpu[c].kind \in {"pm", "panic"} => edacCpu[c].todo \in {<<L3, c>>, <<c>>}
  BY DEF EdCpu
<1>5. CASE edacCpu[c].todo = <<c>>
  BY <1>3, <1>4, <1>5 DEF EdAt, Records
<1>6. CASE edacCpu[c].todo = <<L3>>
  <2>1. <<L3>> # <<c>> /\ <<L3>> # <<L3, c>>
    BY EdacAssumption
  <2> QED
    BY <1>3, <1>4, <1>6, <2>1 DEF EdAt, Records
<1>7. CASE edacCpu[c].todo = <<L3, c>>
  <2>1. <<L3, c>> # <<c>> /\ <<L3, c>> # <<L3>>
    OBVIOUS
  <2>2. edacCpu[c].kind \in {"pm", "panic"}
    BY <1>1, <1>7, <2>1 DEF EdCpu
  <2> QED
    BY <1>7, <2>2 DEF EdAt, Records
<1> QED
  BY <1>2, <1>5, <1>6, <1>7

\* Records of a handler are of the type the model gives them.
LEMMA EdTypes == EdacTypeOK => edacCpu \in [EdacCpu -> EdRecord]
  BY DEF EdacTypeOK, EdRecord

\* Nothing runs at the start.
LEMMA EdInitial == EdacInit => EdIInv
<1> SUFFICES ASSUME EdacInit PROVE EdIInv
  OBVIOUS
<1>1. CpuIdle \in EdRecord /\ CpuIdle.pc = "idle" /\ CpuIdle.kind = "none" /\ CpuIdle.todo = <<>>
  BY DEF CpuIdle, EdRecord
<1>2. \A c \in EdacCpu : edacCpu[c] = CpuIdle
  BY DEF EdacInit
<1>3. EdacTypeOK
  <2>1. edacCpu \in [EdacCpu -> EdRecord]
    BY <1>1 DEF EdacInit
  <2>2. edacErr \in [Records -> {"none", "ce", "ue", "bus"}]
        /\ edacDone \in [Records -> 0 .. 2] /\ edacCount \in 0 .. MaxErrors
    BY EdacAssumption DEF EdacInit
  <2>3. {edacGlobal, panicOnUe, panicOnCe, edacLost, edacBad} \subseteq BOOLEAN
    BY DEF EdacInit
  <2> QED
    BY <2>1, <2>2, <2>3 DEF EdacInit, EdacTypeOK, EdRecord
<1>4. EdacInv /\ EdUe /\ EdLife /\ ~edacLost
  BY <1>3 DEF EdacInit, EdacInv, EdUe, EdLife
<1>5. \A c \in EdacCpu : EdCpu(c) /\ EdLock(c)
  BY <1>1, <1>2, EdacAssumption DEF EdacInit, EdCpu, EdLock
<1>6. \A r \in Records : EdErr(r)
  BY DEF EdacInit, EdErr
<1> QED
  BY <1>4, <1>5, <1>6 DEF EdIInv

\* The steps of probe and remove: no handler loses the interrupt it runs for.
LEMMA EdLifeStep ==
    ASSUME EdIInv, ~edacBad,
           \/ EdacRegister \/ EdacAdd \/ EdacAddFail \/ EdacRequest \/ EdacGiveUp \/ EdacUp
           \/ EdacRemoveIrq \/ EdacRemoveFree \/ EdacUnwound
    PROVE  EdIInv'
<1> USE DEF EdacRegister, EdacAdd, EdacAddFail, EdacRequest, EdacGiveUp, EdacUp, EdacRemoveIrq,
            EdacRemoveFree, EdacUnwound, Life
<1>1. UNCHANGED <<errVars, runVars, panicOnCe>>
  OBVIOUS
<1>2. EdacTypeOK'
  <2>1. edacState' \in {"none", "registered", "added", "irqs", "up", "removing",
                      "releasing", "removed", "unwinding", "failed"}
        /\ edacData' \in {"none", "live", "freed"} /\ edacGlobal' \in BOOLEAN
        /\ edacNotify' \subseteq {"panic", "pm", "irq12", "irq3"}
    BY DEF EdIInv, EdacInv, EdacTypeOK
  <2> QED
    BY <1>1, <2>1 DEF EdIInv, EdacInv, EdacTypeOK, errVars, runVars
<1>3. EdLife'
  BY DEF EdIInv, EdLife
<1>4. \A c \in EdacCpu : edacCpu[c].kind = "irq12" => "irq12" \in edacNotify'
  <2>1. "irq12" \in edacNotify => "irq12" \in edacNotify' \/ Quiet("irq12")
    BY DEF EdIInv, EdLife
  <2> QED
    BY <2>1 DEF EdIInv, EdCpu, Quiet
<1>5. \A c \in EdacCpu : edacCpu[c].kind = "irq3" => "irq3" \in edacNotify'
  <2>1. "irq3" \in edacNotify => "irq3" \in edacNotify' \/ Quiet("irq3")
    BY DEF EdIInv, EdLife
  <2> QED
    BY <2>1 DEF EdIInv, EdCpu, Quiet
<1>6. \A c \in EdacCpu : EdCpu(c)'
  BY <1>1, <1>4, <1>5 DEF EdIInv, EdCpu, runVars
<1>7. (\A c \in EdacCpu : EdLock(c)') /\ (\A r \in Records : EdErr(r)') /\ ~edacLost' /\ ~edacBad'
      /\ EdUe'
  BY <1>1 DEF EdIInv, EdLock, EdStuck, EdStopped, EdErr, EdAt, EdUe, runVars, errVars
<1> QED
  BY <1>2, <1>3, <1>6, <1>7 DEF EdIInv, EdacInv

\* An error appears in an empty record.
LEMMA EdRaiseStep ==
    ASSUME EdIInv, ~edacBad, NEW r \in Records, NEW e \in {"ce", "ue", "bus"}, EdacRaise(r, e)
    PROVE  EdIInv'
<1>1. /\ edacErr[r] = "none" /\ (e = "bus" => r = L3)
      /\ \A s \in Records : /\ edacErr'[s] = IF s = r THEN e ELSE edacErr[s]
                            /\ edacDone'[s] = IF s = r THEN 0 ELSE edacDone[s]
      /\ UNCHANGED <<lifeVars, runVars, edacLost>>
  BY DEF EdacRaise, EdIInv, EdacInv, EdacTypeOK
<1>2. EdacTypeOK'
  BY <1>1, EdacAssumption DEF EdacRaise, EdIInv, EdacInv, EdacTypeOK, lifeVars, runVars
<1>3. \A c \in EdacCpu : EdCpu(c)'
  BY <1>1 DEF EdIInv, EdCpu, lifeVars, runVars
<1>4. ASSUME NEW c \in EdacCpu PROVE EdLock(c)'
  <2>1. edacCpu[c] \in EdRecord /\ EdCpu(c) /\ EdLock(c) /\ L3 \in Records /\ c \in Records
    BY EdTypes DEF EdIInv, EdacInv, Records
  <2>2. edacCpu[c].pc = "clear" => EdAt(c) \in Records
    BY <2>1, EdTodo
  <2>3. EdAt(c)' = EdAt(c) /\ (EdStuck(c) => EdStuck(c)') /\ (EdStopped(c) => EdStopped(c)')
    BY <1>1, <2>1 DEF EdAt, EdStuck, EdStopped, runVars, lifeVars
  <2> QED
    BY <1>1, <2>1, <2>2, <2>3 DEF EdLock, runVars
<1>5. \A s \in Records : EdErr(s)'
  BY <1>1 DEF EdIInv, EdErr, EdAt, runVars
<1>6. EdLife' /\ EdUe' /\ ~edacLost' /\ ~edacBad'
  BY <1>1 DEF EdIInv, EdLife, EdUe, lifeVars, runVars
<1> QED
  BY <1>2, <1>3, <1>4, <1>5, <1>6 DEF EdIInv, EdacInv

\* A step of the CPU c alone, that leaves the driver's life and the error counts.
EdOnly(c) ==
    /\ edacCpu' \in [EdacCpu -> EdRecord]
    /\ \A d \in EdacCpu : d # c => edacCpu'[d] = edacCpu[d]
    /\ UNCHANGED <<lifeVars, edacCount>>
    /\ panicOnUe' \in BOOLEAN /\ edacLost' = edacLost
    /\ edacLock' \in EdacCpu \cup {EdacNoCpu} /\ edacPanic' \in EdacCpu \cup {EdacNoCpu}
    /\ (edacPanic' # edacPanic => edacPanic' # EdacNoCpu)

\* Memory that is gone, used by a handler, has one of the reasons of EdacInv.
EdWhy ==
    edacBad /\ edacPanic = EdacNoCpu =>
          /\ edacData = "freed"
          /\ \/ "irq3" \in edacNotify
             \/ "irq12" \in edacNotify /\ edacState \in {"unwinding", "failed"}
             \/ ~Quiet("pm")

\* What such a step must say for the invariant to hold after it.
LEMMA EdMove ==
    ASSUME EdIInv, NEW c \in EdacCpu, EdOnly(c), EdCpu(c)', edacBad' \in BOOLEAN, EdWhy',
           \A d \in EdacCpu : EdLock(d)', \A r \in Records : EdErr(r)', EdUe',
           edacErr' \in [Records -> {"none", "ce", "ue", "bus"}],
           edacDone' \in [Records -> 0 .. 2]
    PROVE  EdIInv'
<1>1. EdacTypeOK'
  BY DEF EdIInv, EdacInv, EdacTypeOK, EdOnly, lifeVars, EdRecord
<1>2. EdLife' /\ ~edacLost'
  BY DEF EdIInv, EdLife, EdOnly, lifeVars
<1>3. \A d \in EdacCpu : EdCpu(d)'
  <2> SUFFICES ASSUME NEW d \in EdacCpu, d # c PROVE EdCpu(d)'
    OBVIOUS
  <2>1. edacCpu'[d] = edacCpu[d] /\ EdCpu(d) /\ edacNotify' = edacNotify
    BY DEF EdOnly, EdIInv, lifeVars
  <2>2. edacPanic # EdacNoCpu => edacPanic' # EdacNoCpu
    BY DEF EdOnly
  <2> QED
    BY <2>1, <2>2 DEF EdCpu
<1> QED
  BY <1>1, <1>2, <1>3 DEF EdIInv, EdacInv, EdWhy

\* The start of a handler, on a CPU that runs none, with no panic about.
LEMMA EdBegin ==
    ASSUME EdIInv, NEW c \in EdacCpu, NEW k \in {"irq12", "irq3", "pm", "panic"}, NEW s,
           Begin(c, k, s), edacBad' \in BOOLEAN, EdWhy',
           k = "irq12" => s = <<c>> /\ "irq12" \in edacNotify,
           k = "irq3" => s = <<L3>> /\ "irq3" \in edacNotify,
           k \in {"pm", "panic"} => s = <<L3, c>>,
           k = "panic" => edacPanic' = c /\ panicOnUe' = FALSE,
           k # "panic" => UNCHANGED <<panicOnUe, edacPanic>>
    PROVE  EdIInv'
<1>1. [kind |-> k, pc |-> "wait", todo |-> s] \in EdRecord
  <2>1. s \in {<<>>} \cup {<<r>> : r \in Records} \cup {<<L3, d>> : d \in EdacCpu}
    BY DEF Records
  <2> QED
    BY <2>1 DEF EdRecord
<1>2. edacCpu \in [EdacCpu -> EdRecord] /\ edacCpu[c].pc = "idle" /\ edacPanic = EdacNoCpu
  BY EdTypes DEF EdIInv, EdacInv, Begin
<1>3. /\ edacCpu' \in [EdacCpu -> EdRecord]
      /\ edacCpu'[c].kind = k /\ edacCpu'[c].pc = "wait" /\ edacCpu'[c].todo = s
      /\ \A d \in EdacCpu : d # c => edacCpu'[d] = edacCpu[d]
  BY <1>1, <1>2 DEF Begin
<1>4. UNCHANGED <<lifeVars, edacErr, edacDone, edacCount, edacLost, edacLock>>
  BY DEF Begin, errVars
<1>11. EdUe'
  BY <1>2 DEF EdIInv, EdUe
<1>5. EdOnly(c)
  <2>1. panicOnUe' \in BOOLEAN /\ edacPanic' \in EdacCpu \cup {EdacNoCpu}
    BY DEF EdIInv, EdacInv, EdacTypeOK
  <2>2. edacLock' \in EdacCpu \cup {EdacNoCpu}
    BY <1>4 DEF EdIInv, EdacInv, EdacTypeOK
  <2>3. edacPanic' # edacPanic => edacPanic' # EdacNoCpu
    BY EdacAssumption
  <2> QED
    BY <1>3, <1>4, <2>1, <2>2, <2>3 DEF EdOnly
<1>6. EdCpu(c)'
  BY <1>3, <1>4, EdacAssumption DEF EdCpu, lifeVars
<1>7. edacLock # c
  BY <1>2 DEF EdIInv, EdLock, EdStuck, EdStopped
<1>8. \A d \in EdacCpu : EdLock(d)'
  <2> SUFFICES ASSUME NEW d \in EdacCpu PROVE EdLock(d)'
    OBVIOUS
  <2>1. CASE d = c
    BY <1>3, <1>4, <1>7, <2>1 DEF EdLock
  <2>2. CASE d # c
    <3>1. EdLock(d) /\ ~EdStuck(d) /\ ~EdStopped(d)
      BY <1>2, EdacAssumption DEF EdIInv, EdStuck, EdStopped
    <3> QED
      BY <1>3, <1>4, <2>2, <3>1 DEF EdLock, EdAt
  <2> QED
    BY <2>1, <2>2
<1>9. \A r \in Records : EdErr(r)'
  <2> SUFFICES ASSUME NEW r \in Records PROVE EdErr(r)'
    OBVIOUS
  <2>1. EdErr(r)
    BY DEF EdIInv
  <2> QED
    BY <1>3, <1>4, <1>7, <2>1 DEF EdErr, EdAt
<1>10. edacErr' \in [Records -> {"none", "ce", "ue", "bus"}] /\ edacDone' \in [Records -> 0 .. 2]
  BY <1>4 DEF EdIInv, EdacInv, EdacTypeOK
<1> QED
  BY <1>5, <1>6, <1>8, <1>9, <1>10, <1>11, EdMove

\* The interrupts, the exit from idle and the panic notifier begin.
LEMMA EdBeginStep ==
    ASSUME EdIInv, ~edacBad, NEW c \in EdacCpu,
           EdacIrq12(c) \/ EdacIrq3(c) \/ EdacPmExit(c) \/ EdacPanicElsewhere(c)
    PROVE  EdIInv'
<1>0. edacGlobal \in BOOLEAN
  BY DEF EdIInv, EdacInv, EdacTypeOK
<1>1. CASE EdacIrq12(c)
  <2>1. edacBad' \in BOOLEAN /\ EdWhy'
    BY <1>1 DEF EdacIrq12, Begin, GlobalGone, EdIInv, EdLife, EdWhy, lifeVars
  <2> QED
    BY <1>1, <2>1, EdBegin DEF EdacIrq12
<1>2. CASE EdacIrq3(c)
  <2>1. edacBad' \in BOOLEAN /\ EdWhy'
    BY <1>2 DEF EdacIrq3, Begin, EdIInv, EdLife, EdWhy, lifeVars
  <2> QED
    BY <1>2, <2>1, EdBegin DEF EdacIrq3
<1>3. CASE EdacPmExit(c)
  <2>1. edacBad' \in BOOLEAN /\ EdWhy'
    BY <1>3 DEF EdacPmExit, Begin, GlobalGone, EdIInv, EdLife, EdWhy, lifeVars
  <2> QED
    BY <1>3, <2>1, EdBegin DEF EdacPmExit
<1>4. CASE EdacPanicElsewhere(c)
  <2>1. edacBad' \in BOOLEAN /\ EdWhy'
    BY <1>4, EdacAssumption DEF EdacPanicElsewhere, Begin, GlobalGone, EdWhy
  <2> QED
    BY <1>4, <2>1, EdBegin DEF EdacPanicElsewhere
<1> QED
  BY <1>1, <1>2, <1>3, <1>4

\* The end of a check: the handler is over, or at its second record.
LEMMA EdDone ==
    ASSUME EdIInv, NEW c \in EdacCpu, edacCpu[c].pc \in {"check", "clear"}, Done(c),
           UNCHANGED <<edacNotify, edacPanic>>
    PROVE  /\ edacCpu' \in [EdacCpu -> EdRecord] /\ edacLock' = EdacNoCpu
           /\ \A d \in EdacCpu : d # c => edacCpu'[d] = edacCpu[d]
           /\ edacCpu'[c].pc \in {"idle", "wait"} /\ EdCpu(c)'
           /\ EdAt(c) = L3 /\ edacCpu[c].kind = "pm" => edacCpu'[c].kind = "pm"
<1>1. edacCpu \in [EdacCpu -> EdRecord] /\ EdCpu(c)
  BY EdTypes DEF EdIInv, EdacInv
<1>2. /\ \/ /\ Len(edacCpu[c].todo) = 1
            /\ edacCpu[c].kind \in {"pm", "panic"} => EdAt(c) = c
         \/ /\ Len(edacCpu[c].todo) = 2 /\ edacCpu[c].todo = <<L3, c>>
            /\ Tail(edacCpu[c].todo) = <<c>>
            /\ edacCpu[c].kind \in {"pm", "panic"}
  BY <1>1, EdTodo
<1>3. edacLock' = EdacNoCpu
  BY DEF Done
<1>4. CASE Len(edacCpu[c].todo) = 1
  <2>1. /\ edacCpu' \in [EdacCpu -> EdRecord] /\ edacCpu'[c] = CpuIdle
        /\ \A d \in EdacCpu : d # c => edacCpu'[d] = edacCpu[d]
    <3>1. CpuIdle \in EdRecord
      BY DEF CpuIdle, EdRecord
    <3> QED
      BY <1>1, <1>4, <3>1 DEF Done
  <2>2. EdCpu(c)' /\ edacCpu'[c].pc = "idle"
    BY <2>1 DEF EdCpu, CpuIdle
  <2> QED
    BY <1>2, <1>3, <1>4, <2>1, <2>2, EdacAssumption
<1>5. CASE Len(edacCpu[c].todo) = 2
  <2>0. Tail(edacCpu[c].todo) = <<c>> /\ edacCpu[c].kind \in {"pm", "panic"}
    BY <1>2, <1>5
  <2> DEFINE rest == [edacCpu[c] EXCEPT !.pc = "wait", !.todo = <<c>>]
  <2>1. /\ rest \in EdRecord /\ rest.pc = "wait" /\ rest.todo = <<c>> /\ rest.kind = edacCpu[c].kind
    BY <1>1 DEF EdRecord, Records
  <2>2. /\ edacCpu' \in [EdacCpu -> EdRecord] /\ edacCpu'[c] = rest
        /\ \A d \in EdacCpu : d # c => edacCpu'[d] = edacCpu[d]
    <3>1. edacCpu' = [edacCpu EXCEPT ![c] =
             [edacCpu[c] EXCEPT !.pc = "wait", !.todo = Tail(edacCpu[c].todo)]]
      BY <1>1, <1>5 DEF Done
    <3>2. edacCpu' = [edacCpu EXCEPT ![c] = rest]
      BY <2>0, <3>1
    <3> HIDE DEF rest
    <3> QED
      BY <1>1, <2>1, <3>2
  <2>3. EdCpu(c)'
    <3> HIDE DEF rest
    <3> QED
      BY <1>1, <2>0, <2>1, <2>2 DEF EdCpu
  <2> QED
    BY <1>3, <2>1, <2>2, <2>3
<1> QED
  BY <1>2, <1>4, <1>5

\* The lock is free after the step, and its holder was c: the records agree.
LEMMA EdUnlocked ==
    ASSUME EdIInv, NEW c \in EdacCpu, edacLock = c, edacLock' = EdacNoCpu,
           \A d \in EdacCpu : d # c => edacCpu'[d] = edacCpu[d],
           edacCpu'[c].pc \in {"idle", "wait"}
    PROVE  \A d \in EdacCpu : EdLock(d)'
<1> SUFFICES ASSUME NEW d \in EdacCpu PROVE EdLock(d)'
  OBVIOUS
<1>1. edacLock' # d /\ (d # c => edacCpu[d].pc \notin {"check", "clear", "stopped"})
  BY EdacAssumption DEF EdIInv, EdLock
<1> QED
  BY <1>1 DEF EdLock

\* A CPU takes the lock.
LEMMA EdTakeStep ==
    ASSUME EdIInv, ~edacBad, NEW c \in EdacCpu, EdacTake(c)
    PROVE  EdIInv'
<1>1. edacCpu \in [EdacCpu -> EdRecord] /\ EdCpu(c) /\ edacLock = EdacNoCpu /\ edacCpu[c].pc = "wait"
  BY EdTypes DEF EdIInv, EdacInv, EdacTake, LockFree
<1>2. /\ edacCpu' \in [EdacCpu -> EdRecord]
      /\ edacCpu'[c].pc = "check" /\ edacCpu'[c].kind = edacCpu[c].kind
      /\ edacCpu'[c].todo = edacCpu[c].todo
      /\ \A d \in EdacCpu : d # c => edacCpu'[d] = edacCpu[d]
  <2>1. [edacCpu[c] EXCEPT !.pc = "check"] \in EdRecord
    BY <1>1 DEF EdRecord
  <2> QED
    BY <1>1, <2>1 DEF EdacTake, EdRecord
<1>3. UNCHANGED <<lifeVars, edacErr, edacDone, edacCount, edacLost, panicOnUe, edacPanic, edacBad>>
      /\ edacLock' = c
  BY DEF EdacTake, errVars
<1>4. EdOnly(c) /\ EdWhy' /\ edacBad' \in BOOLEAN
  BY <1>2, <1>3 DEF EdOnly, EdWhy, EdIInv, EdacInv, EdacTypeOK
<1>5. EdCpu(c)'
  BY <1>1, <1>2, <1>3 DEF EdCpu, lifeVars
<1>6. \A d \in EdacCpu : EdLock(d)'
  <2> SUFFICES ASSUME NEW d \in EdacCpu PROVE EdLock(d)'
    OBVIOUS
  <2>1. EdLock(d)
    BY DEF EdIInv
  <2> QED
    BY <1>1, <1>2, <1>3, <2>1, EdacAssumption DEF EdLock
<1>7. \A r \in Records : EdErr(r)'
  <2> SUFFICES ASSUME NEW r \in Records PROVE EdErr(r)'
    OBVIOUS
  <2>1. EdErr(r)
    BY DEF EdIInv
  <2> QED
    BY <1>1, <1>3, <2>1, EdacAssumption DEF EdErr
<1>8. EdUe'
  BY <1>3 DEF EdIInv, EdUe
<1> QED
  BY <1>3, <1>4, <1>5, <1>6, <1>7, <1>8, EdMove DEF EdIInv, EdacInv, EdacTypeOK

\* With c at a check nothing that was reported is still in a record.
LEMMA EdFresh ==
    ASSUME EdIInv, NEW c \in EdacCpu, edacCpu[c].pc = "check", NEW r \in Records
    PROVE  edacErr[r] = "none" \/ edacDone[r] = 0
<1>1. edacLock = c
  BY DEF EdIInv, EdLock
<1>2. EdErr(r)
  BY DEF EdIInv
<1> QED
  BY <1>1, <1>2 DEF EdErr

\* A check that finds nothing, or a bus error, which stays.
LEMMA EdCheckStep ==
    ASSUME EdIInv, ~edacBad, NEW c \in EdacCpu, EdacNothing(c) \/ EdacBus(c)
    PROVE  EdIInv'
<1>1. edacCpu \in [EdacCpu -> EdRecord] /\ EdCpu(c) /\ edacCpu[c].pc = "check" /\ edacLock = c
  BY EdTypes DEF EdIInv, EdacInv, EdacNothing, EdacBus, Checking, EdLock
<1>2. UNCHANGED <<lifeVars, edacErr, edacDone, edacCount, edacLost>>
  BY DEF EdacNothing, EdacBus, errVars
<1>3. EdAt(c) \in Records /\ (edacCpu[c].kind = "irq12" => EdAt(c) = c)
      /\ edacCpu[c].kind \in {"irq12", "irq3", "pm", "panic"}
  <2>1. EdAt(c) \in Records /\ (edacCpu[c].kind = "irq12" => EdAt(c) = c)
    BY <1>1, EdTodo
  <2> QED
    BY <1>1, <2>1 DEF EdCpu, EdRecord
<1>4. /\ edacCpu' \in [EdacCpu -> EdRecord] /\ edacLock' = EdacNoCpu
      /\ \A d \in EdacCpu : d # c => edacCpu'[d] = edacCpu[d]
      /\ edacCpu'[c].pc \in {"idle", "wait"} /\ EdCpu(c)'
      /\ EdAt(c) = L3 /\ edacCpu[c].kind = "pm" /\ edacPanic' = EdacNoCpu =>
            edacCpu'[c].kind = "pm"
      /\ panicOnUe' \in BOOLEAN /\ edacPanic' \in {edacPanic, c} /\ EdUe'
  <2>1. CASE EdacBus(c) /\ panicOnUe
    <3>1. [kind |-> "panic", pc |-> "wait", todo |-> <<L3, c>>] \in EdRecord
      BY DEF EdRecord
    <3>2. Panic(c) /\ edacLock' = EdacNoCpu /\ edacPanic = EdacNoCpu
      BY <2>1 DEF EdacBus, EdIInv, EdUe
    <3>3. /\ edacCpu' \in [EdacCpu -> EdRecord]
          /\ edacCpu'[c] = [kind |-> "panic", pc |-> "wait", todo |-> <<L3, c>>]
          /\ \A d \in EdacCpu : d # c => edacCpu'[d] = edacCpu[d]
      BY <1>1, <3>1, <3>2 DEF Panic
    <3>4. edacPanic' = c /\ panicOnUe' = FALSE /\ EdUe'
      BY <3>2 DEF Panic, EdUe
    <3>5. EdCpu(c)' /\ edacCpu'[c].pc = "wait"
      BY <3>3, <3>4, EdacAssumption DEF EdCpu
    <3>6. edacPanic' # EdacNoCpu
      BY <3>4, EdacAssumption
    <3> QED
      BY <3>2, <3>3, <3>4, <3>5, <3>6
  <2>2. CASE ~(EdacBus(c) /\ panicOnUe)
    <3>1. Done(c) /\ UNCHANGED <<panicOnUe, edacPanic>>
      BY <2>2 DEF EdacBus, EdacNothing
    <3>2. panicOnUe' \in BOOLEAN /\ EdUe'
      BY <3>1 DEF EdIInv, EdacInv, EdacTypeOK, EdUe
    <3> QED
      BY <1>1, <1>2, <3>1, <3>2, EdDone DEF lifeVars
  <2> QED
    BY <2>1, <2>2
<1>5. edacBad' \in BOOLEAN /\ EdWhy'
  <2>1. CASE EdacNothing(c)
    BY <2>1 DEF EdacNothing, EdWhy, EdIInv, EdacInv, EdacTypeOK
  <2>2. CASE EdacBus(c)
    <3>1. edacBad' = (edacData = "freed") /\ edacErr[EdAt(c)] = "bus"
      BY <2>2 DEF EdacBus, Checking, EdAt
    <3>2. EdAt(c) = L3 /\ edacCpu[c].kind # "irq12"
      BY <1>3, <3>1, EdacAssumption DEF EdIInv, EdErr
    <3>3. CASE edacCpu[c].kind = "irq3"
      BY <1>1, <1>2, <3>1, <3>3 DEF EdWhy, EdCpu, lifeVars
    <3>4. CASE edacCpu[c].kind = "pm"
      BY <1>2, <1>4, <3>1, <3>2, <3>4 DEF EdWhy, Quiet, lifeVars
    <3>5. CASE edacCpu[c].kind = "panic"
      BY <1>1, <1>4, <3>1, <3>5, EdacAssumption DEF EdWhy, EdCpu
    <3> QED
      BY <1>3, <3>2, <3>3, <3>4, <3>5
  <2> QED
    BY <2>1, <2>2
<1>6. EdOnly(c)
  <2>1. edacPanic \in EdacCpu \cup {EdacNoCpu}
    BY DEF EdIInv, EdacInv, EdacTypeOK
  <2> QED
    BY <1>2, <1>4, <2>1, EdacAssumption DEF EdOnly
<1>7. \A r \in Records : EdErr(r)'
  <2> SUFFICES ASSUME NEW r \in Records PROVE EdErr(r)'
    OBVIOUS
  <2>1. EdErr(r) /\ (edacErr[r] = "none" \/ edacDone[r] = 0)
    BY <1>1, EdFresh DEF EdIInv
  <2> QED
    BY <1>2, <2>1 DEF EdErr
<1>8. \A d \in EdacCpu : EdLock(d)'
  BY <1>1, <1>4, EdUnlocked
<1> QED
  BY <1>2, <1>4, <1>5, <1>6, <1>7, <1>8, EdMove DEF EdIInv, EdacInv, EdacTypeOK

\* A report, which may panic with the lock held.
LEMMA EdReportStep ==
    ASSUME EdIInv, ~edacBad, NEW c \in EdacCpu, EdacReport(c)
    PROVE  EdIInv'
<1> DEFINE a == EdAt(c)
<1>1. edacCpu \in [EdacCpu -> EdRecord] /\ EdCpu(c) /\ edacCpu[c].pc = "check" /\ edacLock = c
  BY EdTypes DEF EdIInv, EdacInv, EdacReport, Checking, EdLock
<1>2. a \in {L3, c} /\ a \in Records /\ edacCpu[c].kind \in {"irq12", "irq3", "pm", "panic"}
  <2>1. a \in {L3, c} /\ a \in Records
    BY <1>1, EdTodo
  <2> QED
    BY <1>1, <2>1 DEF EdCpu, EdRecord
<1>3. edacErr[a] \in {"ce", "ue"} /\ edacDone[a] = 0
  <2>1. edacErr[a] \in {"ce", "ue"}
    BY DEF EdacReport, Checking, EdAt
  <2> QED
    BY <1>1, <1>2, <2>1, EdFresh
<1>4. /\ edacDone' \in [Records -> 0 .. 2]
      /\ \A r \in Records : edacDone'[r] = IF r = a THEN 1 ELSE edacDone[r]
      /\ UNCHANGED <<lifeVars, edacErr, edacCount, edacLost, edacLock>>
  <2>1. edacDone' = [edacDone EXCEPT ![a] = IF edacDone[a] = 0 THEN 1 ELSE 2]
    BY DEF EdacReport, Report, EdAt
  <2>2. edacDone \in [Records -> 0 .. 2]
    BY DEF EdIInv, EdacInv, EdacTypeOK
  <2> QED
    BY <1>2, <1>3, <2>1, <2>2 DEF EdacReport
<1>5. /\ edacCpu' \in [EdacCpu -> EdRecord]
      /\ \A d \in EdacCpu : d # c => edacCpu'[d] = edacCpu[d]
      /\ EdCpu(c)' /\ panicOnUe' \in BOOLEAN /\ EdUe'
      /\ \/ /\ edacCpu'[c].pc = "wait" /\ edacPanic' = c
            /\ edacErr[a] = "ue" \/ (edacErr[a] = "ce" /\ panicOnCe)
         \/ /\ edacCpu'[c].pc = "stopped" /\ edacPanic' = edacPanic
            /\ edacPanic \notin {EdacNoCpu, c} /\ panicOnCe
         \/ /\ edacCpu'[c].pc = "clear" /\ edacCpu'[c].kind = edacCpu[c].kind
            /\ EdAt(c)' = a /\ edacPanic' = edacPanic
  <2>1. CASE PanicsOn(edacErr[a]) /\ edacPanic \in {EdacNoCpu, c}
    <3>1. [kind |-> "panic", pc |-> "wait", todo |-> <<L3, c>>] \in EdRecord
      BY DEF EdRecord
    <3>2. Panic(c)
      BY <2>1 DEF EdacReport, EdAt
    <3>6. edacErr[a] = "ue" \/ (edacErr[a] = "ce" /\ panicOnCe)
      BY <2>1 DEF PanicsOn
    <3>3. /\ edacCpu' \in [EdacCpu -> EdRecord]
          /\ edacCpu'[c] = [kind |-> "panic", pc |-> "wait", todo |-> <<L3, c>>]
          /\ \A d \in EdacCpu : d # c => edacCpu'[d] = edacCpu[d]
      BY <1>1, <2>1, <3>1, <3>2 DEF Panic
    <3>4. edacPanic' = c /\ panicOnUe' = FALSE /\ EdUe'
      BY <2>1, <3>2 DEF Panic, EdUe
    <3>5. EdCpu(c)' /\ edacCpu'[c].pc = "wait"
      BY <3>3, <3>4, EdacAssumption DEF EdCpu
    <3> QED
      BY <3>3, <3>4, <3>5, <3>6
  <2>3. CASE PanicsOn(edacErr[a]) /\ edacPanic \notin {EdacNoCpu, c}
    <3>1. edacCpu' = [edacCpu EXCEPT ![c].pc = "stopped"] /\ UNCHANGED <<panicOnUe, edacPanic>>
      BY <2>3 DEF EdacReport, EdAt, Panic
    <3>2. panicOnCe
      BY <2>3 DEF PanicsOn, EdIInv, EdUe
    <3>3. [edacCpu[c] EXCEPT !.pc = "stopped"] \in EdRecord
      BY <1>1 DEF EdRecord
    <3>4. /\ edacCpu' \in [EdacCpu -> EdRecord]
          /\ edacCpu'[c].pc = "stopped" /\ edacCpu'[c].kind = edacCpu[c].kind
          /\ edacCpu'[c].todo = edacCpu[c].todo
          /\ \A d \in EdacCpu : d # c => edacCpu'[d] = edacCpu[d]
      BY <1>1, <3>1, <3>3 DEF EdRecord
    <3>5. EdCpu(c)'
      BY <1>1, <1>4, <3>1, <3>4 DEF EdCpu, lifeVars
    <3>6. panicOnUe' \in BOOLEAN /\ EdUe'
      BY <3>1 DEF EdIInv, EdacInv, EdacTypeOK, EdUe
    <3> QED
      BY <2>3, <3>1, <3>2, <3>4, <3>5, <3>6
  <2>2. CASE ~PanicsOn(edacErr[a])
    <3>1. edacCpu' = [edacCpu EXCEPT ![c].pc = "clear"] /\ UNCHANGED <<panicOnUe, edacPanic>>
      BY <2>2 DEF EdacReport, EdAt
    <3>2. [edacCpu[c] EXCEPT !.pc = "clear"] \in EdRecord
      BY <1>1 DEF EdRecord
    <3>3. /\ edacCpu' \in [EdacCpu -> EdRecord]
          /\ edacCpu'[c].pc = "clear" /\ edacCpu'[c].kind = edacCpu[c].kind
          /\ edacCpu'[c].todo = edacCpu[c].todo
          /\ \A d \in EdacCpu : d # c => edacCpu'[d] = edacCpu[d]
      BY <1>1, <3>1, <3>2 DEF EdRecord
    <3>4. EdCpu(c)' /\ EdAt(c)' = a
      BY <1>1, <1>4, <3>1, <3>3 DEF EdCpu, EdAt, lifeVars
    <3>5. panicOnUe' \in BOOLEAN /\ EdUe'
      BY <3>1 DEF EdIInv, EdacInv, EdacTypeOK, EdUe
    <3> QED
      BY <3>1, <3>3, <3>4, <3>5
  <2> QED
    BY <2>1, <2>2, <2>3
<1> HIDE DEF a
<1>6. EdOnly(c)
  <2>1. edacPanic \in EdacCpu \cup {EdacNoCpu} /\ edacLock \in EdacCpu \cup {EdacNoCpu}
    BY DEF EdIInv, EdacInv, EdacTypeOK
  <2> QED
    BY <1>4, <1>5, <2>1, EdacAssumption DEF EdOnly
<1>7. edacBad' \in BOOLEAN /\ EdWhy'
  <2>1. edacBad' = (edacData = "freed")
    BY DEF EdacReport
  <2>2. CASE edacPanic' # EdacNoCpu
    BY <2>1, <2>2 DEF EdWhy
  <2>3. CASE edacPanic' = EdacNoCpu
    <3>1. edacCpu'[c].kind = edacCpu[c].kind /\ edacPanic = EdacNoCpu /\ edacCpu[c].kind # "panic"
      BY <1>1, <1>5, <2>3, EdacAssumption DEF EdCpu
    <3>2. edacNotify' = edacNotify /\ edacState' = edacState /\ edacData' = edacData
      BY <1>4 DEF lifeVars
    <3>3. CASE edacCpu[c].kind = "irq12"
      <4>1. "irq12" \in edacNotify
        BY <1>1, <3>3 DEF EdCpu
      <4>2. edacData = "freed" => edacState \in {"unwinding", "failed"}
        BY <4>1 DEF EdIInv, EdLife
      <4> QED
        BY <2>1, <3>2, <4>1, <4>2 DEF EdWhy
    <3>4. CASE edacCpu[c].kind = "irq3"
      BY <1>1, <2>1, <3>2, <3>4 DEF EdWhy, EdCpu
    <3>5. CASE edacCpu[c].kind = "pm"
      BY <2>1, <3>1, <3>2, <3>5 DEF EdWhy, Quiet
    <3> QED
      BY <1>2, <3>1, <3>3, <3>4, <3>5
  <2> QED
    BY <2>2, <2>3
<1>8. \A d \in EdacCpu : EdLock(d)'
  <2> SUFFICES ASSUME NEW d \in EdacCpu PROVE EdLock(d)'
    OBVIOUS
  <2>1. CASE d # c
    <3>1. edacCpu[d].pc \notin {"check", "clear", "stopped"}
      BY <1>1, <2>1 DEF EdIInv, EdLock
    <3> QED
      BY <1>1, <1>4, <1>5, <2>1, <3>1 DEF EdLock
  <2>2. CASE d = c
    <3>1. edacErr'[a] \in {"ce", "ue"} /\ edacDone'[a] = 1 /\ edacLock' = c
      BY <1>1, <1>2, <1>3, <1>4
    <3>2. CASE /\ edacCpu'[c].pc = "wait" /\ edacPanic' = c
               /\ edacErr[a] = "ue" \/ (edacErr[a] = "ce" /\ panicOnCe)
      <4>1. EdStuck(c)'
        BY <1>2, <1>4, <3>1, <3>2 DEF EdStuck, lifeVars
      <4> QED
        BY <2>2, <3>2, <4>1 DEF EdLock
    <3>3. CASE edacCpu'[c].pc = "clear" /\ EdAt(c)' = a
      BY <2>2, <3>1, <3>3 DEF EdLock
    <3>4. CASE /\ edacCpu'[c].pc = "stopped" /\ edacPanic' = edacPanic
               /\ edacPanic \notin {EdacNoCpu, c} /\ panicOnCe
      <4>1. EdStopped(c)'
        BY <1>4, <3>4 DEF EdStopped, lifeVars
      <4> QED
        BY <2>2, <3>1, <3>4, <4>1 DEF EdLock
    <3> QED
      BY <1>5, <3>2, <3>3, <3>4
  <2> QED
    BY <2>1, <2>2
<1>9. \A r \in Records : EdErr(r)'
  <2> SUFFICES ASSUME NEW r \in Records PROVE EdErr(r)'
    OBVIOUS
  <2>1. EdErr(r) /\ (edacErr[r] = "none" \/ edacDone[r] = 0)
    BY <1>1, EdFresh DEF EdIInv
  <2>2. CASE r = a
    BY <1>1, <1>4, <1>5, <2>1, <2>2 DEF EdErr
  <2>3. CASE r # a
    BY <1>4, <2>1, <2>3 DEF EdErr
  <2> QED
    BY <2>2, <2>3
<1>10. edacErr' \in [Records -> {"none", "ce", "ue", "bus"}] /\ EdUe'
  BY <1>4, <1>5 DEF EdIInv, EdacInv, EdacTypeOK
<1> QED
  BY <1>4, <1>5, <1>6, <1>7, <1>8, <1>9, <1>10, EdMove

\* A reported error is cleared.
LEMMA EdClearStep ==
    ASSUME EdIInv, ~edacBad, NEW c \in EdacCpu, EdacClear(c)
    PROVE  EdIInv'
<1> DEFINE a == EdAt(c)
<1>1. /\ edacCpu \in [EdacCpu -> EdRecord] /\ EdCpu(c) /\ edacCpu[c].pc = "clear" /\ edacLock = c
      /\ edacDone[a] = 1
  BY EdTypes DEF EdIInv, EdacInv, EdacClear, EdLock
<1>2. a \in Records
  BY <1>1, EdTodo
<1>3. /\ edacErr' = [edacErr EXCEPT ![a] = "none"]
      /\ edacLost' = (edacLost \/ (edacErr[a] # "none" /\ edacDone[a] = 0))
      /\ UNCHANGED <<lifeVars, edacDone, edacCount, panicOnUe, edacPanic, edacBad>>
  BY DEF EdacClear, EdAt
<1>4. edacLost' = edacLost
  <2>1. ~(edacErr[a] # "none" /\ edacDone[a] = 0)
    BY <1>1
  <2>2. edacLost = FALSE
    BY DEF EdIInv, EdacInv, EdacTypeOK
  <2> HIDE DEF a
  <2> QED
    BY <1>3, <2>1, <2>2, Zenon
<1>5. /\ edacCpu' \in [EdacCpu -> EdRecord] /\ edacLock' = EdacNoCpu
      /\ \A d \in EdacCpu : d # c => edacCpu'[d] = edacCpu[d]
      /\ edacCpu'[c].pc \in {"idle", "wait"} /\ EdCpu(c)'
  <2>1. Done(c) /\ UNCHANGED <<edacNotify, edacPanic>>
    BY <1>3 DEF EdacClear, lifeVars
  <2> QED
    BY <1>1, <2>1, EdDone
<1>6. /\ edacErr' \in [Records -> {"none", "ce", "ue", "bus"}]
      /\ edacDone' \in [Records -> 0 .. 2]
      /\ \A r \in Records : edacErr'[r] = IF r = a THEN "none" ELSE edacErr[r]
  BY <1>2, <1>3 DEF EdIInv, EdacInv, EdacTypeOK
<1>7. panicOnUe' \in BOOLEAN /\ edacBad' \in BOOLEAN /\ EdWhy' /\ EdUe'
  BY <1>3 DEF EdIInv, EdacInv, EdacTypeOK, EdWhy, EdUe
<1>8. EdOnly(c)
  BY <1>3, <1>4, <1>5, <1>7 DEF EdOnly, EdIInv, EdacInv, EdacTypeOK
<1>9. \A d \in EdacCpu : EdLock(d)'
  BY <1>1, <1>5, EdUnlocked
<1>10. \A r \in Records : EdErr(r)'
  <2> SUFFICES ASSUME NEW r \in Records PROVE EdErr(r)'
    OBVIOUS
  <2> HIDE DEF a
  <2>1. EdErr(r)
    BY DEF EdIInv
  <2>2. r # a => edacErr[r] = "none" \/ edacDone[r] # 1
    BY <1>1, <2>1 DEF EdErr, a
  <2> QED
    BY <1>3, <1>6, <2>1, <2>2 DEF EdErr
<1> QED
  BY <1>5, <1>6, <1>7, <1>8, <1>9, <1>10, EdMove

\* A step of the cache error driver, its handlers or the hardware, keeps EdIInv.
LEMMA EdStep == EdIInv /\ [EdacNext]_edacVars => EdIInv'
<1> SUFFICES ASSUME EdIInv, [EdacNext]_edacVars PROVE EdIInv'
  OBVIOUS
<1>1. CASE EdacNext
  <2>1. ~edacBad
    BY <1>1 DEF EdacNext
  <2> QED
    BY <1>1, <2>1, EdLifeStep, EdRaiseStep, EdBeginStep, EdTakeStep, EdCheckStep, EdReportStep,
       EdClearStep DEF EdacNext, EdacHandler
<1>2. CASE UNCHANGED edacVars
  <2>1. EdacInv' /\ EdLife' /\ EdUe' /\ ~edacLost'
    BY <1>2 DEF edacVars, EdIInv, EdacInv, EdacTypeOK, EdLife, EdUe, Quiet
  <2>2. (\A c \in EdacCpu : EdCpu(c)' /\ EdLock(c)') /\ \A r \in Records : EdErr(r)'
    BY <1>2 DEF edacVars, EdIInv, EdCpu, EdLock, EdStuck, EdStopped, EdErr, EdAt
  <2> QED
    BY <2>1, <2>2 DEF EdIInv
<1> QED
  BY <1>1, <1>2

\* The invariant of the cache error driver.
THEOREM EdacInvariance == EdacSpec => []EdIInv
  BY EdInitial, EdStep, PTL DEF EdacSpec

(* kryo_cpu_erp_probe and remove against the handlers: memory that is gone is  *)
(* used only in the panic notifier, or after edev_ctl is freed by an interrupt of  *)
(* L3 the device core has yet to release, the per-CPU interrupt of a probe that     *)
(* gave up, or an idle exit that began before.                                      *)
THEOREM EdacInvHolds == EdacSpec => []EdacInv
<1>1. EdIInv => EdacInv
  BY DEF EdIInv
<1> QED
  BY <1>1, EdacInvariance, PTL

(* kryo_check_l3_scu_error under local_handler_lock: an error of the shared    *)
(* record is reported once and never cleared unreported, however many CPUs look,   *)
(* and a CPU waits for its own lock only after it panicked in the report of an       *)
(* uncorrectable error, or of a correctable one where the build panics on those, and  *)
(* stops with the lock only where it does.                                             *)
THEOREM EdacOnceHolds == EdacSpec => []EdacOnce
<1>1. EdIInv => EdacOnce
  <2> SUFFICES ASSUME EdIInv PROVE EdacOnce
    OBVIOUS
  <2>1. \A r \in Records : edacDone[r] <= 1
    BY DEF EdIInv, EdErr
  <2>2. \A c \in EdacCpu : edacCpu[c].pc = "wait" /\ edacLock = c => EdStuck(c)
    BY DEF EdIInv, EdLock, EdStopped
  <2>3. \A c \in EdacCpu : edacCpu[c].pc = "stopped" => edacLock = c /\ EdStopped(c)
    BY DEF EdIInv, EdLock, EdStuck
  <2> QED
    BY <2>1, <2>2, <2>3 DEF EdIInv, EdacOnce, EdStuck, EdStopped
<1> QED
  BY <1>1, EdacInvariance, PTL

-----------------------------------------------------------------------------
(* Reserved memory of a KIUMD file *)

RmRecord == [pc : {"idle", "alloc", "count", "fill", "mmap"}, dev : RmDev \cup {NoRegion},
             i : Nat, n : Int]

RmEntry == [state : {"unused", "live", "freed"}, size : Int,
            content : [Regions -> RmDev \cup {NoRegion}]]

\* kcalloc hands out arrays of zeros.
RmFresh ==
    \A a \in Array : rmArray[a].state = "unused" =>
        \A j \in Regions : rmArray[a].content[j] = NoRegion

\* The stack is overwritten for a device with more regions than mem_info has room for.
RmStack == rmFault = "stack" => \E d \in RmDev : RmCount[d] > RmInfo

\* Every call and array is well formed, whatever overlaps or fails.
RmTypes ==
    /\ RmTypeOK
    /\ rmCall \in [RmThread -> RmRecord]
    /\ rmArray \in [Array -> RmEntry]
    /\ RmFresh /\ RmStack
    /\ \A t \in RmThread :
          /\ rmCall[t].pc \in {"alloc", "count", "fill"} => rmCall[t].dev \in RmDev
          /\ rmCall[t].pc = "mmap" => rmCall[t].i \in Regions
          /\ ~rmOpen => rmCall[t].pc = "idle"

\* The array of the file is the one allocated for device d.
RmHas(d) ==
    /\ d \in RmDev /\ rmNum = RmCount[d] /\ rmNum > 0
    /\ rmArea # Null /\ rmArray[rmArea].state = "live" /\ rmArray[rmArea].size = rmNum + 1

\* The array holds what init stores of the first k regions of device d, and else zeros.
RmFilled(d, k) ==
    \A j \in Regions : rmArray[rmArea].content[j] = IF j < k THEN RmStored(d, j) ELSE NoRegion

\* What the file holds between two calls, while it is open.
RmSettled ==
    \/ rmArea = Null /\ rmLast = NoRegion
    \/ RmHas(rmLast) /\ RmFilled(rmLast, rmNum)

\* The call of a thread, as long as calls come one by one and none has failed.
RmStepOf(t) ==
    /\ rmCall[t].pc = "alloc" =>
          /\ rmNum = RmCount[rmCall[t].dev] /\ rmNum > 0 /\ rmCall[t].i = 0
          /\ rmAgain \/ rmArea = Null
    /\ rmCall[t].pc = "count" =>
          RmHas(rmCall[t].dev) /\ RmFilled(rmCall[t].dev, 0) /\ rmCall[t].i = 0
    /\ rmCall[t].pc = "fill" =>
          /\ RmHas(rmCall[t].dev)
          /\ rmCall[t].n = rmNum /\ rmCall[t].i <= rmNum
          /\ RmFilled(rmCall[t].dev, rmCall[t].i)
    /\ rmCall[t].pc = "mmap" => rmArea # Null /\ rmCall[t].i < rmNum

RmOneByOne ==
    /\ \A t, u \in RmThread : rmCall[t].pc # "idle" /\ rmCall[u].pc # "idle" => t = u
    /\ \A t \in RmThread : RmStepOf(t)
    /\ rmOpen /\ (\A t \in RmThread : rmCall[t].pc \in {"idle", "mmap"}) => RmSettled
    /\ rmFault # "memory"
    /\ rmMapped.pages > 0 =>
          /\ rmMapped.of # NoRegion /\ rmMapped.i < RmCount[rmMapped.of]
          /\ rmMapped.dev = RmStored(rmMapped.of, rmMapped.i)
    /\ ~rmAgain => \A a \in Array : rmArray[a].state = "live" => rmOpen /\ a = rmArea

RmIInv == RmTypes /\ (RmQuiet => RmOneByOne)

\* A file that was just opened has no array.
LEMMA RmInitial == RmInit => RmIInv
<1> SUFFICES ASSUME RmInit PROVE RmIInv
  OBVIOUS
<1>1. RmIdle \in RmRecord /\ RmIdle.pc = "idle"
  BY DEF RmIdle, RmRecord
<1>2. Unused \in RmEntry /\ Unused.state = "unused" /\ \A j \in Regions : Unused.content[j] = NoRegion
  BY DEF Unused, RmEntry
<1>3. /\ rmCall \in [RmThread -> RmRecord] /\ rmArray \in [Array -> RmEntry]
      /\ \A t \in RmThread : rmCall[t] = RmIdle
      /\ \A a \in Array : rmArray[a] = Unused
  BY <1>1, <1>2 DEF RmInit
<1>4. /\ rmMapped \in [of : RmDev \cup {NoRegion}, dev : RmDev \cup {NoRegion},
                         i : Regions \cup {0}, pages : 0 .. MaxPages]
      /\ rmMapped.pages = 0
  BY RmAssumption DEF RmInit, NoMapping
<1>5. {rmOpen, rmOverlap, rmFailed, rmAgain} \subseteq BOOLEAN /\ rmOpen
  BY DEF RmInit
<1>6. RmTypeOK
  BY <1>2, <1>3, <1>4, <1>5 DEF RmInit, RmTypeOK
<1>7. RmTypes
  <2>1. RmFresh /\ RmStack
    BY <1>2, <1>3 DEF RmInit, RmFresh, RmStack
  <2> QED
    BY <1>1, <1>3, <1>5, <1>6, <2>1 DEF RmTypes
<1>8. RmOneByOne
  BY <1>1, <1>2, <1>3, <1>4 DEF RmInit, RmOneByOne, RmStepOf, RmSettled
<1> QED
  BY <1>7, <1>8 DEF RmIInv

\* The regions of a device are regions.
LEMMA RmRegion ==
    ASSUME NEW d \in RmDev, NEW i \in Nat, i < RmCount[d]
    PROVE  i \in Regions
  BY RmAssumption DEF Regions

\* A region is a number.
LEMMA RmRegionNat == Regions \subseteq Nat
  BY RmAssumption DEF Regions

\* The record of a thread outside, and of one that has just entered.
LEMMA RmRecords ==
    /\ RmIdle \in RmRecord /\ RmIdle.pc = "idle" /\ RmIdle.i = 0
    /\ \A d \in RmDev : [RmIdle EXCEPT !.pc = "alloc", !.dev = d] \in RmRecord
    /\ \A k \in Regions : [RmIdle EXCEPT !.pc = "mmap", !.i = k] \in RmRecord
<1>1. RmIdle \in RmRecord /\ RmIdle.pc = "idle" /\ RmIdle.i = 0
  BY DEF RmIdle, RmRecord
<1>2. \A d \in RmDev : [RmIdle EXCEPT !.pc = "alloc", !.dev = d] \in RmRecord
  BY <1>1 DEF RmRecord
<1>3. \A k \in Nat : [RmIdle EXCEPT !.pc = "mmap", !.i = k] \in RmRecord
  BY <1>1 DEF RmRecord
<1> QED
  BY <1>1, <1>2, <1>3, RmRegionNat

\* A thread that ends its call.
LEMMA RmEnds ==
    ASSUME RmTypes, NEW t \in RmThread, rmCall' = [rmCall EXCEPT ![t] = RmIdle]
    PROVE  /\ rmCall' \in [RmThread -> RmRecord] /\ rmCall'[t].pc = "idle"
           /\ \A u \in RmThread : u # t => rmCall'[u] = rmCall[u]
  BY DEF RmTypes, RmIdle, RmRecord

\* A thread that enters with the record r, and the call of the others.
LEMMA RmEnters ==
    ASSUME RmTypes, NEW t \in RmThread, NEW r \in RmRecord, RmEnter(t, r)
    PROVE  /\ rmCall' \in [RmThread -> RmRecord] /\ rmCall'[t] = r
           /\ \A u \in RmThread : u # t => rmCall'[u] = rmCall[u]
           /\ rmOverlap' \in BOOLEAN /\ rmOpen
           /\ ~rmOverlap' => ~rmOverlap /\ \A u \in RmThread : rmCall[u].pc = "idle"
<1>1. /\ rmCall' \in [RmThread -> RmRecord] /\ rmCall'[t] = r
      /\ \A u \in RmThread : u # t => rmCall'[u] = rmCall[u]
  BY DEF RmTypes, RmEnter
<1>2. rmOverlap' = (rmOverlap \/ \E u \in RmThread : rmCall[u].pc # "idle") /\ rmOpen
  BY DEF RmEnter
<1>3. rmOverlap' \in BOOLEAN
  BY <1>2 DEF RmTypes, RmTypeOK
<1>4. ~rmOverlap' => ~rmOverlap /\ \A u \in RmThread : rmCall[u].pc = "idle"
  BY <1>2
<1> QED
  BY <1>1, <1>2, <1>3, <1>4

\* What every step of a single thread owes to the types.
LEMMA RmTypesMove ==
    ASSUME RmTypes, NEW t \in RmThread, rmCall' \in [RmThread -> RmRecord],
           \A u \in RmThread : u # t => rmCall'[u] = rmCall[u],
           rmCall'[t].pc \in {"alloc", "count", "fill"} => rmCall'[t].dev \in RmDev,
           rmCall'[t].pc = "mmap" => rmCall'[t].i \in Regions,
           ~rmOpen => rmCall'[t].pc = "idle",
           rmOpen' = rmOpen, rmArray' \in [Array -> RmEntry],
           RmFresh', RmStack', RmTypeOK'
    PROVE  RmTypes'
  BY DEF RmTypes

\* A step that leaves the arrays alone and the stack in order.
LEMMA RmKeeps ==
    ASSUME RmTypes, rmArray' = rmArray, rmFault' # "stack"
    PROVE  RmFresh' /\ RmStack'
  BY DEF RmTypes, RmFresh, RmStack

\* kiumd_vfio_ctx_init begins.
LEMMA RmCountStep ==
    ASSUME RmIInv, rmFault = "none", NEW t \in RmThread, NEW d \in RmDev, RmCountElems(t, d)
    PROVE  RmIInv'
<1> DEFINE r == IF RmCount[d] > 0 THEN [RmIdle EXCEPT !.pc = "alloc", !.dev = d] ELSE RmIdle
<1>1. /\ r \in RmRecord /\ (r.pc = "alloc" => r.dev = d /\ r.i = 0)
      /\ r.pc \in {"alloc", "idle"} /\ (r.pc = "alloc" <=> RmCount[d] > 0)
  <2>1. CASE RmCount[d] > 0
    <3>1. r = [RmIdle EXCEPT !.pc = "alloc", !.dev = d]
      BY <2>1
    <3>2. r \in RmRecord
      BY <3>1, RmRecords
    <3>3. r.pc = "alloc" /\ r.dev = d /\ r.i = 0
      BY <3>1, RmRecords DEF RmRecord
    <3> QED
      BY <2>1, <3>2, <3>3
  <2>2. CASE ~(RmCount[d] > 0)
    <3>1. r = RmIdle
      BY <2>2
    <3> QED
      BY <2>2, <3>1, RmRecords
  <2> QED
    BY <2>1, <2>2
<1>2. RmEnter(t, r) /\ rmNum' = RmCount[d] /\ rmAgain' = (rmAgain \/ rmArea # Null)
      /\ UNCHANGED <<rmOpen, rmArea, rmArray, rmLast, rmMapped, rmFault>>
      /\ (IF RmCount[d] > 0 THEN rmFailed' = rmFailed ELSE rmFailed' = TRUE)
  BY DEF RmCountElems
<1> HIDE DEF r
<1>3. /\ rmCall' \in [RmThread -> RmRecord] /\ rmCall'[t] = r
      /\ \A u \in RmThread : u # t => rmCall'[u] = rmCall[u]
      /\ rmOverlap' \in BOOLEAN /\ rmOpen
      /\ ~rmOverlap' => ~rmOverlap /\ \A u \in RmThread : rmCall[u].pc = "idle"
  BY <1>1, <1>2, RmEnters DEF RmIInv
<1>4. RmTypeOK'
  <2>1. rmAgain' \in BOOLEAN
    BY <1>2 DEF RmIInv, RmTypes, RmTypeOK
  <2>2. rmFailed' \in BOOLEAN
    BY <1>2 DEF RmIInv, RmTypes, RmTypeOK
  <2>3. rmNum' \in Int
    BY <1>2, RmAssumption
  <2> QED
    BY <1>2, <1>3, <2>1, <2>2, <2>3 DEF RmIInv, RmTypes, RmTypeOK
<1>5. RmTypes'
  <2>1. RmFresh' /\ RmStack'
    BY <1>2, RmKeeps DEF RmIInv
  <2> QED
    BY <1>1, <1>2, <1>3, <1>4, <2>1, RmTypesMove DEF RmIInv, RmTypes
<1>6. ASSUME RmQuiet' PROVE RmOneByOne'
  <2>1. RmQuiet /\ RmCount[d] > 0 /\ \A u \in RmThread : rmCall[u].pc = "idle"
    BY <1>2, <1>3, <1>6 DEF RmQuiet
  <2>2. RmOneByOne
    BY <2>1 DEF RmIInv
  <2>3. r.pc = "alloc" /\ r.dev = d /\ r.i = 0
    BY <1>1, <2>1
  <2>4. rmAgain' \/ rmArea' = Null
    BY <1>2
  <2>5. \A u \in RmThread : RmStepOf(u)'
    BY <1>2, <1>3, <2>1, <2>3, <2>4 DEF RmStepOf
  <2>6. ~rmAgain' => ~rmAgain
    BY <1>2
  <2> QED
    BY <1>2, <1>3, <2>1, <2>2, <2>3, <2>5, <2>6 DEF RmOneByOne
<1> QED
  BY <1>5, <1>6 DEF RmIInv

\* kiumd_mmap begins.
LEMMA RmMmapCheckStep ==
    ASSUME RmIInv, rmFault = "none", NEW t \in RmThread, NEW off \in Regions, RmMmapCheck(t, off)
    PROVE  RmIInv'
<1> DEFINE r == [RmIdle EXCEPT !.pc = "mmap", !.i = off]
<1>1. /\ r \in RmRecord /\ r.pc = "mmap" /\ r.i = off
  <2>1. r \in RmRecord
    BY RmRecords
  <2>2. r.pc = "mmap" /\ r.i = off
    BY RmRecords DEF RmRecord
  <2> QED
    BY <2>1, <2>2
<1>2. RmEnter(t, r) /\ rmArea # Null /\ Admitted(off)
      /\ UNCHANGED <<rmOpen, rmNum, rmArea, rmArray, rmLast, rmMapped, rmFailed, rmAgain, rmFault>>
  BY DEF RmMmapCheck
<1> HIDE DEF r
<1>3. /\ rmCall' \in [RmThread -> RmRecord] /\ rmCall'[t] = r
      /\ \A u \in RmThread : u # t => rmCall'[u] = rmCall[u]
      /\ rmOverlap' \in BOOLEAN /\ rmOpen
      /\ ~rmOverlap' => ~rmOverlap /\ \A u \in RmThread : rmCall[u].pc = "idle"
  BY <1>1, <1>2, RmEnters DEF RmIInv
<1>4. RmTypes'
  <2>1. RmTypeOK'
    BY <1>2, <1>3 DEF RmIInv, RmTypes, RmTypeOK
  <2>2. RmFresh' /\ RmStack'
    BY <1>2, RmKeeps DEF RmIInv
  <2> QED
    BY <1>1, <1>2, <1>3, <2>1, <2>2, RmTypesMove DEF RmIInv, RmTypes
<1>5. ASSUME RmQuiet' PROVE RmOneByOne'
  <2>1. RmQuiet /\ \A u \in RmThread : rmCall[u].pc = "idle"
    BY <1>2, <1>3, <1>5 DEF RmQuiet
  <2>0. RmOneByOne
    BY <2>1 DEF RmIInv
  <2>2. RmOneByOne /\ RmSettled
    BY <1>3, <2>0, <2>1 DEF RmOneByOne
  <2>3. RmHas(rmLast) /\ off < rmNum
    <3>1. rmNum \in Int
      BY DEF RmIInv, RmTypes, RmTypeOK
    <3> QED
      BY <1>2, <2>2, <3>1 DEF RmSettled, RmHas, Admitted
  <2>4. RmSettled'
    BY <1>2, <2>2 DEF RmSettled, RmHas, RmFilled
  <2>5. \A u \in RmThread : RmStepOf(u)'
    BY <1>1, <1>2, <1>3, <2>1, <2>3 DEF RmStepOf
  <2> QED
    BY <1>1, <1>2, <1>3, <2>1, <2>2, <2>4, <2>5 DEF RmOneByOne
<1> QED
  BY <1>4, <1>5 DEF RmIInv

\* kcalloc: a fresh array takes the place of the one that was there.
LEMMA RmAllocStep ==
    ASSUME RmIInv, rmFault = "none", NEW t \in RmThread, RmAlloc(t)
    PROVE  RmIInv'
<1>1. PICK a \in Array :
         /\ rmArray[a].state = "unused" /\ rmArea' = a
         /\ rmArray' = [rmArray EXCEPT ![a].state = "live", ![a].size = rmNum + 1]
  BY DEF RmAlloc
<1>2. /\ rmCall[t].pc = "alloc" /\ rmCall' = [rmCall EXCEPT ![t].pc = "count"]
      /\ UNCHANGED <<rmOpen, rmNum, rmLast, rmMapped, rmOverlap, rmFailed, rmAgain, rmFault>>
  BY DEF RmAlloc
<1>3. /\ rmArray' \in [Array -> RmEntry]
      /\ rmArray'[a].state = "live" /\ rmArray'[a].size = rmNum + 1
      /\ rmArray'[a].content = rmArray[a].content
      /\ \A b \in Array : b # a => rmArray'[b] = rmArray[b]
  <2>1. rmArray \in [Array -> RmEntry] /\ rmNum \in Int
    BY DEF RmIInv, RmTypes, RmTypeOK
  <2>2. [rmArray[a] EXCEPT !.state = "live", !.size = rmNum + 1] \in RmEntry
    <3>1. rmArray[a] \in RmEntry /\ rmNum + 1 \in Int
      BY <2>1
    <3> DEFINE k == rmNum + 1
    <3> HIDE DEF k
    <3>2. [rmArray[a] EXCEPT !.state = "live", !.size = k] \in RmEntry
      BY <3>1 DEF RmEntry, k
    <3> QED
      BY <3>2 DEF k
  <2> QED
    BY <1>1, <2>1, <2>2 DEF RmEntry
<1>4. /\ rmCall' \in [RmThread -> RmRecord]
      /\ rmCall'[t].pc = "count" /\ rmCall'[t].dev = rmCall[t].dev /\ rmCall'[t].i = rmCall[t].i
      /\ \A u \in RmThread : u # t => rmCall'[u] = rmCall[u]
  <2>1. rmCall \in [RmThread -> RmRecord]
    BY DEF RmIInv, RmTypes
  <2>2. [rmCall[t] EXCEPT !.pc = "count"] \in RmRecord
    BY <2>1 DEF RmRecord
  <2> QED
    BY <1>2, <2>1, <2>2 DEF RmRecord
<1>5. rmOpen /\ rmCall[t].dev \in RmDev /\ a # Null
  BY <1>2 DEF RmIInv, RmTypes, Array, Null
<1>6. RmTypes'
  <2>1. RmTypeOK'
    BY <1>1, <1>2, <1>3 DEF RmIInv, RmTypes, RmTypeOK, RmEntry
  <2>2. RmFresh' /\ RmStack'
    BY <1>2, <1>3 DEF RmIInv, RmTypes, RmFresh, RmStack
  <2> QED
    BY <1>2, <1>3, <1>4, <1>5, <2>1, <2>2, RmTypesMove DEF RmIInv, RmTypes
<1>7. ASSUME RmQuiet' PROVE RmOneByOne'
  <2>1. RmOneByOne
    BY <1>2, <1>7 DEF RmQuiet, RmIInv
  <2>2. \A u \in RmThread : u # t => rmCall[u].pc = "idle"
    BY <1>2, <2>1 DEF RmOneByOne
  <2>3. RmHas(rmCall[t].dev)'
    BY <1>1, <1>2, <1>3, <1>4, <1>5, <2>1 DEF RmOneByOne, RmStepOf, RmHas
  <2>4. \A u \in RmThread : RmStepOf(u)'
    <3>1. rmCall'[t].i = 0
      BY <1>2, <1>4, <2>1 DEF RmOneByOne, RmStepOf
    <3>2. \A j \in Regions : rmArray'[a].content[j] = NoRegion
      BY <1>1, <1>3 DEF RmIInv, RmTypes, RmFresh
    <3>3. RmFilled(rmCall[t].dev, 0)'
      <4>1. \A j \in Regions : ~(j < 0)
        BY RmRegionNat
      <4> QED
        BY <1>1, <3>2, <4>1 DEF RmFilled
    <3> QED
      BY <1>4, <2>2, <2>3, <3>1, <3>3 DEF RmStepOf, RmHas, RmFilled
  <2>5. ~rmAgain => rmArea = Null
    BY <1>2, <2>1 DEF RmOneByOne, RmStepOf
  <2>6. ~rmAgain' => \A b \in Array : rmArray'[b].state = "live" => rmOpen' /\ b = rmArea'
    <3> SUFFICES ASSUME ~rmAgain', NEW b \in Array, rmArray'[b].state = "live", b # a
                 PROVE  FALSE
      BY <1>1, <1>2, <1>5
    <3>1. rmArray[b].state = "live" /\ ~rmAgain
      BY <1>2, <1>3
    <3> QED
      BY <1>5, <2>1, <2>5, <3>1 DEF RmOneByOne, Array, Null
  <2>7. \A u, v \in RmThread : rmCall'[u].pc # "idle" /\ rmCall'[v].pc # "idle" => u = v
    BY <1>4, <2>2
  <2> QED
    BY <1>2, <1>4, <2>1, <2>4, <2>6, <2>7 DEF RmOneByOne
<1> QED
  BY <1>6, <1>7 DEF RmIInv

\* The count is read for the loop.
LEMMA RmReadStep ==
    ASSUME RmIInv, rmFault = "none", NEW t \in RmThread, RmReadCount(t)
    PROVE  RmIInv'
<1>1. /\ rmCall[t].pc = "count" /\ rmCall' = [rmCall EXCEPT ![t].pc = "fill", ![t].n = rmNum]
      /\ UNCHANGED <<rmOpen, rmNum, rmArea, rmArray, rmLast, rmMapped, rmOverlap, rmFailed,
                     rmAgain, rmFault>>
  BY DEF RmReadCount
<1>2. /\ rmCall' \in [RmThread -> RmRecord]
      /\ rmCall'[t].pc = "fill" /\ rmCall'[t].dev = rmCall[t].dev /\ rmCall'[t].i = rmCall[t].i
      /\ rmCall'[t].n = rmNum
      /\ \A u \in RmThread : u # t => rmCall'[u] = rmCall[u]
  <2>1. rmCall \in [RmThread -> RmRecord] /\ rmNum \in Int
    BY DEF RmIInv, RmTypes, RmTypeOK
  <2>2. [rmCall[t] EXCEPT !.pc = "fill", !.n = rmNum] \in RmRecord
    BY <2>1 DEF RmRecord
  <2> QED
    BY <1>1, <2>1, <2>2 DEF RmRecord
<1>3. RmTypes'
  <2>1. rmOpen /\ rmCall[t].dev \in RmDev
    BY <1>1 DEF RmIInv, RmTypes
  <2>2. RmTypeOK'
    BY <1>1 DEF RmIInv, RmTypes, RmTypeOK
  <2>3. RmFresh' /\ RmStack'
    BY <1>1, RmKeeps DEF RmIInv
  <2> QED
    BY <1>1, <1>2, <2>1, <2>2, <2>3, RmTypesMove DEF RmIInv, RmTypes
<1>4. ASSUME RmQuiet' PROVE RmOneByOne'
  <2>1. RmOneByOne
    BY <1>1, <1>4 DEF RmQuiet, RmIInv
  <2>2. \A u \in RmThread : u # t => rmCall[u].pc = "idle"
    BY <1>1, <2>1 DEF RmOneByOne
  <2>3. RmHas(rmCall[t].dev) /\ RmFilled(rmCall[t].dev, 0) /\ rmCall[t].i = 0
    BY <1>1, <2>1 DEF RmOneByOne, RmStepOf
  <2>4. RmFilled(rmCall[t].dev, rmCall[t].i)'
    BY <1>1, <1>2, <2>3 DEF RmFilled
  <2>5. \A u \in RmThread : RmStepOf(u)'
    <3> SUFFICES ASSUME NEW u \in RmThread PROVE RmStepOf(u)'
      OBVIOUS
    <3>1. CASE u # t
      BY <1>2, <2>2, <3>1 DEF RmStepOf
    <3>2. CASE u = t
      <4>1. RmHas(rmCall[t].dev)'
        BY <1>1, <1>2, <2>3 DEF RmHas
      <4>2. rmCall'[t].n = rmNum' /\ rmCall'[t].i <= rmNum'
        BY <1>1, <1>2, <2>3 DEF RmHas, RmIInv, RmTypes, RmTypeOK
      <4> QED
        BY <1>2, <2>4, <3>2, <4>1, <4>2 DEF RmStepOf
    <3> QED
      BY <3>1, <3>2
  <2>6. \A u, v \in RmThread : rmCall'[u].pc # "idle" /\ rmCall'[v].pc # "idle" => u = v
    BY <1>2, <2>2
  <2> QED
    BY <1>1, <1>2, <2>1, <2>5, <2>6 DEF RmOneByOne
<1> QED
  BY <1>3, <1>4 DEF RmIInv

\* One region is stored.
LEMMA RmFillStep ==
    ASSUME RmIInv, rmFault = "none", NEW t \in RmThread, RmFill(t)
    PROVE  RmIInv'
<1> DEFINE d == rmCall[t].dev
           i == rmCall[t].i
<1>1. /\ rmCall[t].pc = "fill" /\ i < rmCall[t].n
      /\ rmCall' = [rmCall EXCEPT ![t].i = i + 1]
      /\ UNCHANGED <<rmOpen, rmNum, rmArea, rmLast, rmMapped, rmOverlap, rmFailed, rmAgain>>
      /\ \/ i \notin RmNode[d] /\ UNCHANGED <<rmArray, rmFault>>
         \/ /\ i \in RmNode[d] /\ Usable(rmArea) /\ i < rmArray[rmArea].size
            /\ rmArray' = [rmArray EXCEPT ![rmArea].content[i] = d]
            /\ rmFault' = IF i < RmInfo THEN rmFault ELSE "stack"
         \/ /\ i \in RmNode[d] /\ ~(Usable(rmArea) /\ i < rmArray[rmArea].size)
            /\ rmFault' = "memory" /\ UNCHANGED rmArray
  BY DEF RmFill
<1>2. /\ d \in RmDev /\ i \in Nat /\ rmOpen /\ rmCall \in [RmThread -> RmRecord]
      /\ rmArray \in [Array -> RmEntry] /\ rmArea \in Array \cup {Null}
  BY <1>1 DEF RmIInv, RmTypes, RmTypeOK, RmRecord
<1>3. /\ rmCall' \in [RmThread -> RmRecord]
      /\ rmCall'[t].pc = "fill" /\ rmCall'[t].dev = d /\ rmCall'[t].i = i + 1
      /\ rmCall'[t].n = rmCall[t].n
      /\ \A u \in RmThread : u # t => rmCall'[u] = rmCall[u]
  <2>1. i + 1 \in Nat
    BY <1>2
  <2>2. [rmCall[t] EXCEPT !.i = i + 1] \in RmRecord
    BY <1>2, <2>1 DEF RmRecord
  <2> QED
    BY <1>1, <1>2, <2>2 DEF RmRecord
<1>7. /\ RmNode[d] \subseteq Regions /\ RmCount[d] \in Int /\ RmInfo \in Nat
      /\ i \in RmNode[d] => i \in Regions /\ i < RmCount[d]
  BY <1>2, RmAssumption
<1> HIDE DEF d, i
<1>4. /\ rmArray' \in [Array -> RmEntry]
      /\ \A a \in Array : rmArray'[a].state = rmArray[a].state /\ rmArray'[a].size = rmArray[a].size
      /\ i \in RmNode[d] /\ Usable(rmArea) /\ i < rmArray[rmArea].size =>
            \A j \in Regions : rmArray'[rmArea].content[j] =
                                  IF j = i THEN d ELSE rmArray[rmArea].content[j]
      /\ \A a \in Array : a # rmArea \/ ~Usable(rmArea) => rmArray'[a] = rmArray[a]
  <2>1. CASE rmArray' = [rmArray EXCEPT ![rmArea].content[i] = d] /\ Usable(rmArea) /\ i \in RmNode[d]
    <3>1. rmArea \in Array /\ i \in Regions
      BY <1>2, <1>7, <2>1 DEF Usable
    <3>2. rmArray[rmArea] \in RmEntry /\ rmArray[rmArea].content \in [Regions -> RmDev \cup {NoRegion}]
      BY <1>2, <3>1 DEF RmEntry
    <3>3. [rmArray[rmArea].content EXCEPT ![i] = d] \in [Regions -> RmDev \cup {NoRegion}]
      BY <1>2, <3>1, <3>2
    <3>4. rmArray' = [rmArray EXCEPT ![rmArea] = [rmArray[rmArea] EXCEPT !.content =
                                     [rmArray[rmArea].content EXCEPT ![i] = d]]]
      BY <2>1
    <3>5. [rmArray[rmArea] EXCEPT !.content = [rmArray[rmArea].content EXCEPT ![i] = d]] \in RmEntry
      BY <3>2, <3>3 DEF RmEntry
    <3> QED
      BY <1>2, <2>1, <3>1, <3>2, <3>4, <3>5 DEF RmEntry
  <2>2. CASE rmArray' = rmArray /\ ~(Usable(rmArea) /\ i \in RmNode[d] /\ i < rmArray[rmArea].size)
    BY <1>2, <2>2
  <2> QED
    BY <1>1, <1>2, <2>1, <2>2 DEF d, i
<1>5. RmTypes'
  <2>1. RmTypeOK'
    BY <1>1, <1>4 DEF RmIInv, RmTypes, RmTypeOK
  <2>2. RmFresh'
    <3> SUFFICES ASSUME NEW a \in Array, rmArray'[a].state = "unused", NEW j \in Regions
                 PROVE  rmArray'[a].content[j] = NoRegion
      BY DEF RmFresh
    <3>1. rmArray[a].state = "unused" /\ rmArray'[a] = rmArray[a]
      BY <1>4 DEF Usable
    <3> QED
      BY <3>1 DEF RmIInv, RmTypes, RmFresh
  <2>3. RmStack'
    <3>1. rmFault' = "stack" => i \in RmNode[d] /\ ~(i < RmInfo)
      BY <1>1 DEF d, i
    <3> QED
      BY <1>2, <1>7, <3>1 DEF RmStack
  <2> QED
    BY <1>1, <1>2, <1>3, <1>4, <2>1, <2>2, <2>3, RmTypesMove DEF RmIInv, RmTypes
<1>6. ASSUME RmQuiet' PROVE RmOneByOne'
  <2>1. RmOneByOne
    BY <1>1, <1>6 DEF RmQuiet, RmIInv
  <2>2. \A u \in RmThread : u # t => rmCall[u].pc = "idle"
    BY <1>1, <2>1 DEF RmOneByOne
  <2>3. RmHas(d) /\ rmCall[t].n = rmNum /\ RmFilled(d, i)
    BY <1>1, <2>1 DEF RmOneByOne, RmStepOf, d, i
  <2>4. RmCount[d] \in Int /\ rmNum = RmCount[d] /\ i < rmNum
    BY <1>1, <2>3, RmAssumption DEF RmHas, d, i
  <2>5. Usable(rmArea) /\ i < rmArray[rmArea].size
    BY <1>2, <2>3, <2>4 DEF RmHas, Usable
  <2>6. rmFault' # "memory"
    BY <1>1, <2>5 DEF d, i
  <2>7. RmHas(d)'
    BY <1>1, <1>2, <1>3, <1>4, <2>3 DEF RmHas, d, Null
  <2>8. \A j \in Regions : rmArray'[rmArea].content[j] =
                              IF j < i + 1 THEN RmStored(d, j) ELSE NoRegion
    <3> SUFFICES ASSUME NEW j \in Regions
                 PROVE  rmArray'[rmArea].content[j] = IF j < i + 1 THEN RmStored(d, j) ELSE NoRegion
      OBVIOUS
    <3>1. j \in Nat /\ rmArray[rmArea].content[j] = IF j < i THEN RmStored(d, j) ELSE NoRegion
      BY <2>3, RmRegionNat DEF RmFilled
    <3>2. CASE i \in RmNode[d]
      <4>1. rmArray'[rmArea].content[j] = IF j = i THEN d ELSE rmArray[rmArea].content[j]
        BY <1>4, <2>5, <3>2
      <4> QED
        BY <1>2, <3>1, <3>2, <4>1 DEF RmStored
    <3>3. CASE i \notin RmNode[d]
      <4>1. rmArray' = rmArray
        BY <1>1, <3>3 DEF d, i
      <4> QED
        BY <1>2, <3>1, <3>3, <4>1 DEF RmStored
    <3> QED
      BY <3>2, <3>3
  <2>9. \A u \in RmThread : RmStepOf(u)'
    <3> SUFFICES ASSUME NEW u \in RmThread PROVE RmStepOf(u)'
      OBVIOUS
    <3>1. CASE u # t
      BY <1>3, <2>2, <3>1 DEF RmStepOf
    <3>2. CASE u = t
      <4>1. RmHas(rmCall[t].dev)' /\ RmFilled(rmCall[t].dev, rmCall[t].i)'
        BY <1>1, <1>3, <2>7, <2>8 DEF RmFilled, RmHas, d
      <4>2. rmCall'[t].n = rmNum' /\ rmCall'[t].i <= rmNum'
        BY <1>1, <1>2, <1>3, <2>3, <2>4
      <4> QED
        BY <1>3, <3>2, <4>1, <4>2 DEF RmStepOf
    <3> QED
      BY <3>1, <3>2
  <2>10. \A u, v \in RmThread : rmCall'[u].pc # "idle" /\ rmCall'[v].pc # "idle" => u = v
    BY <1>3, <2>2
  <2>11. ~rmAgain' => \A a \in Array : rmArray'[a].state = "live" => rmOpen' /\ a = rmArea'
    BY <1>1, <1>4, <2>1 DEF RmOneByOne
  <2> QED
    BY <1>1, <1>3, <2>1, <2>6, <2>9, <2>10, <2>11 DEF RmOneByOne
<1> QED
  BY <1>5, <1>6 DEF RmIInv

\* Once the only call has ended, nobody is inside.
LEMMA RmAllOut ==
    ASSUME RmTypes, RmOneByOne, NEW t \in RmThread, rmCall[t].pc # "idle",
           rmCall' = [rmCall EXCEPT ![t] = RmIdle]
    PROVE  /\ \A u \in RmThread : u # t => rmCall[u].pc = "idle"
           /\ \A u \in RmThread : rmCall'[u].pc = "idle"
           /\ \A u \in RmThread : RmStepOf(u)'
           /\ rmOpen
<1>1. \A u \in RmThread : u # t => rmCall[u].pc = "idle"
  BY DEF RmOneByOne
<1>2. \A u \in RmThread : rmCall'[u].pc = "idle"
  BY <1>1, RmEnds
<1>3. \A u \in RmThread : RmStepOf(u)'
  BY <1>2 DEF RmStepOf
<1>4. rmOpen
  BY DEF RmTypes
<1> QED
  BY <1>1, <1>2, <1>3, <1>4

\* kfree changes the state of an array and no other part of it.
LEMMA RmFreed ==
    ASSUME RmTypes, FreeArea
    PROVE  /\ rmArray' \in [Array -> RmEntry]
           /\ rmFault' = rmFault \/ rmFault' = "memory"
           /\ RmFresh'
           /\ Usable(rmArea) => /\ rmFault' = rmFault
                                /\ rmArray'[rmArea].state = "freed"
                                /\ \A a \in Array : a # rmArea => rmArray'[a] = rmArray[a]
<1>1. rmArray \in [Array -> RmEntry] /\ rmArea \in Array \cup {Null}
  BY DEF RmTypes, RmTypeOK
<1>2. CASE Usable(rmArea)
  <2>1. rmArea \in Array /\ rmArray[rmArea] \in RmEntry
    BY <1>1, <1>2 DEF Usable
  <2>2. rmArray' = [rmArray EXCEPT ![rmArea].state = "freed"] /\ rmFault' = rmFault
    BY <1>2 DEF FreeArea
  <2>3. [rmArray[rmArea] EXCEPT !.state = "freed"] \in RmEntry
    BY <2>1 DEF RmEntry
  <2>4. /\ rmArray'[rmArea].state = "freed"
        /\ \A a \in Array : a # rmArea => rmArray'[a] = rmArray[a]
    BY <1>1, <2>1, <2>2 DEF RmEntry
  <2>5. RmFresh'
    BY <2>4 DEF RmTypes, RmFresh
  <2> QED
    BY <1>1, <2>1, <2>2, <2>3, <2>4, <2>5
<1>3. CASE ~Usable(rmArea)
  BY <1>1, <1>3 DEF FreeArea, RmTypes, RmFresh
<1> QED
  BY <1>2, <1>3

\* kcalloc fails, or a later part of the init call: the file is quiet no more.
LEMMA RmFailStep ==
    ASSUME RmIInv, rmFault = "none", NEW t \in RmThread, RmAllocFail(t) \/ RmInitFail(t)
    PROVE  RmIInv'
<1>1. /\ rmCall' = [rmCall EXCEPT ![t] = RmIdle] /\ rmFailed' = TRUE
      /\ UNCHANGED <<rmOpen, rmNum, rmLast, rmMapped, rmOverlap, rmAgain>>
  BY DEF RmAllocFail, RmInitFail
<1>2. /\ rmArray' \in [Array -> RmEntry] /\ rmArea' \in Array \cup {Null} /\ RmFresh'
      /\ rmFault' \in {"none", "memory"}
  <2>1. rmArray \in [Array -> RmEntry] /\ rmArea \in Array \cup {Null}
    BY DEF RmIInv, RmTypes, RmTypeOK
  <2>2. CASE RmAllocFail(t)
    BY <2>1, <2>2 DEF RmAllocFail, RmIInv, RmTypes, RmFresh
  <2>3. CASE RmInitFail(t)
    BY <2>1, <2>3, RmFreed DEF RmInitFail, RmIInv
  <2> QED
    BY <2>2, <2>3
<1>3. {rmOpen, rmOverlap, rmFailed, rmAgain}' \subseteq BOOLEAN
  BY <1>1 DEF RmIInv, RmTypes, RmTypeOK
<1>4. RmTypeOK'
  BY <1>1, <1>2, <1>3 DEF RmIInv, RmTypes, RmTypeOK, RmEntry
<1>5. RmTypes'
  <2>1. RmStack'
    BY <1>2 DEF RmStack
  <2> QED
    BY <1>1, <1>2, <1>4, <2>1, RmEnds, RmTypesMove DEF RmIInv
<1> QED
  BY <1>1, <1>5 DEF RmIInv, RmQuiet

\* An init call ends well.
LEMMA RmDoneStep ==
    ASSUME RmIInv, rmFault = "none", NEW t \in RmThread, RmInitDone(t)
    PROVE  RmIInv'
<1>1. /\ rmCall[t].pc = "fill" /\ rmCall[t].i >= rmCall[t].n /\ rmLast' = rmCall[t].dev
      /\ rmCall' = [rmCall EXCEPT ![t] = RmIdle]
      /\ UNCHANGED <<rmOpen, rmNum, rmArea, rmArray, rmMapped, rmOverlap, rmFailed, rmAgain,
                     rmFault>>
  BY DEF RmInitDone
<1>2. rmCall[t].dev \in RmDev /\ rmCall[t].i \in Nat /\ rmCall[t].n \in Int /\ rmNum \in Int
  BY <1>1 DEF RmIInv, RmTypes, RmTypeOK, RmRecord
<1>3. RmTypes'
  <2>1. RmTypeOK'
    BY <1>1, <1>2 DEF RmIInv, RmTypes, RmTypeOK
  <2>2. RmFresh' /\ RmStack'
    BY <1>1, RmKeeps DEF RmIInv
  <2> QED
    BY <1>1, <2>1, <2>2, RmEnds, RmTypesMove DEF RmIInv, RmTypes
<1>4. ASSUME RmQuiet' PROVE RmOneByOne'
  <2>1. RmOneByOne
    BY <1>1, <1>4 DEF RmQuiet, RmIInv
  <2>2. /\ RmHas(rmCall[t].dev) /\ rmCall[t].n = rmNum /\ rmCall[t].i <= rmNum
        /\ RmFilled(rmCall[t].dev, rmCall[t].i)
    BY <1>1, <2>1 DEF RmOneByOne, RmStepOf
  <2>3. rmCall[t].i = rmNum
    BY <1>1, <1>2, <2>2
  <2>4. RmSettled'
    BY <1>1, <2>2, <2>3 DEF RmSettled, RmHas, RmFilled
  <2>5. (\A u \in RmThread : rmCall'[u].pc = "idle") /\ \A u \in RmThread : RmStepOf(u)'
    BY <1>1, <2>1, RmAllOut DEF RmIInv
  <2> QED
    BY <1>1, <2>1, <2>4, <2>5 DEF RmOneByOne
<1> QED
  BY <1>3, <1>4 DEF RmIInv

\* A mapping is refused.
LEMMA RmRefuseStep ==
    ASSUME RmIInv, rmFault = "none", NEW t \in RmThread, RmMmapRefuse(t)
    PROVE  RmIInv'
<1>1. /\ rmCall[t].pc = "mmap" /\ rmFault' \in {"none", "index"}
      /\ rmCall' = [rmCall EXCEPT ![t] = RmIdle]
      /\ UNCHANGED <<rmOpen, rmNum, rmArea, rmArray, rmLast, rmMapped, rmOverlap, rmFailed,
                     rmAgain>>
  BY DEF RmMmapRefuse
<1>2. RmTypes'
  <2>1. RmTypeOK'
    BY <1>1 DEF RmIInv, RmTypes, RmTypeOK
  <2>2. RmFresh' /\ RmStack'
    BY <1>1, RmKeeps DEF RmIInv
  <2> QED
    BY <1>1, <2>1, <2>2, RmEnds, RmTypesMove DEF RmIInv, RmTypes
<1>3. ASSUME RmQuiet' PROVE RmOneByOne'
  <2>1. RmOneByOne
    BY <1>1, <1>3 DEF RmQuiet, RmIInv
  <2>2. /\ \A u \in RmThread : u # t => rmCall[u].pc = "idle"
        /\ \A u \in RmThread : rmCall'[u].pc = "idle"
        /\ \A u \in RmThread : RmStepOf(u)'
    BY <1>1, <2>1, RmAllOut DEF RmIInv
  <2>3. rmOpen' => RmSettled
    BY <1>1, <2>1, <2>2 DEF RmOneByOne
  <2>4. rmOpen' => RmSettled'
    BY <1>1, <2>3 DEF RmSettled, RmHas, RmFilled
  <2> QED
    BY <1>1, <2>1, <2>2, <2>4 DEF RmOneByOne
<1> QED
  BY <1>2, <1>3 DEF RmIInv

\* A region is mapped.
LEMMA RmMmapStep ==
    ASSUME RmIInv, rmFault = "none", NEW t \in RmThread, RmMmap(t)
    PROVE  RmIInv'
<1> DEFINE i == rmCall[t].i
<1>1. /\ rmCall[t].pc = "mmap" /\ rmCall' = [rmCall EXCEPT ![t] = RmIdle]
      /\ UNCHANGED <<rmOpen, rmNum, rmArea, rmArray, rmLast, rmOverlap, rmFailed, rmAgain>>
      /\ IF Usable(rmArea) /\ i < rmArray[rmArea].size
         THEN /\ \E pages \in 1 .. MaxPages :
                    rmMapped' = [of |-> rmLast, dev |-> rmArray[rmArea].content[i], i |-> i, pages |-> pages]
              /\ rmFault' = rmFault
         ELSE rmFault' = "memory" /\ rmMapped' = rmMapped
  BY DEF RmMmap
<1>2. /\ i \in Regions /\ i \in Nat /\ rmOpen /\ rmNum \in Int
      /\ rmArray \in [Array -> RmEntry] /\ rmArea \in Array \cup {Null}
  BY <1>1, RmRegionNat DEF RmIInv, RmTypes, RmTypeOK
<1> HIDE DEF i
<1>3. /\ rmMapped' \in [of : RmDev \cup {NoRegion}, dev : RmDev \cup {NoRegion},
                          i : Regions \cup {0}, pages : 0 .. MaxPages]
      /\ rmFault' \in {"none", "memory"}
  <2>1. CASE Usable(rmArea) /\ i < rmArray[rmArea].size
    <3>1. rmArea \in Array
      BY <1>2, <2>1 DEF Usable
    <3>2. rmArray[rmArea].content[i] \in RmDev \cup {NoRegion}
      BY <1>2, <3>1 DEF RmEntry
    <3>3. rmLast \in RmDev \cup {NoRegion} /\ MaxPages \in Nat
      BY RmAssumption DEF RmIInv, RmTypes, RmTypeOK
    <3> QED
      BY <1>1, <1>2, <2>1, <3>2, <3>3
  <2>2. CASE ~(Usable(rmArea) /\ i < rmArray[rmArea].size)
    BY <1>1, <2>2 DEF RmIInv, RmTypes, RmTypeOK
  <2> QED
    BY <2>1, <2>2
<1>4. RmTypes'
  <2>1. RmTypeOK'
    BY <1>1, <1>3 DEF RmIInv, RmTypes, RmTypeOK
  <2>2. RmFresh' /\ RmStack'
    BY <1>1, <1>3, RmKeeps DEF RmIInv
  <2> QED
    BY <1>1, <2>1, <2>2, RmEnds, RmTypesMove DEF RmIInv, RmTypes
<1>5. ASSUME RmQuiet' PROVE RmOneByOne'
  <2>1. RmOneByOne
    BY <1>1, <1>5 DEF RmQuiet, RmIInv
  <2>2. /\ \A u \in RmThread : u # t => rmCall[u].pc = "idle"
        /\ \A u \in RmThread : rmCall'[u].pc = "idle"
        /\ \A u \in RmThread : RmStepOf(u)'
    BY <1>1, <2>1, RmAllOut DEF RmIInv
  <2>3. RmSettled /\ rmArea # Null /\ i < rmNum
    <3>1. rmArea # Null /\ i < rmNum
      BY <1>1, <2>1 DEF RmOneByOne, RmStepOf, i
    <3>2. RmSettled
      BY <1>1, <1>2, <2>1, <2>2 DEF RmOneByOne
    <3> QED
      BY <3>1, <3>2
  <2>4. RmHas(rmLast) /\ RmFilled(rmLast, rmNum)
    BY <2>3 DEF RmSettled
  <2>5. /\ Usable(rmArea) /\ i < rmArray[rmArea].size
        /\ rmArray[rmArea].content[i] = RmStored(rmLast, i)
    <3>1. i < rmNum + 1
      BY <1>2, <2>3
    <3> QED
      BY <1>2, <2>3, <2>4, <3>1 DEF RmHas, RmFilled, Usable
  <2>6. /\ rmMapped'.of = rmLast /\ rmMapped'.i = i /\ rmMapped'.dev = RmStored(rmLast, i)
        /\ rmFault' = rmFault
    BY <1>1, <2>5
  <2>7. rmLast # NoRegion /\ i < RmCount[rmLast]
    BY <2>3, <2>4, RmAssumption DEF RmHas, NoRegion
  <2>8. RmSettled'
    BY <1>1, <2>3 DEF RmSettled, RmHas, RmFilled
  <2> QED
    BY <1>1, <2>1, <2>2, <2>6, <2>7, <2>8 DEF RmOneByOne
<1> QED
  BY <1>4, <1>5 DEF RmIInv

\* kiumd_close.
LEMMA RmCloseStep ==
    ASSUME RmIInv, rmFault = "none", RmClose
    PROVE  RmIInv'
<1>1. /\ rmOpen /\ rmOpen' = FALSE /\ \A t \in RmThread : rmCall[t].pc = "idle"
      /\ UNCHANGED <<rmNum, rmArea, rmCall, rmLast, rmMapped, rmOverlap, rmFailed, rmAgain>>
      /\ \/ rmArea = Null /\ UNCHANGED <<rmArray, rmFault>>
         \/ rmArea # Null /\ FreeArea
  BY DEF RmClose
<1>2. rmArray' \in [Array -> RmEntry] /\ rmFault' \in {"none", "memory"} /\ RmFresh' /\ RmStack'
  <2>1. CASE UNCHANGED <<rmArray, rmFault>>
    BY <2>1, RmKeeps DEF RmIInv, RmTypes
  <2>2. CASE FreeArea
    BY <2>2, RmFreed DEF RmIInv, RmStack
  <2> QED
    BY <1>1, <2>1, <2>2
<1>3. RmTypes'
  <2>1. {rmOpen, rmOverlap, rmFailed, rmAgain}' \subseteq BOOLEAN
    BY <1>1 DEF RmIInv, RmTypes, RmTypeOK
  <2>2. RmTypeOK'
    BY <1>1, <1>2, <2>1 DEF RmIInv, RmTypes, RmTypeOK, RmEntry
  <2> QED
    BY <1>1, <1>2, <2>2 DEF RmIInv, RmTypes
<1>4. ASSUME RmQuiet' PROVE RmOneByOne'
  <2>1. RmOneByOne
    BY <1>1, <1>4 DEF RmQuiet, RmIInv
  <2>2. RmSettled
    BY <1>1, <2>1 DEF RmOneByOne
  <2>3. rmArea # Null => Usable(rmArea)
    BY <2>2 DEF RmSettled, RmHas, Usable
  <2>4. rmFault' # "memory"
    BY <1>1, <2>3, RmFreed DEF RmIInv
  <2>5. ~rmAgain' => \A a \in Array : rmArray'[a].state # "live"
    <3> SUFFICES ASSUME ~rmAgain', NEW a \in Array, rmArray'[a].state = "live"
                 PROVE  FALSE
      OBVIOUS
    <3>1. CASE rmArea = Null
      BY <1>1, <2>1, <3>1 DEF RmOneByOne, Array, Null
    <3>2. CASE rmArea # Null
      BY <1>1, <2>1, <2>3, <3>2, RmFreed DEF RmOneByOne, RmIInv
    <3> QED
      BY <3>1, <3>2
  <2>6. \A u \in RmThread : RmStepOf(u)'
    BY <1>1 DEF RmStepOf
  <2> QED
    BY <1>1, <2>1, <2>4, <2>5, <2>6 DEF RmOneByOne
<1> QED
  BY <1>3, <1>4 DEF RmIInv

\* Nothing of the file changes.
LEMMA RmStutter == RmIInv /\ UNCHANGED rmVars => RmIInv'
<1> SUFFICES ASSUME RmIInv, UNCHANGED rmVars PROVE RmIInv'
  OBVIOUS
<1>1. UNCHANGED <<rmOpen, rmNum, rmArea, rmArray, rmCall, rmLast, rmMapped, rmOverlap,
                  rmFailed, rmAgain, rmFault>>
  BY DEF rmVars
<1>2. RmTypes'
  BY <1>1 DEF RmIInv, RmTypes, RmTypeOK, RmFresh, RmStack
<1>3. RmQuiet' => RmOneByOne'
  <2> SUFFICES ASSUME RmQuiet' PROVE RmOneByOne'
    OBVIOUS
  <2>1. RmOneByOne
    BY <1>1 DEF RmIInv, RmQuiet
  <2>2. \A t \in RmThread : RmStepOf(t)'
    BY <1>1, <2>1 DEF RmOneByOne, RmStepOf, RmHas, RmFilled
  <2>3. RmSettled' = RmSettled
    BY <1>1 DEF RmSettled, RmHas, RmFilled
  <2> QED
    BY <1>1, <2>1, <2>2, <2>3 DEF RmOneByOne
<1> QED
  BY <1>2, <1>3 DEF RmIInv

\* Every step of the module keeps the invariant.
LEMMA RmStep == RmIInv /\ [RmNext]_rmVars => RmIInv'
<1> SUFFICES ASSUME RmIInv, [RmNext]_rmVars PROVE RmIInv'
  OBVIOUS
<1>1. CASE UNCHANGED rmVars
  BY <1>1, RmStutter
<1>2. CASE RmNext
  <2>1. rmFault = "none"
    BY <1>2 DEF RmNext
  <2>2. CASE RmClose
    BY <2>1, <2>2, RmCloseStep
  <2>3. ASSUME NEW t \in RmThread, NEW d \in RmDev, RmCountElems(t, d) PROVE RmIInv'
    BY <2>1, <2>3, RmCountStep
  <2>4. ASSUME NEW t \in RmThread, NEW off \in Regions, RmMmapCheck(t, off) PROVE RmIInv'
    BY <2>1, <2>4, RmMmapCheckStep
  <2>5. ASSUME NEW t \in RmThread, RmAlloc(t) PROVE RmIInv'
    BY <2>1, <2>5, RmAllocStep
  <2>6. ASSUME NEW t \in RmThread, RmAllocFail(t) \/ RmInitFail(t) PROVE RmIInv'
    BY <2>1, <2>6, RmFailStep
  <2>7. ASSUME NEW t \in RmThread, RmReadCount(t) PROVE RmIInv'
    BY <2>1, <2>7, RmReadStep
  <2>8. ASSUME NEW t \in RmThread, RmFill(t) PROVE RmIInv'
    BY <2>1, <2>8, RmFillStep
  <2>9. ASSUME NEW t \in RmThread, RmInitDone(t) PROVE RmIInv'
    BY <2>1, <2>9, RmDoneStep
  <2>10. ASSUME NEW t \in RmThread, RmMmapRefuse(t) PROVE RmIInv'
    BY <2>1, <2>10, RmRefuseStep
  <2>11. ASSUME NEW t \in RmThread, RmMmap(t) PROVE RmIInv'
    BY <2>1, <2>11, RmMmapStep
  <2> QED
    BY <1>2, <2>2, <2>3, <2>4, <2>5, <2>6, <2>7, <2>8, <2>9, <2>10, <2>11 DEF RmNext
<1> QED
  BY <1>1, <1>2

\* The invariant of the file holds in every behaviour.
THEOREM RmInvariance == RmSpec => []RmIInv
<1>1. RmInit => RmIInv
  BY RmInitial
<1>2. RmIInv /\ [RmNext]_rmVars => RmIInv'
  BY RmStep
<1> QED
  BY <1>1, <1>2, PTL DEF RmSpec

(* kiumd_vfio_ctx_init, kiumd_mmap and kiumd_close, which take no lock: while    *)
(* init calls do not fail and calls do not overlap, no array that is freed or      *)
(* too short is used, a mapping begins at what the last init stored for an index     *)
(* of its device, and close leaves an array behind only if init was called twice;     *)
(* and in any case the stack of init is overwritten only for a device with more        *)
(* regions than mem_info has room for.                                                  *)
THEOREM RmInvHolds == RmSpec => []RmInv
<1>1. RmIInv => RmInv
  <2> SUFFICES ASSUME RmIInv PROVE RmInv
    OBVIOUS
  <2>1. RmTypeOK
    BY DEF RmIInv, RmTypes
  <2>2. RmQuiet => RmOneByOne
    BY DEF RmIInv
  <2>3. ASSUME RmQuiet, NEW t \in RmThread, rmCall[t].pc = "mmap"
        PROVE  /\ rmLast # NoRegion
               /\ rmArray[rmArea].content[rmCall[t].i] = RmStored(rmLast, rmCall[t].i)
    <3>1. rmOpen /\ rmCall[t].i \in Regions
      BY <2>3 DEF RmIInv, RmTypes
    <3>2. rmArea # Null /\ rmCall[t].i < rmNum
      BY <2>2, <2>3 DEF RmOneByOne, RmStepOf
    <3>3. RmSettled
      BY <2>2, <2>3, <3>1 DEF RmOneByOne
    <3>4. RmHas(rmLast) /\ RmFilled(rmLast, rmNum)
      BY <3>2, <3>3 DEF RmSettled
    <3> QED
      BY <3>1, <3>2, <3>4, RmAssumption DEF RmHas, RmFilled, NoRegion
  <2> QED
    <3>1. RmStack
      BY DEF RmIInv, RmTypes
    <3> QED
      BY <2>1, <2>2, <2>3, <3>1 DEF RmInv, RmOneByOne, RmStack
<1> QED
  BY <1>1, RmInvariance, PTL

-----------------------------------------------------------------------------
(* DMA heaps *)

BufType == [pc : BufPcs, heap : 0 .. Heaps, pages : SUBSET Page,
            user : SUBSET Page, vmap_cnt : 0 .. MaxVmap, cpu : BOOLEAN]
AttType == [buf : Buf \cup {None}, map : {"none", "op", "priv"}, pending : BOOLEAN]

\* The heaps up to n whose region a driver manages.
OpsTo(n) == {i \in 1 .. n : node[i].mem = "ops"}
OneRef == \E h \in Heap : memRef \subseteq {h}

\* What probe has initialised and referenced at each of its steps.
RegionInv ==
    /\ probe = "parse" => idx \in Heap /\ memRef = {} /\ region = OpsTo(idx - 1)
    /\ probe = "region" => /\ idx \in Heap /\ region = OpsTo(idx - 1)
                           /\ memRef = {i \in {idx} : node[i].mem # "none"}
    /\ probe = "release" => region = OpsTo(idx) /\ OneRef
    /\ probe = "failed" => region = {} /\ OneRef
    /\ probe \in {"create", "done"} => memRef = {} /\ region = OpsTo(Heaps)
    /\ probe = "create" => idx \in Heap

\* A process has all the pages of a live buffer or none; a buffer is cleared on the
\* way in from a CMA heap, on the way out to a carveout.
BufOf(b) ==
    /\ buf[b].pc \notin {"new", "gone"} => buf[b].heap \in Heap
    /\ buf[b].user # {} => buf[b].pc = "live" /\ buf[b].user = buf[b].pages
    /\ buf[b].pc = "clear" => node[buf[b].heap].type = "cma"
    /\ buf[b].pc = "zero" => node[buf[b].heap].type = "carveout"

\* Only live buffers are attached, and unmapping synchronises.
AttOf(a) ==
    /\ Live(a) => buf[att[a].buf].pc = "live"
    /\ att[a].map = "none" => ~att[a].pending

\* Where pages are clean, but for those whose clearing failed: in the pool of a
\* carveout, in a buffer nobody has seen yet and in one that goes back to a carveout.
Clean(i, p) == <<i, p>> \in tainted \/ content[i][p] = Zero
PoolClean(i) ==
    node[i].type = "carveout" /\ heap[i] = "created" => \A p \in pool[i] : Clean(i, p)
Cleaned(b) ==
    \/ buf[b].pc = "export"
    \/ buf[b].pc = "free" /\ node[buf[b].heap].type = "carveout"
ContentOf(b) ==
    \A p \in buf[b].pages :
        /\ Cleaned(b) => Clean(buf[b].heap, p)
        /\ buf[b].pc = "live" => Clean(buf[b].heap, p) \/ content[buf[b].heap][p] = b

SgInv ==
    /\ TypeOK /\ RegionInv /\ PagesOwned /\ CpuCoherent
    /\ \A b \in Buf : BufOf(b) /\ ContentOf(b)
    /\ \A a \in Att : AttOf(a)
    /\ \A i \in Heap : PoolClean(i)

\* Probe, and the creation of a heap, keep the regions in step.
LEMMA RegionStep ==
    ASSUME ProbeTypeOK, RegionInv, ProbeNext \/ CreateHeap
    PROVE  ProbeTypeOK' /\ RegionInv' /\ node' = node
<1>1. Heaps \in Nat /\ Heaps >= 1 /\ Trees \subseteq [Heap -> Node]
  BY ProbeAssumption
<1>2. node \in [Heap -> Node] /\ node' = node
  BY <1>1 DEF ProbeTypeOK, ProbeNext, CreateHeap, ParseNode, ParseFail, ParseNoRegion, RegionInit,
              RegionFail, RegionBadAddress, ReleaseRegion, ReleaseDone, CreateFail, SkipHeap
<1>3. \A n \in 0 .. Heaps : OpsTo(n) \subseteq Heap /\ OpsTo(n)' = OpsTo(n)
  BY <1>1, <1>2 DEF OpsTo, Heap
<1>4. \A n \in Heap :
          /\ node[n].mem = "ops" => OpsTo(n) = OpsTo(n - 1) \cup {n}
          /\ node[n].mem # "ops" => OpsTo(n) = OpsTo(n - 1)
          /\ OpsTo(n) \ {n} = OpsTo(n - 1)
          /\ OpsTo(n - 1) \ {n} = OpsTo(n - 1)
  BY <1>1 DEF OpsTo, Heap
<1>5. OpsTo(0) = {}
  BY DEF OpsTo
<1>6. ASSUME NEW i \in Heap, NextNode, idx = i, region' = OpsTo(i), memRef' = {},
             heap' = heap
      PROVE  ProbeTypeOK' /\ RegionInv'
  <2>1. i \in 1 .. Heaps
    BY <1>6 DEF Heap
  <2>2. CASE i = Heaps
    <3>1. probe' = "create" /\ idx' = 1
      BY <1>6, <2>2 DEF NextNode
    <3>2. ProbeTypeOK'
      BY <1>1, <1>2, <1>3, <1>6, <2>1, <3>1 DEF ProbeTypeOK, Heap
    <3>3. region' = OpsTo(Heaps)' /\ idx' \in Heap
      BY <1>1, <1>3, <1>6, <2>2, <3>1 DEF Heap
    <3> QED
      BY <1>6, <3>1, <3>2, <3>3 DEF RegionInv
  <2>3. CASE i # Heaps
    <3>1. probe' = "parse" /\ idx' = i + 1
      BY <1>6, <2>3 DEF NextNode
    <3>2. idx' \in Heap /\ idx' - 1 = i
      BY <1>1, <2>1, <2>3, <3>1 DEF Heap
    <3>3. ProbeTypeOK'
      BY <1>1, <1>2, <1>3, <1>6, <2>1, <3>1, <3>2 DEF ProbeTypeOK, Heap
    <3>4. region' = {n \in 1 .. idx' - 1 : node'[n].mem = "ops"}
      BY <1>2, <1>6, <3>2 DEF OpsTo
    <3> QED
      BY <1>6, <3>1, <3>2, <3>3, <3>4 DEF RegionInv, OpsTo
  <2> QED
    BY <2>2, <2>3
<1>7. ASSUME NEW i \in Heap, GiveUp, idx = i, region' = OpsTo(i - 1), OneRef', heap' = heap,
             memRef' \subseteq Heap
      PROVE  ProbeTypeOK' /\ RegionInv'
  <2>1. probe' = "release" /\ idx' = i - 1 /\ idx' \in 0 .. Heaps
    BY <1>1, <1>7 DEF GiveUp, ReleaseStart, Heap
  <2>2. ProbeTypeOK'
    BY <1>1, <1>2, <1>3, <1>7, <2>1 DEF ProbeTypeOK
  <2>3. region' = {n \in 1 .. idx' : node'[n].mem = "ops"}
    BY <1>2, <1>7, <2>1 DEF OpsTo
  <2> QED
    BY <1>7, <2>1, <2>2, <2>3 DEF RegionInv, OpsTo
<1>8. ASSUME probe = "create", NextHeap, region' = region, memRef' = memRef,
             heap' \in [Heap -> {"none", "created", "failed"}]
      PROVE  ProbeTypeOK' /\ RegionInv'
  <2>1. idx \in Heap /\ idx \in 1 .. Heaps /\ memRef = {} /\ region = OpsTo(Heaps)
    BY <1>8 DEF RegionInv, Heap
  <2>2. region' = OpsTo(Heaps)' /\ memRef' = {}
    BY <1>1, <1>3, <1>8, <2>1
  <2>3. \/ probe' = "done" /\ idx' = 0
        \/ probe' = "create" /\ idx' \in Heap
    BY <1>1, <1>8, <2>1 DEF NextHeap, Heap
  <2>4. ProbeTypeOK'
    BY <1>1, <1>2, <1>8, <2>1, <2>2, <2>3 DEF ProbeTypeOK, Heap
  <2> QED
    BY <2>2, <2>3, <2>4 DEF RegionInv
<1>9. CASE ParseNode
  <2>1. idx \in Heap /\ memRef = {} /\ region = OpsTo(idx - 1) /\ probe' = "region"
        /\ idx' = idx /\ region' = region /\ heap' = heap
    BY <1>9 DEF ParseNode, RegionInv
  <2>2. memRef' = {i \in {idx} : node[i].mem # "none"}
    BY <1>9, <2>1 DEF ParseNode
  <2>3. ProbeTypeOK'
    BY <1>2, <2>1, <2>2 DEF ProbeTypeOK
  <2>4. region' = {n \in 1 .. idx' - 1 : node'[n].mem = "ops"}
    BY <1>2, <2>1 DEF OpsTo
  <2>5. memRef' = {i \in {idx'} : node'[i].mem # "none"}
    BY <1>2, <2>1, <2>2
  <2> QED
    BY <1>2, <2>1, <2>3, <2>4, <2>5 DEF RegionInv, OpsTo
<1>10. CASE ParseFail
  <2>1. idx \in Heap /\ memRef = {} /\ region = OpsTo(idx - 1) /\ GiveUp
        /\ memRef' = memRef /\ region' = region /\ heap' = heap
    BY <1>10 DEF ParseFail, RegionInv
  <2>2. OneRef'
    BY <2>1 DEF OneRef
  <2> QED
    BY <1>2, <1>7, <2>1, <2>2
<1>11. CASE ParseNoRegion
  <2>1. idx \in Heap /\ memRef = {} /\ region = OpsTo(idx - 1) /\ NextNode
        /\ node[idx].mem = "none" /\ memRef' = memRef /\ region' = region /\ heap' = heap
    BY <1>11 DEF ParseNoRegion, RegionInv
  <2>2. region' = OpsTo(idx)
    BY <1>4, <2>1
  <2> QED
    BY <1>2, <1>6, <2>1, <2>2
<1>12. CASE RegionInit
  <2>1. idx \in Heap /\ memRef \subseteq {idx} /\ region = OpsTo(idx - 1) /\ NextNode
        /\ memRef' = memRef \ {idx} /\ heap' = heap
    BY <1>12 DEF RegionInit, RegionInv
  <2>2. region' = OpsTo(idx)
    BY <1>4, <1>12, <2>1 DEF RegionInit
  <2>3. memRef' = {}
    BY <2>1
  <2> QED
    BY <1>2, <1>6, <2>1, <2>2, <2>3
<1>13. CASE RegionFail
  <2>1. idx \in Heap /\ memRef \subseteq {idx} /\ region = OpsTo(idx - 1) /\ GiveUp
        /\ memRef' = memRef /\ region' = region /\ heap' = heap
    BY <1>13 DEF RegionFail, RegionInv
  <2>2. OneRef' /\ memRef' \subseteq Heap
    BY <2>1 DEF OneRef
  <2> QED
    BY <1>2, <1>7, <2>1, <2>2
<1>14. CASE RegionBadAddress
  <2>1. idx \in Heap /\ memRef \subseteq {idx} /\ region = OpsTo(idx - 1) /\ GiveUp
        /\ memRef' = memRef /\ region' = region \ {idx} /\ heap' = heap
    BY <1>14 DEF RegionBadAddress, RegionInv
  <2>2. OneRef' /\ memRef' \subseteq Heap
    BY <2>1 DEF OneRef
  <2>3. region' = OpsTo(idx - 1)
    BY <1>4, <2>1
  <2> QED
    BY <1>2, <1>7, <2>1, <2>2, <2>3
<1>15. CASE ReleaseRegion
  <2>1. probe = "release" /\ idx >= 1 /\ idx' = idx - 1 /\ probe' = probe /\ region = OpsTo(idx)
        /\ OneRef /\ memRef' = memRef /\ heap' = heap /\ idx \in 0 .. Heaps
    BY <1>15 DEF ReleaseRegion, RegionInv, ProbeTypeOK
  <2>2. idx \in Heap /\ idx' \in 0 .. Heaps
    BY <1>1, <2>1 DEF Heap
  <2>3. region' = OpsTo(idx - 1)
    BY <1>4, <1>15, <2>1, <2>2 DEF ReleaseRegion
  <2>4. ProbeTypeOK'
    BY <1>2, <1>3, <2>1, <2>2, <2>3 DEF ProbeTypeOK
  <2>5. region' = {n \in 1 .. idx' : node'[n].mem = "ops"}
    BY <1>2, <2>1, <2>3 DEF OpsTo
  <2>6. OneRef'
    BY <2>1 DEF OneRef
  <2> QED
    BY <1>2, <2>1, <2>4, <2>5, <2>6 DEF RegionInv, OpsTo
<1>16. CASE ReleaseDone
  <2>1. probe' = "failed" /\ idx' = 0 /\ memRef' = memRef /\ region' = region /\ heap' = heap
        /\ idx = 0 /\ region = OpsTo(idx) /\ OneRef
    BY <1>16 DEF ReleaseDone, RegionInv, ProbeTypeOK
  <2>2. region' = {} /\ OneRef'
    BY <1>5, <2>1 DEF OneRef
  <2>3. idx' \in 0 .. Heaps
    BY <1>1, <2>1
  <2>4. ProbeTypeOK'
    BY <1>2, <2>1, <2>3 DEF ProbeTypeOK
  <2> QED
    BY <1>2, <2>1, <2>2, <2>4 DEF RegionInv
<1>17. CASE CreateFail
  <2>1. heap' \in [Heap -> {"none", "created", "failed"}]
    BY <1>17 DEF CreateFail, ProbeTypeOK
  <2> QED
    BY <1>2, <1>8, <1>17, <2>1 DEF CreateFail
<1>18. CASE SkipHeap
  BY <1>2, <1>8, <1>18 DEF SkipHeap, ProbeTypeOK
<1>19. CASE CreateHeap
  <2>1. heap' \in [Heap -> {"none", "created", "failed"}]
    BY <1>19 DEF CreateHeap, ProbeTypeOK
  <2> QED
    BY <1>2, <1>8, <1>19, <2>1 DEF CreateHeap
<1> QED
  BY <1>9, <1>10, <1>11, <1>12, <1>13, <1>14, <1>15, <1>16, <1>17, <1>18, <1>19 DEF ProbeNext

\* RegionInv is what the property about the regions says, step by step.
LEMMA RegionsOk ==
    ASSUME RegionInv
    PROVE  RegionsAccounted
<1>1. ASSUME OneRef
      PROVE  Cardinality(memRef) <= 1
  <2>1. PICK h \in Heap : memRef \subseteq {h}
    BY <1>1 DEF OneRef
  <2>2. memRef = {} \/ memRef = {h}
    BY <2>1
  <2>3. Cardinality({}) = 0 /\ Cardinality({h}) = 1
    BY FS_EmptySet, FS_Singleton
  <2> QED
    BY <2>2, <2>3
<1> QED
  BY <1>1 DEF RegionInv, RegionsAccounted, OpsTo, Heap

\* The types, in the words of the proofs.
LEMMA SgTypes ==
    ASSUME TypeOK
    PROVE  /\ buf \in [Buf -> BufType] /\ att \in [Att -> AttType]
           /\ \A i \in Heap : pool[i] \subseteq Page /\ content[i] \in [Page -> Buf \cup {Zero, Old}]
           /\ \A b \in Buf : buf[b].pc \in BufPcs /\ buf[b].heap \in 0 .. Heaps
                                /\ buf[b].pages \subseteq Page /\ buf[b].user \subseteq Page
           /\ None \notin Buf /\ ProbeTypeOK /\ tainted \subseteq Heap \X Page
BY BufferAssumption DEF TypeOK, BufType, AttType

\* Buffers other than b are left alone.
Others(b) == \A c \in Buf : c # b => buf'[c] = buf[c]

\* A step of a buffer that moves its program counter alone.
LEMMA GotoBuf ==
    ASSUME TypeOK, NEW b \in Buf, NEW pc \in BufPcs, Goto(b, pc)
    PROVE  /\ buf' \in [Buf -> BufType] /\ Others(b)
           /\ buf'[b].pc = pc /\ buf'[b].heap = buf[b].heap /\ buf'[b].pages = buf[b].pages
           /\ buf'[b].user = buf[b].user /\ buf'[b].cpu = buf[b].cpu
BY SgTypes DEF Goto, BufType, Others

\* A step that leaves probe alone.
LEMMA ProbeSame ==
    ASSUME TypeOK, RegionInv, UNCHANGED probeVars
    PROVE  ProbeTypeOK' /\ RegionInv' /\ node' = node /\ heap' = heap
<1>1. node' = node /\ idx' = idx /\ probe' = probe /\ region' = region /\ memRef' = memRef
      /\ heap' = heap
  BY DEF probeVars
<1>2. ProbeTypeOK'
  BY <1>1 DEF TypeOK, ProbeTypeOK
<1>3. RegionInv'
  BY <1>1 DEF RegionInv, OpsTo, OneRef
<1> QED
  BY <1>1, <1>2, <1>3

\* Pages stay where they are as long as no buffer begins or ends.
LEMMA PagesKept ==
    ASSUME TypeOK, PagesOwned, pool' = pool,
           \A c \in Buf : /\ buf'[c].heap = buf[c].heap /\ buf'[c].pages = buf[c].pages
                          /\ buf'[c].pc \in {"new", "gone"} <=> buf[c].pc \in {"new", "gone"}
                          /\ \/ buf'[c].user \subseteq buf[c].user
                             \/ buf'[c].user \subseteq buf[c].pages /\ buf[c].pc = "live"
    PROVE  PagesOwned'
<1>1. \A c \in Buf, i \in Heap : Owns(c, i)' <=> Owns(c, i)
  BY DEF Owns
<1>2. \A i \in Heap : {c \in Buf : Owns(c, i)}' = {c \in Buf : Owns(c, i)}
  BY <1>1
<1>3. ASSUME NEW i \in Heap
      PROVE  UNION {buf[c].pages : c \in {d \in Buf : Owns(d, i)}}' =
                UNION {buf[c].pages : c \in {d \in Buf : Owns(d, i)}}
  BY <1>1
<1>4. ASSUME NEW i \in Heap, NEW c \in Buf, buf'[c].heap = i
      PROVE  buf'[c].user \cap pool'[i] = {}
  <2>1. buf[c].user \cap pool[i] = {} /\ buf[c].heap = i
    BY <1>4 DEF PagesOwned
  <2>2. CASE buf'[c].user \subseteq buf[c].user
    BY <2>1, <2>2
  <2>3. CASE buf'[c].user \subseteq buf[c].pages /\ buf[c].pc = "live"
    <3>1. Owns(c, i)
      BY <2>1, <2>3 DEF Owns
    <3>2. buf[c].pages \cap pool[i] = {}
      BY <3>1 DEF PagesOwned
    <3> QED
      BY <2>3, <3>2
  <2> QED
    BY <2>2, <2>3
<1>5. ASSUME NEW i \in Heap
      PROVE  /\ \A c \in Buf : Owns(c, i)' => buf'[c].pages \cap pool'[i] = {}
             /\ \A c, d \in Buf : Owns(c, i)' /\ Owns(d, i)' /\ c # d
                                     => buf'[c].pages \cap buf'[d].pages = {}
             /\ pool'[i] \cup UNION {buf[c].pages : c \in {d \in Buf : Owns(d, i)}}' = Page
  <2>1. /\ \A c \in Buf : Owns(c, i) => buf[c].pages \cap pool[i] = {}
        /\ \A c, d \in Buf : Owns(c, i) /\ Owns(d, i) /\ c # d
                                => buf[c].pages \cap buf[d].pages = {}
        /\ pool[i] \cup UNION {buf[c].pages : c \in {d \in Buf : Owns(d, i)}} = Page
    BY DEF PagesOwned
  <2> QED
    BY <1>1, <1>3, <2>1
<1> QED
  BY <1>4, <1>5 DEF PagesOwned, Page

\* A buffer that ends gives its pages back.
LEMMA PagesGiven ==
    ASSUME TypeOK, PagesOwned, NEW b \in Buf, buf[b].pc \notin {"new", "gone"},
           buf[b].heap \in Heap, buf[b].user = {}, \A c \in Buf : BufOf(c),
           Give(b), Goto(b, "gone")
    PROVE  PagesOwned' /\ pool' \in [Heap -> SUBSET Page]
<1> DEFINE h == buf[b].heap
           Of(i) == {c \in Buf : Owns(c, i)}
<1>1. /\ pool' \in [Heap -> SUBSET Page] /\ pool'[h] = pool[h] \cup buf[b].pages
      /\ \A i \in Heap : i # h => pool'[i] = pool[i]
  BY SgTypes DEF Give, TypeOK
<1>2. /\ Others(b) /\ buf'[b].pc = "gone" /\ buf'[b].heap = h
      /\ buf'[b].user = {} /\ buf'[b].pages = buf[b].pages
  BY GotoBuf DEF BufPcs
<1>3. \A c \in Buf, i \in Heap : Owns(c, i)' <=> Owns(c, i) /\ c # b
  BY <1>2 DEF Owns, Others
<1>4. Owns(b, h)
  BY DEF Owns
<1>5. \A c \in Buf : buf'[c].pages = buf[c].pages /\ buf'[c].heap = buf[c].heap
                        /\ buf'[c].user = buf[c].user
  BY <1>2 DEF Others
<1>6. ASSUME NEW i \in Heap
      PROVE  pool'[i] \cup UNION {buf'[c].pages : c \in Of(i)'} = Page
  <2>1. pool[i] \cup UNION {buf[c].pages : c \in Of(i)} = Page
    BY DEF PagesOwned
  <2>2. Of(i)' = Of(i) \ {b} /\ Of(i) \subseteq Buf
    BY <1>3
  <2>3. CASE i = h
    <3>1. UNION {buf[c].pages : c \in Of(i)} =
             buf[b].pages \cup UNION {buf[c].pages : c \in Of(i) \ {b}}
      BY <1>4, <2>2, <2>3
    <3>2. UNION {buf'[c].pages : c \in Of(i)'} = UNION {buf[c].pages : c \in Of(i) \ {b}}
      BY <1>5, <2>2
    <3> QED
      BY <1>1, <2>1, <2>3, <3>1, <3>2
  <2>4. CASE i # h
    <3>1. Of(i)' = Of(i)
      BY <2>2, <2>4 DEF Owns
    <3>2. UNION {buf'[c].pages : c \in Of(i)'} = UNION {buf[c].pages : c \in Of(i)}
      BY <1>5, <2>2, <3>1
    <3> QED
      BY <1>1, <2>1, <2>4, <3>2
  <2> QED
    BY <2>3, <2>4
<1>7. ASSUME NEW i \in Heap, NEW c \in Buf, Owns(c, i)'
      PROVE  buf'[c].pages \cap pool'[i] = {}
  <2>1. Owns(c, i) /\ c # b
    BY <1>3, <1>7
  <2>2. buf[c].pages \cap pool[i] = {}
    BY <2>1 DEF PagesOwned
  <2>3. i = h => buf[c].pages \cap buf[b].pages = {}
    BY <1>4, <2>1 DEF PagesOwned
  <2> QED
    BY <1>1, <1>5, <2>2, <2>3
<1>8. ASSUME NEW i \in Heap, NEW c \in Buf, buf'[c].heap = i
      PROVE  buf'[c].user \cap pool'[i] = {}
  <2>1. buf'[c].user = buf[c].user /\ buf'[c].pages = buf[c].pages /\ buf[c].heap = i
    BY <1>5, <1>8
  <2>2. CASE buf[c].user = {}
    BY <2>1, <2>2
  <2>3. CASE buf[c].user # {}
    <3>1. buf[c].pc = "live" /\ buf[c].user = buf[c].pages /\ c # b
      BY <2>3 DEF BufOf
    <3>2. Owns(c, i)'
      BY <1>3, <2>1, <3>1 DEF Owns
    <3> QED
      BY <1>7, <2>1, <3>1, <3>2
  <2> QED
    BY <2>2, <2>3
<1>9. \A i \in Heap : \A c, d \in Buf :
          Owns(c, i)' /\ Owns(d, i)' /\ c # d => buf'[c].pages \cap buf'[d].pages = {}
  BY <1>3, <1>5 DEF PagesOwned
<1> QED
  BY <1>1, <1>6, <1>7, <1>8, <1>9 DEF PagesOwned, Page

\* A new buffer has pages that were free.
LEMMA PagesTaken ==
    ASSUME TypeOK, PagesOwned, \A c \in Buf : BufOf(c), NEW b \in Buf, buf[b].pc = "new",
           NEW i \in Heap, NEW pc \in BufPcs \ {"new", "gone", "live"}, Take(b, i, pc)
    PROVE  /\ PagesOwned' /\ pool' \in [Heap -> SUBSET Page] /\ buf' \in [Buf -> BufType]
           /\ Others(b) /\ buf'[b].pc = pc /\ buf'[b].heap = i /\ buf'[b].pages \subseteq pool[i]
           /\ buf'[b].user = {} /\ ~buf'[b].cpu
           /\ \A j \in Heap : pool'[j] \subseteq pool[j]
<1> DEFINE Of(j) == {c \in Buf : Owns(c, j)}
<1>1. PICK r \in Runs(i) :
          /\ pool' = [pool EXCEPT ![i] = @ \ r]
          /\ buf' = [buf EXCEPT ![b] = [NewBuf EXCEPT !.pc = pc, !.heap = i, !.pages = r]]
  BY DEF Take
<1>2. r \subseteq pool[i] /\ pool[i] \subseteq Page /\ pool \in [Heap -> SUBSET Page]
  BY SgTypes DEF Runs, TypeOK
<1>3. /\ pool' \in [Heap -> SUBSET Page] /\ pool'[i] = pool[i] \ r
      /\ \A j \in Heap : j # i => pool'[j] = pool[j]
  BY <1>1, <1>2
<1>4. i \in 0 .. Heaps /\ 0 \in 0 .. MaxVmap
  BY ProbeAssumption, BufferAssumption DEF Heap
<1> DEFINE nb == [NewBuf EXCEPT !.pc = pc, !.heap = i, !.pages = r]
<1>5. NewBuf \in BufType
  BY <1>4, ProbeAssumption DEF NewBuf, BufType, BufPcs
<1>6. nb \in BufType /\ nb.pc = pc /\ nb.heap = i /\ nb.pages = r /\ nb.user = {} /\ ~nb.cpu
  BY <1>2, <1>4 DEF NewBuf, BufType, BufPcs
<1>7. buf' \in [Buf -> BufType] /\ Others(b) /\ buf'[b].pc = pc /\ buf'[b].heap = i
      /\ buf'[b].pages = r /\ buf'[b].user = {} /\ ~buf'[b].cpu
  BY <1>1, <1>6, SgTypes DEF Others
<1>8. \A c \in Buf, j \in Heap : Owns(c, j)' <=> Owns(c, j) \/ (c = b /\ j = i)
  BY <1>7 DEF Owns, Others
<1>9. \A j \in Heap : ~Owns(b, j)
  BY DEF Owns
<1>10. \A c \in Buf : c # b => buf'[c].pages = buf[c].pages /\ buf'[c].heap = buf[c].heap
                                  /\ buf'[c].user = buf[c].user
  BY <1>7 DEF Others
<1>11. ASSUME NEW j \in Heap
       PROVE  pool'[j] \cup UNION {buf'[c].pages : c \in Of(j)'} = Page
  <2>1. pool[j] \cup UNION {buf[c].pages : c \in Of(j)} = Page /\ b \notin Of(j)
    BY <1>9 DEF PagesOwned
  <2>2. UNION {buf'[c].pages : c \in Of(j)} = UNION {buf[c].pages : c \in Of(j)}
    BY <1>10, <2>1
  <2>3. CASE j = i
    <3>1. Of(j)' = Of(j) \cup {b}
      BY <1>8, <2>3
    <3>2. UNION {buf'[c].pages : c \in Of(j)'} = r \cup UNION {buf'[c].pages : c \in Of(j)}
      BY <1>7, <3>1
    <3> QED
      BY <1>2, <1>3, <2>1, <2>2, <2>3, <3>2
  <2>4. CASE j # i
    <3>1. Of(j)' = Of(j)
      BY <1>8, <2>4
    <3> QED
      BY <1>3, <2>1, <2>2, <2>4, <3>1
  <2> QED
    BY <2>3, <2>4
<1>12. ASSUME NEW j \in Heap, NEW c \in Buf, Owns(c, j)'
       PROVE  buf'[c].pages \cap pool'[j] = {}
  <2>1. CASE c = b
    BY <1>3, <1>7, <1>8, <1>9, <1>12, <2>1
  <2>2. CASE c # b
    <3>1. buf[c].pages \cap pool[j] = {}
      BY <1>8, <1>12, <2>2 DEF PagesOwned
    <3> QED
      BY <1>3, <1>10, <2>2, <3>1
  <2> QED
    BY <2>1, <2>2
<1>13. ASSUME NEW j \in Heap, NEW c \in Buf, buf'[c].heap = j
       PROVE  buf'[c].user \cap pool'[j] = {}
  <2>1. CASE c = b
    BY <1>7, <2>1
  <2>2. CASE c # b
    <3>1. buf[c].user \cap pool[j] = {}
      BY <1>10, <1>13, <2>2 DEF PagesOwned
    <3> QED
      BY <1>3, <1>10, <2>2, <3>1
  <2> QED
    BY <2>1, <2>2
<1>14. ASSUME NEW j \in Heap, NEW c \in Buf, NEW d \in Buf, Owns(c, j)', Owns(d, j)', c # d
       PROVE  buf'[c].pages \cap buf'[d].pages = {}
  <2>1. CASE c # b /\ d # b
    BY <1>8, <1>10, <1>14, <2>1 DEF PagesOwned
  <2>2. CASE c = b
    <3>1. j = i /\ Owns(d, i) /\ d # b
      BY <1>8, <1>9, <1>14, <2>2
    <3>2. buf[d].pages \cap pool[i] = {}
      BY <3>1 DEF PagesOwned
    <3> QED
      BY <1>2, <1>7, <1>10, <2>2, <3>1, <3>2
  <2>3. CASE d = b
    <3>1. j = i /\ Owns(c, i) /\ c # b
      BY <1>8, <1>9, <1>14, <2>3
    <3>2. buf[c].pages \cap pool[i] = {}
      BY <3>1 DEF PagesOwned
    <3> QED
      BY <1>2, <1>7, <1>10, <2>3, <3>1, <3>2
  <2> QED
    BY <2>1, <2>2, <2>3
<1>15. PagesOwned'
  BY <1>11, <1>12, <1>13, <1>14 DEF PagesOwned, Page
<1>16. \A j \in Heap : pool'[j] \subseteq pool[j]
  BY <1>3
<1> QED
  BY <1>2, <1>3, <1>7, <1>15, <1>16

\* What a write to pages of a buffer leaves alone, and what it does not.
LEMMA Filled ==
    ASSUME TypeOK, PagesOwned, NEW b \in Buf, buf[b].pc \notin {"new", "gone"},
           buf[b].heap \in Heap, NEW pages \in SUBSET buf[b].pages,
           NEW value \in Buf \cup {Zero, Old}, Fill(b, pages, value)
    PROVE  /\ content' \in [Heap -> [Page -> Buf \cup {Zero, Old}]]
           /\ \A p \in Page : content'[buf[b].heap][p] =
                                 IF p \in pages THEN value ELSE content[buf[b].heap][p]
           /\ \A i \in Heap, p \in Page :
                 i # buf[b].heap \/ p \notin buf[b].pages => content'[i][p] = content[i][p]
           /\ \A i \in Heap : \A p \in pool[i] : content'[i][p] = content[i][p]
           /\ \A c \in Buf : c # b /\ buf[c].pc \notin {"new", "gone"} /\ buf[c].heap \in Heap =>
                 \A p \in buf[c].pages : content'[buf[c].heap][p] = content[buf[c].heap][p]
<1> DEFINE h == buf[b].heap
<1>1. content \in [Heap -> [Page -> Buf \cup {Zero, Old}]]
  BY DEF TypeOK
<1>2. content' = [content EXCEPT ![h] =
                     [p \in Page |-> IF p \in pages THEN value ELSE content[h][p]]]
  BY DEF Fill
<1>3. [p \in Page |-> IF p \in pages THEN value ELSE content[h][p]] \in [Page -> Buf \cup {Zero, Old}]
  BY <1>1
<1>4. /\ content' \in [Heap -> [Page -> Buf \cup {Zero, Old}]]
      /\ content'[h] = [p \in Page |-> IF p \in pages THEN value ELSE content[h][p]]
      /\ \A i \in Heap : i # h => content'[i] = content[i]
  BY <1>1, <1>2, <1>3
<1>5. \A p \in Page : content'[h][p] = IF p \in pages THEN value ELSE content[h][p]
  BY <1>4
<1>6. \A i \in Heap, p \in Page : i # h \/ p \notin buf[b].pages => content'[i][p] = content[i][p]
  BY <1>4, <1>5
<1>7. Owns(b, h)
  BY DEF Owns
<1>8. \A i \in Heap : \A p \in pool[i] : content'[i][p] = content[i][p]
  <2>1. pool[h] \cap buf[b].pages = {} /\ \A i \in Heap : pool[i] \subseteq Page
    BY <1>7, SgTypes DEF PagesOwned
  <2> QED
    BY <1>6, <2>1
<1>9. ASSUME NEW c \in Buf, c # b, buf[c].pc \notin {"new", "gone"}, buf[c].heap \in Heap,
             NEW p \in buf[c].pages
      PROVE  content'[buf[c].heap][p] = content[buf[c].heap][p]
  <2>1. Owns(c, buf[c].heap) /\ p \in Page
    BY <1>9, SgTypes DEF Owns
  <2>2. buf[c].heap = h => p \notin buf[b].pages
    BY <1>7, <1>9, <2>1 DEF PagesOwned
  <2> QED
    BY <1>6, <1>9, <2>1, <2>2
<1> QED
  BY <1>4, <1>5, <1>6, <1>8, <1>9

\* A buffer nobody touches keeps what is said of it.
LEMMA BufKept ==
    ASSUME SgInv, NEW c \in Buf, buf'[c] = buf[c], node' = node,
           buf[c].pc \notin {"new", "gone"} =>
              \A p \in buf[c].pages :
                 /\ content'[buf[c].heap][p] = content[buf[c].heap][p]
                 /\ <<buf[c].heap, p>> \in tainted' <=> <<buf[c].heap, p>> \in tainted
    PROVE  BufOf(c)' /\ ContentOf(c)'
<1>1. BufOf(c) /\ ContentOf(c)
  BY DEF SgInv
<1>2. BufOf(c)'
  BY <1>1 DEF BufOf
<1>3. buf[c].pc \notin {"new", "gone"} =>
          \A p \in buf[c].pages : Clean(buf[c].heap, p)' <=> Clean(buf[c].heap, p)
  BY DEF Clean
<1>4. buf[c].pc \in {"new", "gone"} => ~Cleaned(c)' /\ buf'[c].pc # "live"
  BY DEF Cleaned
<1>5. Cleaned(c)' <=> Cleaned(c)
  BY DEF Cleaned
<1> QED
  BY <1>1, <1>2, <1>3, <1>4, <1>5 DEF ContentOf, Clean

\* The pool of a heap stays clean as pages leave it.
LEMMA PoolKept ==
    ASSUME SgInv, NEW i \in Heap, node' = node, heap' = heap, pool'[i] \subseteq pool[i],
           \A p \in pool[i] : /\ content'[i][p] = content[i][p]
                              /\ <<i, p>> \in tainted' <=> <<i, p>> \in tainted
    PROVE  PoolClean(i)'
<1>1. PoolClean(i)
  BY DEF SgInv
<1> QED
  BY <1>1 DEF PoolClean, Clean

\* Attachments nobody touches, of buffers that stay live.
LEMMA AttKept ==
    ASSUME SgInv, att' = att,
           \A a \in Att : Live(a) => /\ buf'[att[a].buf].pc = "live"
                                     /\ buf'[att[a].buf].cpu => buf[att[a].buf].cpu
    PROVE  (\A a \in Att : AttOf(a)') /\ CpuCoherent'
<1>1. CpuCoherent /\ \A a \in Att : AttOf(a)
  BY DEF SgInv
<1>2. \A a \in Att : Live(a)' <=> Live(a)
  BY DEF Live
<1>3. \A a \in Att : AttOf(a)'
  BY <1>1, <1>2 DEF AttOf
<1>4. CpuCoherent'
  BY <1>1, <1>2 DEF CpuCoherent
<1> QED
  BY <1>3, <1>4

\* Attachments of buffers that no step of b touches unless b is live before and after.
LEMMA AttOthers ==
    ASSUME SgInv, NEW b \in Buf, att' = att, Others(b),
           \/ buf[b].pc # "live"
           \/ Atts(b) = {}
           \/ buf'[b].pc = "live" /\ (buf'[b].cpu => buf[b].cpu)
    PROVE  (\A a \in Att : AttOf(a)') /\ CpuCoherent'
<1>1. ASSUME NEW a \in Att, Live(a)
      PROVE  /\ buf'[att[a].buf].pc = "live"
             /\ buf'[att[a].buf].cpu => buf[att[a].buf].cpu
  <2>1. buf[att[a].buf].pc = "live" /\ att[a].buf \in Buf
    BY <1>1, SgTypes DEF SgInv, AttOf, Live, AttType
  <2>2. att[a].buf = b => Atts(b) # {}
    BY DEF Atts
  <2> QED
    BY <2>1, <2>2 DEF Others
<1> QED
  BY <1>1, AttKept

\* A step of one buffer, or of its attachments, that moves no page and no content.
LEMMA SgQuiet ==
    ASSUME SgInv, NEW b \in Buf, UNCHANGED <<probeVars, pool, content, tainted>>,
           buf' \in [Buf -> BufType], att' \in [Att -> AttType], Others(b),
           buf'[b].heap = buf[b].heap, buf'[b].pages = buf[b].pages,
           buf'[b].pc \in {"new", "gone"} <=> buf[b].pc \in {"new", "gone"},
           \/ buf'[b].user \subseteq buf[b].user
           \/ buf'[b].user \subseteq buf[b].pages /\ buf[b].pc = "live",
           BufOf(b)', ContentOf(b)', CpuCoherent', \A a \in Att : AttOf(a)'
    PROVE  SgInv'
<1>1. TypeOK /\ RegionInv /\ PagesOwned
  BY DEF SgInv
<1>2. ProbeTypeOK' /\ RegionInv' /\ node' = node /\ heap' = heap
  BY <1>1, ProbeSame
<1>3. pool' = pool /\ content' = content /\ tainted' = tainted
  OBVIOUS
<1>4. PagesOwned'
  BY <1>1, <1>3, PagesKept DEF Others
<1>5. \A c \in Buf : BufOf(c)' /\ ContentOf(c)'
  <2>1. ASSUME NEW c \in Buf, c # b
        PROVE  BufOf(c)' /\ ContentOf(c)'
    BY <1>2, <1>3, <2>1, BufKept DEF Others
  <2> QED
    BY <2>1
<1>6. \A i \in Heap : PoolClean(i)'
  BY <1>2, <1>3, PoolKept
<1>7. TypeOK'
  BY <1>1, <1>2, <1>3 DEF TypeOK, BufType, AttType
<1> QED
  BY <1>2, <1>4, <1>5, <1>6, <1>7 DEF SgInv

\* A step of one buffer that writes to some of its pages.
LEMMA SgWrites ==
    ASSUME SgInv, NEW b \in Buf, UNCHANGED <<probeVars, pool>>,
           buf[b].pc \notin {"new", "gone"},
           NEW pages \in SUBSET buf[b].pages, NEW value \in Buf \cup {Zero, Old},
           Fill(b, pages, value), tainted' \subseteq Heap \X Page,
           \A i \in Heap, p \in Page : i # buf[b].heap \/ p \notin buf[b].pages =>
               (<<i, p>> \in tainted' <=> <<i, p>> \in tainted),
           buf' \in [Buf -> BufType], att' \in [Att -> AttType], Others(b),
           buf'[b].heap = buf[b].heap, buf'[b].pages = buf[b].pages,
           buf'[b].user = buf[b].user, buf'[b].pc \notin {"new", "gone"},
           BufOf(b)', ContentOf(b)', CpuCoherent', \A a \in Att : AttOf(a)'
    PROVE  SgInv'
<1>1. TypeOK /\ RegionInv /\ PagesOwned /\ buf[b].heap \in Heap
  BY DEF SgInv, BufOf
<1>2. ProbeTypeOK' /\ RegionInv' /\ node' = node /\ heap' = heap
  BY <1>1, ProbeSame
<1>3. /\ content' \in [Heap -> [Page -> Buf \cup {Zero, Old}]]
      /\ \A i \in Heap : \A p \in pool[i] : content'[i][p] = content[i][p]
      /\ \A c \in Buf : c # b /\ buf[c].pc \notin {"new", "gone"} /\ buf[c].heap \in Heap =>
            \A p \in buf[c].pages : content'[buf[c].heap][p] = content[buf[c].heap][p]
  BY <1>1, Filled
<1>4. PagesOwned'
  BY <1>1, PagesKept DEF Others
<1>5. Owns(b, buf[b].heap)
  BY DEF Owns
<1>6. ASSUME NEW c \in Buf, c # b
      PROVE  BufOf(c)' /\ ContentOf(c)'
  <2>1. buf'[c] = buf[c]
    BY <1>6 DEF Others
  <2>2. ASSUME buf[c].pc \notin {"new", "gone"}, NEW p \in buf[c].pages
        PROVE  /\ content'[buf[c].heap][p] = content[buf[c].heap][p]
               /\ <<buf[c].heap, p>> \in tainted' <=> <<buf[c].heap, p>> \in tainted
    <3>1. buf[c].heap \in Heap /\ Owns(c, buf[c].heap) /\ p \in Page
      BY <1>1, <2>2, SgTypes DEF SgInv, BufOf, Owns
    <3>2. buf[c].heap = buf[b].heap => p \notin buf[b].pages
      BY <1>1, <1>5, <1>6, <3>1 DEF PagesOwned
    <3>3. <<buf[c].heap, p>> \in tainted' <=> <<buf[c].heap, p>> \in tainted
      BY <3>1, <3>2
    <3>4. content'[buf[c].heap][p] = content[buf[c].heap][p]
      BY <1>3, <1>6, <2>2, <3>1
    <3> QED
      BY <3>3, <3>4
  <2> QED
    BY <1>2, <2>1, <2>2, BufKept
<1>7. ASSUME NEW i \in Heap
      PROVE  PoolClean(i)'
  <2>1. \A p \in pool[i] : p \in Page /\ (i # buf[b].heap \/ p \notin buf[b].pages)
    BY <1>1, <1>5, SgTypes DEF PagesOwned
  <2>2. \A p \in pool[i] : <<i, p>> \in tainted' <=> <<i, p>> \in tainted
    BY <2>1
  <2> QED
    BY <1>2, <1>3, <2>2, PoolKept
<1>8. TypeOK'
  BY <1>1, <1>2, <1>3 DEF TypeOK, BufType, AttType
<1> QED
  BY <1>2, <1>4, <1>6, <1>7, <1>8 DEF SgInv

\* A buffer ends, and its pages go back as clean as the heap needs them.
LEMMA SgGives ==
    ASSUME SgInv, NEW b \in Buf, UNCHANGED <<probeVars, att, tainted>>,
           buf[b].pc \notin {"new", "gone", "live"}, Give(b), Goto(b, "gone"),
           content' \in [Heap -> [Page -> Buf \cup {Zero, Old}]],
           \A i \in Heap, p \in Page :
               i # buf[b].heap \/ p \notin buf[b].pages => content'[i][p] = content[i][p],
           node[buf[b].heap].type = "carveout" =>
               \A p \in buf[b].pages :
                   <<buf[b].heap, p>> \in tainted \/ content'[buf[b].heap][p] = Zero
    PROVE  SgInv'
<1>1. TypeOK /\ RegionInv /\ PagesOwned /\ buf[b].heap \in Heap /\ buf[b].user = {}
      /\ \A c \in Buf : BufOf(c)
  BY DEF SgInv, BufOf
<1>2. ProbeTypeOK' /\ RegionInv' /\ node' = node /\ heap' = heap
  BY <1>1, ProbeSame
<1>3. PagesOwned' /\ pool' \in [Heap -> SUBSET Page]
  BY <1>1, PagesGiven
<1>4. buf' \in [Buf -> BufType] /\ Others(b) /\ buf'[b].pc = "gone" /\ buf'[b].user = {}
  BY <1>1, GotoBuf DEF BufPcs
<1>5. Owns(b, buf[b].heap)
  BY DEF Owns
<1>6. ASSUME NEW c \in Buf
      PROVE  BufOf(c)' /\ ContentOf(c)'
  <2>1. CASE c = b
    BY <1>4, <2>1 DEF BufOf, ContentOf, Cleaned
  <2>2. CASE c # b
    <3>1. ASSUME buf[c].pc \notin {"new", "gone"}, NEW p \in buf[c].pages
          PROVE  content'[buf[c].heap][p] = content[buf[c].heap][p]
      <4>1. buf[c].heap \in Heap /\ Owns(c, buf[c].heap) /\ p \in Page
        BY <1>1, <3>1, SgTypes DEF BufOf, Owns
      <4>2. buf[c].heap = buf[b].heap => p \notin buf[b].pages
        BY <1>1, <1>5, <2>2, <4>1 DEF PagesOwned
      <4> QED
        BY <4>1, <4>2
    <3> QED
      BY <1>2, <1>4, <2>2, <3>1, BufKept DEF Others
  <2> QED
    BY <2>1, <2>2
<1>7. ASSUME NEW i \in Heap
      PROVE  PoolClean(i)'
  <2>1. \A p \in pool[i] : content'[i][p] = content[i][p]
    BY <1>1, <1>5, SgTypes DEF PagesOwned
  <2>2. PoolClean(i)
    BY DEF SgInv
  <2>6. pool \in [Heap -> SUBSET Page]
        /\ pool' = [pool EXCEPT ![buf[b].heap] = pool[buf[b].heap] \cup buf[b].pages]
    BY <1>1 DEF Give, TypeOK
  <2>3. pool'[i] = pool[i] \/ (i = buf[b].heap /\ pool'[i] = pool[i] \cup buf[b].pages)
    BY <1>1, <2>6
  <2>4. CASE pool'[i] = pool[i]
    BY <1>2, <2>1, <2>2, <2>4 DEF PoolClean, Clean
  <2>5. CASE i = buf[b].heap /\ pool'[i] = pool[i] \cup buf[b].pages
    <3> SUFFICES ASSUME node[i].type = "carveout", heap[i] = "created", NEW p \in pool'[i]
                 PROVE  Clean(i, p)'
      BY <1>2 DEF PoolClean
    <3>1. CASE p \in pool[i]
      BY <2>1, <2>2, <3>1 DEF PoolClean, Clean
    <3>2. CASE p \in buf[b].pages
      BY <1>2, <2>5, <3>2 DEF Clean
    <3> QED
      BY <2>5, <3>1, <3>2
  <2> QED
    BY <2>3, <2>4, <2>5
<1>8. (\A a \in Att : AttOf(a)') /\ CpuCoherent'
  BY <1>4, AttOthers
<1>9. TypeOK'
  BY <1>1, <1>2, <1>3, <1>4 DEF TypeOK, BufType
<1> QED
  BY <1>2, <1>3, <1>6, <1>7, <1>8, <1>9 DEF SgInv

\* A buffer begins with pages of a heap, clean ones if it is a carveout.
LEMMA SgTakes ==
    ASSUME SgInv, NEW b \in Buf, NEW i \in Heap, buf[b].pc = "new", heap[i] = "created",
           UNCHANGED <<probeVars, content, att, tainted>>,
           \/ node[i].type = "carveout" /\ Take(b, i, "export")
           \/ node[i].type = "cma" /\ Take(b, i, "clear")
    PROVE  SgInv'
<1>1. TypeOK /\ RegionInv /\ PagesOwned /\ (\A c \in Buf : BufOf(c)) /\ PoolClean(i)
  BY DEF SgInv
<1>2. ProbeTypeOK' /\ RegionInv' /\ node' = node /\ heap' = heap
  BY <1>1, ProbeSame
<1>3. PICK pc \in {"export", "clear"} :
          /\ pc = "export" => node[i].type = "carveout"
          /\ pc = "clear" => node[i].type = "cma"
          /\ Take(b, i, pc)
  OBVIOUS
<1>4. /\ PagesOwned' /\ pool' \in [Heap -> SUBSET Page] /\ buf' \in [Buf -> BufType]
      /\ Others(b) /\ buf'[b].pc = pc /\ buf'[b].heap = i /\ buf'[b].pages \subseteq pool[i]
      /\ buf'[b].user = {} /\ ~buf'[b].cpu
      /\ \A j \in Heap : pool'[j] \subseteq pool[j]
  BY <1>1, <1>3, PagesTaken DEF BufPcs
<1>5. BufOf(b)'
  BY <1>2, <1>3, <1>4 DEF BufOf
<1>6. ContentOf(b)'
  <2>1. CASE pc = "export"
    <3>1. \A p \in pool[i] : Clean(i, p)
      BY <1>1, <1>3, <2>1 DEF PoolClean
    <3> QED
      BY <1>4, <2>1, <3>1 DEF ContentOf, Clean
  <2>2. CASE pc = "clear"
    BY <1>4, <2>2 DEF ContentOf, Cleaned
  <2> QED
    BY <2>1, <2>2
<1>7. \A c \in Buf : BufOf(c)' /\ ContentOf(c)'
  <2>1. ASSUME NEW c \in Buf, c # b
        PROVE  BufOf(c)' /\ ContentOf(c)'
    BY <1>2, <1>4, <2>1, BufKept DEF Others
  <2> QED
    BY <1>5, <1>6, <2>1
<1>8. \A j \in Heap : PoolClean(j)'
  BY <1>2, <1>4, PoolKept
<1>9. (\A a \in Att : AttOf(a)') /\ CpuCoherent'
  BY <1>4, AttOthers
<1>10. TypeOK'
  BY <1>1, <1>2, <1>4 DEF TypeOK, BufType
<1> QED
  BY <1>2, <1>4, <1>7, <1>8, <1>9, <1>10 DEF SgInv

\* carveout_heap_allocate and cma_heap_allocate.
LEMMA SgAlloc ==
    ASSUME SgInv, NEW b \in Buf, Alloc(b)
    PROVE  SgInv'
<1>1. TypeOK /\ RegionInv /\ PagesOwned /\ BufOf(b) /\ ContentOf(b)
  BY DEF SgInv
<1>2. buf \in [Buf -> BufType] /\ att \in [Att -> AttType]
      /\ content \in [Heap -> [Page -> Buf \cup {Zero, Old}]] /\ tainted \subseteq Heap \X Page
  BY <1>1 DEF TypeOK, BufType, AttType
<1>3. ASSUME NEW i \in Heap, AllocCarveout(b, i) \/ AllocCma(b, i)
      PROVE  SgInv'
  BY <1>3, SgTakes DEF AllocCarveout, AllocCma
<1>4. CASE AllocFail(b)
  <2>1. buf[b].pc = "new" /\ Goto(b, "gone") /\ att' = att
        /\ UNCHANGED <<probeVars, pool, content, tainted>>
    BY <1>4 DEF AllocFail
  <2>2. /\ buf' \in [Buf -> BufType] /\ Others(b) /\ buf'[b].pc = "gone"
        /\ buf'[b].heap = buf[b].heap /\ buf'[b].pages = buf[b].pages /\ buf'[b].user = buf[b].user
    BY <1>1, <2>1, GotoBuf DEF BufPcs
  <2>3. BufOf(b)' /\ ContentOf(b)'
    BY <1>1, <2>1, <2>2 DEF BufOf, ContentOf, Cleaned
  <2>4. (\A a \in Att : AttOf(a)') /\ CpuCoherent'
    BY <2>1, <2>2, AttOthers
  <2> QED
    BY <1>2, <2>1, <2>2, <2>3, <2>4, SgQuiet
<1>5. CASE ClearPages(b)
  <2>1. buf[b].pc = "clear" /\ Goto(b, "export") /\ att' = att /\ tainted' = tainted
        /\ Fill(b, buf[b].pages, Zero) /\ UNCHANGED <<probeVars, pool>>
    BY <1>5 DEF ClearPages
  <2>2. /\ buf' \in [Buf -> BufType] /\ Others(b) /\ buf'[b].pc = "export"
        /\ buf'[b].heap = buf[b].heap /\ buf'[b].pages = buf[b].pages /\ buf'[b].user = buf[b].user
    BY <1>1, <2>1, GotoBuf DEF BufPcs
  <2>3. BufOf(b)'
    BY <1>1, <2>1, <2>2 DEF BufOf
  <2>4. buf[b].heap \in Heap /\ buf[b].pages \subseteq Page
    BY <1>1, <2>1, SgTypes DEF BufOf
  <2>5. \A p \in buf[b].pages : content'[buf[b].heap][p] = Zero
    <3>1. Zero \in Buf \cup {Zero, Old} /\ buf[b].pages \in SUBSET buf[b].pages
      OBVIOUS
    <3>2. \A p \in Page : content'[buf[b].heap][p] =
                             IF p \in buf[b].pages THEN Zero ELSE content[buf[b].heap][p]
      BY <1>1, <2>1, <2>4, <3>1, Filled
    <3> QED
      BY <2>4, <3>2
  <2>6. ContentOf(b)'
    BY <2>2, <2>5 DEF ContentOf, Clean
  <2>7. (\A a \in Att : AttOf(a)') /\ CpuCoherent'
    BY <2>1, <2>2, AttOthers
  <2> QED
    BY <1>2, <2>1, <2>2, <2>3, <2>6, <2>7, SgWrites
<1>6. CASE ClearStop(b)
  <2>1. PICK cleared \in ClearedFirst(b) : Fill(b, cleared, Zero)
    BY <1>6 DEF ClearStop
  <2>2. buf[b].pc = "clear" /\ Give(b) /\ Goto(b, "gone") /\ UNCHANGED <<probeVars, att, tainted>>
    BY <1>6 DEF ClearStop
  <2>3. cleared \in SUBSET buf[b].pages /\ buf[b].heap \in Heap /\ node[buf[b].heap].type = "cma"
    BY <1>1, <2>1, <2>2 DEF ClearedFirst, BufOf
  <2>4. content' \in [Heap -> [Page -> Buf \cup {Zero, Old}]]
        /\ \A i \in Heap, p \in Page :
              i # buf[b].heap \/ p \notin buf[b].pages => content'[i][p] = content[i][p]
    BY <1>1, <2>1, <2>2, <2>3, Filled
  <2> QED
    BY <2>2, <2>3, <2>4, SgGives
<1>7. CASE Export(b)
  <2>1. buf[b].pc = "export" /\ Goto(b, "live") /\ att' = att
        /\ UNCHANGED <<probeVars, pool, content, tainted>>
    BY <1>7 DEF Export
  <2>2. /\ buf' \in [Buf -> BufType] /\ Others(b) /\ buf'[b].pc = "live"
        /\ buf'[b].heap = buf[b].heap /\ buf'[b].pages = buf[b].pages /\ buf'[b].user = buf[b].user
    BY <1>1, <2>1, GotoBuf DEF BufPcs
  <2>3. BufOf(b)'
    BY <1>1, <2>1, <2>2 DEF BufOf
  <2>4. \A p \in buf[b].pages : Clean(buf[b].heap, p)
    BY <1>1, <2>1 DEF ContentOf, Cleaned
  <2>5. ContentOf(b)'
    BY <2>1, <2>2, <2>4 DEF ContentOf, Clean
  <2>6. (\A a \in Att : AttOf(a)') /\ CpuCoherent'
    BY <2>1, <2>2, AttOthers
  <2> QED
    BY <1>2, <2>1, <2>2, <2>3, <2>5, <2>6, SgQuiet
<1>8. CASE ExportFail(b)
  <2>1. buf[b].pc = "export" /\ Give(b) /\ Goto(b, "gone")
        /\ UNCHANGED <<probeVars, content, att, tainted>>
    BY <1>8 DEF ExportFail
  <2>2. \A p \in buf[b].pages : Clean(buf[b].heap, p)
    BY <1>1, <2>1 DEF ContentOf, Cleaned
  <2>3. \A p \in buf[b].pages :
            <<buf[b].heap, p>> \in tainted \/ content'[buf[b].heap][p] = Zero
    BY <2>1, <2>2 DEF Clean
  <2>4. content' = content
    BY <2>1
  <2> QED
    BY <1>2, <2>1, <2>3, <2>4, SgGives
<1> QED
  BY <1>3, <1>4, <1>5, <1>6, <1>7, <1>8 DEF Alloc

\* carveout_heap_free and cma_heap_free.
LEMMA SgFree ==
    ASSUME SgInv, NEW b \in Buf, Free(b)
    PROVE  SgInv'
<1>1. TypeOK /\ RegionInv /\ PagesOwned /\ BufOf(b) /\ ContentOf(b)
  BY DEF SgInv
<1>2. /\ buf \in [Buf -> BufType] /\ att \in [Att -> AttType]
      /\ content \in [Heap -> [Page -> Buf \cup {Zero, Old}]] /\ tainted \subseteq Heap \X Page
      /\ buf[b].pages \subseteq Page
  BY <1>1, SgTypes DEF TypeOK, BufType, AttType
<1>3. CASE Release(b)
  <2>1. PICK pc \in {"zero", "free"} :
            /\ Goto(b, pc)
            /\ pc = "zero" <=> node[buf[b].heap].type = "carveout"
    BY <1>3 DEF Release
  <2>2. buf[b].pc = "live" /\ buf[b].user = {} /\ Atts(b) = {} /\ att' = att
        /\ UNCHANGED <<probeVars, pool, content, tainted>> /\ node' = node
    BY <1>3 DEF Release, probeVars
  <2>3. /\ buf' \in [Buf -> BufType] /\ Others(b) /\ buf'[b].pc = pc
        /\ buf'[b].heap = buf[b].heap /\ buf'[b].pages = buf[b].pages /\ buf'[b].user = buf[b].user
    BY <1>1, <2>1, GotoBuf DEF BufPcs
  <2>4. BufOf(b)'
    BY <1>1, <2>1, <2>2, <2>3 DEF BufOf
  <2>5. ContentOf(b)'
    BY <2>1, <2>2, <2>3 DEF ContentOf, Cleaned
  <2>6. (\A a \in Att : AttOf(a)') /\ CpuCoherent'
    BY <2>2, <2>3, AttOthers
  <2> QED
    BY <1>2, <2>2, <2>3, <2>4, <2>5, <2>6, SgQuiet
<1>4. ASSUME buf[b].pc = "zero", NEW cleared \in SUBSET buf[b].pages, Fill(b, cleared, Zero),
             Goto(b, "free"), UNCHANGED <<probeVars, pool, att>>,
             tainted' = (tainted \ ({buf[b].heap} \X cleared))
                           \cup ({buf[b].heap} \X (buf[b].pages \ cleared))
      PROVE  SgInv'
  <2>1. /\ buf[b].heap \in Heap /\ Zero \in Buf \cup {Zero, Old}
        /\ buf[b].pc \notin {"new", "gone"} /\ Fill(b, cleared, Zero)
        /\ cleared \in SUBSET buf[b].pages
    BY <1>1, <1>4 DEF BufOf
  <2>2. /\ buf' \in [Buf -> BufType] /\ Others(b) /\ buf'[b].pc = "free"
        /\ buf'[b].heap = buf[b].heap /\ buf'[b].pages = buf[b].pages /\ buf'[b].user = buf[b].user
    BY <1>1, <1>4, GotoBuf DEF BufPcs
  <2>3. \A p \in Page : content'[buf[b].heap][p] =
                           IF p \in cleared THEN Zero ELSE content[buf[b].heap][p]
    BY <1>1, <2>1, Filled
  <2>4. ASSUME NEW p \in buf[b].pages
        PROVE  <<buf[b].heap, p>> \in tainted' \/ content'[buf[b].heap][p] = Zero
    <3>1. CASE p \in cleared
      BY <1>2, <2>3, <3>1
    <3>2. CASE p \notin cleared
      BY <1>4, <3>2
    <3> QED
      BY <3>1, <3>2
  <2>5. ContentOf(b)'
    BY <2>2, <2>4 DEF ContentOf, Clean
  <2>6. BufOf(b)'
    BY <1>1, <1>4, <2>2 DEF BufOf
  <2>7. (\A a \in Att : AttOf(a)') /\ CpuCoherent'
    BY <1>4, <2>2, AttOthers
  <2>8. tainted' \subseteq Heap \X Page
    BY <1>2, <1>4, <2>1
  <2>9. \A i \in Heap, p \in Page : i # buf[b].heap \/ p \notin buf[b].pages =>
            (<<i, p>> \in tainted' <=> <<i, p>> \in tainted)
    BY <1>4
  <2>10. UNCHANGED <<probeVars, pool>> /\ att' \in [Att -> AttType]
    BY <1>2, <1>4
  <2> QED
    BY <1>4, <2>1, <2>2, <2>5, <2>6, <2>7, <2>8, <2>9, <2>10, SgWrites
<1>5. CASE ReleaseZero(b)
  <2>1. (tainted \ ({buf[b].heap} \X buf[b].pages)) =
            (tainted \ ({buf[b].heap} \X buf[b].pages))
               \cup ({buf[b].heap} \X (buf[b].pages \ buf[b].pages))
    OBVIOUS
  <2> QED
    BY <1>4, <1>5, <2>1 DEF ReleaseZero
<1>6. CASE ReleaseZeroFail(b)
  <2>1. PICK cleared \in ClearedFirst(b) :
            /\ Fill(b, cleared, Zero)
            /\ tainted' = (tainted \ ({buf[b].heap} \X cleared))
                             \cup ({buf[b].heap} \X (buf[b].pages \ cleared))
    BY <1>6 DEF ReleaseZeroFail
  <2>2. cleared \in SUBSET buf[b].pages
    BY DEF ClearedFirst
  <2> QED
    BY <1>4, <1>6, <2>1, <2>2 DEF ReleaseZeroFail
<1>7. CASE ReleasePages(b)
  <2>1. buf[b].pc = "free" /\ Give(b) /\ Goto(b, "gone")
        /\ UNCHANGED <<probeVars, content, att, tainted>>
    BY <1>7 DEF ReleasePages
  <2>2. node[buf[b].heap].type = "carveout" =>
            \A p \in buf[b].pages :
                <<buf[b].heap, p>> \in tainted \/ content'[buf[b].heap][p] = Zero
    BY <1>1, <2>1 DEF ContentOf, Cleaned, Clean
  <2>3. content' = content
    BY <2>1
  <2> QED
    BY <1>2, <2>1, <2>2, <2>3, SgGives
<1> QED
  BY <1>3, <1>5, <1>6, <1>7 DEF Free

\* What the CPU does with a buffer.
LEMMA SgCpu ==
    ASSUME SgInv, NEW b \in Buf, Cpu(b)
    PROVE  SgInv'
<1>1. TypeOK /\ RegionInv /\ PagesOwned /\ BufOf(b) /\ ContentOf(b) /\ CpuCoherent
      /\ \A a \in Att : AttOf(a)
  BY DEF SgInv
<1>2. /\ buf \in [Buf -> BufType] /\ att \in [Att -> AttType]
      /\ content \in [Heap -> [Page -> Buf \cup {Zero, Old}]] /\ tainted \subseteq Heap \X Page
      /\ buf[b].pages \subseteq Page /\ MaxVmap \in Nat
  BY <1>1, SgTypes, BufferAssumption DEF TypeOK, BufType, AttType
<1>3. ASSUME UNCHANGED <<probeVars, pool, content, tainted>>, buf[b].pc = "live",
             buf' \in [Buf -> BufType], Others(b), buf'[b].pc = "live",
             buf'[b].heap = buf[b].heap, buf'[b].pages = buf[b].pages,
             buf'[b].user \in {{}, buf[b].user, buf[b].pages},
             att' \in [Att -> AttType], CpuCoherent', \A a \in Att : AttOf(a)'
      PROVE  SgInv'
  <2>1. node' = node
    BY <1>3 DEF probeVars
  <2>2. BufOf(b)'
    BY <1>1, <1>3, <2>1 DEF BufOf
  <2>3. ContentOf(b)'
    BY <1>1, <1>3 DEF ContentOf, Cleaned, Clean
  <2>4. \/ buf'[b].user \subseteq buf[b].user
        \/ buf'[b].user \subseteq buf[b].pages /\ buf[b].pc = "live"
    BY <1>3
  <2> QED
    BY <1>3, <2>2, <2>3, <2>4, SgQuiet
<1>4. ASSUME UNCHANGED <<probeVars, pool, content, att, tainted>>, buf[b].pc = "live",
             buf' \in [Buf -> BufType], Others(b), buf'[b].pc = "live",
             buf'[b].heap = buf[b].heap, buf'[b].pages = buf[b].pages,
             buf'[b].user \in {{}, buf[b].user, buf[b].pages},
             buf'[b].cpu => buf[b].cpu
      PROVE  SgInv'
  <2>1. (\A a \in Att : AttOf(a)') /\ CpuCoherent'
    BY <1>4, AttOthers
  <2> QED
    BY <1>2, <1>3, <1>4, <2>1
<1>5. CASE BeginCpuAccess(b)
  <2>1. /\ buf' \in [Buf -> BufType] /\ Others(b) /\ buf'[b].pc = "live" /\ buf[b].pc = "live"
        /\ buf'[b].heap = buf[b].heap /\ buf'[b].pages = buf[b].pages /\ buf'[b].user = buf[b].user
    BY <1>2, <1>5 DEF BeginCpuAccess, BufType, Others
  <2>2. att' = [a \in Att |-> IF a \in Synced(b) THEN [att[a] EXCEPT !.pending = FALSE] ELSE att[a]]
    BY <1>5 DEF BeginCpuAccess
  <2>3. ASSUME NEW a \in Att
        PROVE  /\ att'[a] \in AttType /\ att'[a].buf = att[a].buf /\ att'[a].map = att[a].map
               /\ att'[a].pending => att[a].pending /\ a \notin Synced(b)
    <3>1. att[a] \in AttType
      BY <1>2
    <3>2. CASE a \in Synced(b)
      BY <2>2, <3>1, <3>2 DEF AttType
    <3>3. CASE a \notin Synced(b)
      BY <2>2, <3>1, <3>3
    <3> QED
      BY <3>2, <3>3
  <2>4. att' \in [Att -> AttType]
    BY <2>2, <2>3
  <2>5. \A c \in Buf : buf'[c].pc = buf[c].pc /\ (c # b => buf'[c].cpu = buf[c].cpu)
    BY <2>1 DEF Others
  <2>6. \A a \in Att : att[a].buf \in Buf \cup {None}
    BY <1>2 DEF AttType
  <2>7. \A a \in Att : AttOf(a)'
    BY <1>1, <2>3, <2>5, <2>6 DEF AttOf, Live
  <2>8. CpuCoherent'
    BY <1>1, <2>3, <2>5, <2>6 DEF CpuCoherent, Live, Synced, Atts
  <2> QED
    BY <1>3, <1>5, <2>1, <2>4, <2>7, <2>8 DEF BeginCpuAccess
<1>6. CASE EndCpuAccess(b)
  <2>1. /\ buf' \in [Buf -> BufType] /\ Others(b) /\ buf'[b].pc = "live" /\ ~buf'[b].cpu
        /\ buf'[b].heap = buf[b].heap /\ buf'[b].pages = buf[b].pages /\ buf'[b].user = buf[b].user
    BY <1>2, <1>6 DEF EndCpuAccess, BufType, Others
  <2> QED
    BY <1>4, <1>6, <2>1 DEF EndCpuAccess
<1>7. CASE Vmap(b)
  <2>1. buf[b].vmap_cnt + 1 \in 0 .. MaxVmap
    BY <1>2, <1>7 DEF Vmap, BufType
  <2>2. /\ buf' \in [Buf -> BufType] /\ Others(b) /\ buf'[b].pc = "live" /\ buf'[b].cpu = buf[b].cpu
        /\ buf'[b].heap = buf[b].heap /\ buf'[b].pages = buf[b].pages /\ buf'[b].user = buf[b].user
    BY <1>2, <1>7, <2>1 DEF Vmap, BufType, Others
  <2> QED
    BY <1>4, <1>7, <2>2 DEF Vmap
<1>8. CASE Vunmap(b)
  <2>1. buf[b].vmap_cnt - 1 \in 0 .. MaxVmap
    BY <1>2, <1>8 DEF Vunmap, BufType
  <2>2. /\ buf' \in [Buf -> BufType] /\ Others(b) /\ buf'[b].pc = "live" /\ buf'[b].cpu = buf[b].cpu
        /\ buf'[b].heap = buf[b].heap /\ buf'[b].pages = buf[b].pages /\ buf'[b].user = buf[b].user
    BY <1>2, <1>8, <2>1 DEF Vunmap, BufType, Others
  <2> QED
    BY <1>4, <1>8, <2>2 DEF Vunmap
<1>9. CASE Mmap(b)
  <2>1. /\ buf' \in [Buf -> BufType] /\ Others(b) /\ buf'[b].pc = "live" /\ buf'[b].cpu = buf[b].cpu
        /\ buf'[b].heap = buf[b].heap /\ buf'[b].pages = buf[b].pages /\ buf'[b].user = buf[b].pages
    BY <1>2, <1>9 DEF Mmap, BufType, Others
  <2> QED
    BY <1>4, <1>9, <2>1 DEF Mmap
<1>10. CASE Munmap(b)
  <2>1. /\ buf' \in [Buf -> BufType] /\ Others(b) /\ buf'[b].pc = "live" /\ buf'[b].cpu = buf[b].cpu
        /\ buf'[b].heap = buf[b].heap /\ buf'[b].pages = buf[b].pages /\ buf'[b].user = {}
    BY <1>2, <1>10 DEF Munmap, BufType, Others
  <2> QED
    BY <1>4, <1>10, <2>1 DEF Munmap
<1>11. CASE CpuWrite(b)
  <2>1. /\ buf[b].pc = "live" /\ Fill(b, buf[b].pages, b) /\ buf' = buf /\ att' = att
        /\ tainted' = tainted /\ UNCHANGED <<probeVars, pool>> /\ node' = node
    BY <1>11 DEF CpuWrite, probeVars
  <2>2. /\ buf[b].heap \in Heap /\ b \in Buf \cup {Zero, Old}
        /\ buf[b].pages \in SUBSET buf[b].pages
        /\ buf[b].pc \notin {"new", "gone"} /\ Fill(b, buf[b].pages, b)
    BY <1>1, <2>1 DEF BufOf
  <2>3. \A p \in Page : content'[buf[b].heap][p] =
                           IF p \in buf[b].pages THEN b ELSE content[buf[b].heap][p]
    BY <1>1, <2>2, Filled
  <2>4. ContentOf(b)'
    BY <1>2, <2>1, <2>3 DEF ContentOf, Cleaned
  <2>5. BufOf(b)'
    BY <1>1, <2>1 DEF BufOf
  <2>6. Others(b) /\ buf' \in [Buf -> BufType] /\ att' \in [Att -> AttType]
    BY <1>2, <2>1 DEF Others
  <2>7. (\A a \in Att : AttOf(a)') /\ CpuCoherent'
    BY <2>1, <2>6, AttOthers
  <2> QED
    BY <1>2, <2>1, <2>2, <2>4, <2>5, <2>6, <2>7, SgWrites
<1> QED
  BY <1>5, <1>6, <1>7, <1>8, <1>9, <1>10, <1>11 DEF Cpu

\* The attachments of a buffer, each operation under its lock.
LEMMA SgDevice ==
    ASSUME SgInv, NEW a \in Att, Device(a)
    PROVE  SgInv'
<1>1. TypeOK /\ RegionInv /\ PagesOwned /\ CpuCoherent
      /\ (\A b \in Buf : BufOf(b) /\ ContentOf(b)) /\ (\A d \in Att : AttOf(d))
  BY DEF SgInv
<1>2. /\ buf \in [Buf -> BufType] /\ att \in [Att -> AttType]
      /\ content \in [Heap -> [Page -> Buf \cup {Zero, Old}]] /\ tainted \subseteq Heap \X Page
      /\ None \notin Buf /\ \A b \in Buf : buf[b].pages \subseteq Page
  BY <1>1, SgTypes DEF TypeOK
<1>3. \A d \in Att : att[d] \in AttType /\ att[d].buf \in Buf \cup {None}
  BY <1>2 DEF AttType
<1>4. ASSUME NEW b \in Buf, buf[b].pc = "live", buf' = buf,
             UNCHANGED <<probeVars, pool, content, tainted>>,
             att' \in [Att -> AttType], \A d \in Att \ {a} : att'[d] = att[d],
             AttOf(a)', Live(a)' /\ buf'[att'[a].buf].cpu /\ att'[a].pending => att'[a].map # "op"
      PROVE  SgInv'
  <2>1. \A d \in Att : AttOf(d)'
    <3>1. ASSUME NEW d \in Att, d # a
          PROVE  AttOf(d)'
      BY <1>1, <1>4, <3>1 DEF AttOf, Live
    <3> QED
      BY <1>4, <3>1
  <2>2. CpuCoherent'
    <3>1. ASSUME NEW d \in Att, d # a, Live(d)', buf'[att'[d].buf].cpu, att'[d].pending
          PROVE  att'[d].map # "op"
      BY <1>1, <1>4, <3>1 DEF CpuCoherent, Live
    <3> QED
      BY <1>4, <3>1 DEF CpuCoherent
  <2>3. node' = node
    BY <1>4 DEF probeVars
  <2>4. BufOf(b)' /\ ContentOf(b)'
    BY <1>1, <1>4, <2>3, BufKept
  <2>5. Others(b) /\ buf' \in [Buf -> BufType]
    BY <1>2, <1>4 DEF Others
  <2> QED
    BY <1>4, <2>1, <2>2, <2>4, <2>5, SgQuiet
<1>5. Live(a) => att[a].buf \in Buf /\ buf[att[a].buf].pc = "live"
  BY <1>1, <1>3 DEF AttOf, Live
<1>6. ASSUME NEW b \in Buf, Attach(a, b)
      PROVE  SgInv'
  <2>1. /\ att' \in [Att -> AttType] /\ att'[a].buf = b /\ att'[a].map = "none" /\ ~att'[a].pending
        /\ \A d \in Att \ {a} : att'[d] = att[d]
    BY <1>2, <1>6 DEF Attach, NewAtt, AttType
  <2>2. AttOf(a)'
    BY <1>6, <2>1 DEF Attach, AttOf, Live
  <2> QED
    BY <1>4, <1>6, <2>1, <2>2 DEF Attach
<1>7. CASE Detach(a)
  <2>1. /\ att' \in [Att -> AttType] /\ att'[a].buf = None /\ att'[a].map = "none" /\ ~att'[a].pending
        /\ \A d \in Att \ {a} : att'[d] = att[d]
    BY <1>2, <1>7 DEF Detach, NewAtt, AttType
  <2>2. AttOf(a)'
    BY <2>1 DEF AttOf, Live
  <2> QED
    BY <1>4, <1>5, <1>7, <2>1, <2>2 DEF Detach
<1>8. CASE Map(a)
  <2>1. /\ att' \in [Att -> AttType] /\ att'[a].buf = att[a].buf /\ att'[a].map = "op"
        /\ att'[a].pending = att[a].pending
        /\ \A d \in Att \ {a} : att'[d] = att[d]
    BY <1>2, <1>8 DEF Map, AttType
  <2>2. ~att[a].pending /\ Live(a)
    BY <1>1, <1>8 DEF Map, AttOf
  <2>3. AttOf(a)'
    BY <1>5, <1>8, <2>1, <2>2 DEF Map, AttOf, Live
  <2> QED
    BY <1>4, <1>5, <1>8, <2>1, <2>2, <2>3 DEF Map
<1>9. CASE Unmap(a)
  <2>1. /\ att' \in [Att -> AttType] /\ att'[a].buf = att[a].buf /\ att'[a].map = "none"
        /\ ~att'[a].pending
        /\ \A d \in Att \ {a} : att'[d] = att[d]
    BY <1>2, <1>9 DEF Unmap, AttType
  <2>2. AttOf(a)'
    BY <1>5, <1>9, <2>1 DEF Unmap, AttOf, Live
  <2> QED
    BY <1>4, <1>5, <1>9, <2>1, <2>2 DEF Unmap
<1>10. CASE MapPriv(a)
  <2>1. /\ att' \in [Att -> AttType] /\ att'[a].buf = att[a].buf /\ att'[a].map = "priv"
        /\ \A d \in Att \ {a} : att'[d] = att[d]
    BY <1>2, <1>10 DEF MapPriv, AttType
  <2>2. AttOf(a)'
    BY <1>5, <1>10, <2>1 DEF MapPriv, AttOf, Live
  <2> QED
    BY <1>4, <1>5, <1>10, <2>1, <2>2 DEF MapPriv
<1>11. CASE UnmapPriv(a)
  <2>1. /\ att' \in [Att -> AttType] /\ att'[a].buf = att[a].buf /\ att'[a].map = "none"
        /\ ~att'[a].pending
        /\ \A d \in Att \ {a} : att'[d] = att[d]
    BY <1>2, <1>11 DEF UnmapPriv, AttType
  <2>2. AttOf(a)'
    BY <1>5, <1>11, <2>1 DEF UnmapPriv, AttOf, Live
  <2> QED
    BY <1>4, <1>5, <1>11, <2>1, <2>2 DEF UnmapPriv
<1>12. CASE DeviceWrite(a)
  <2>1. PICK b \in Buf : b = att[a].buf /\ buf[b].pc = "live" /\ Live(a)
    BY <1>5, <1>12 DEF DeviceWrite
  <2>2. Fill(b, buf[b].pages, b) /\ buf' = buf /\ tainted' = tainted /\ UNCHANGED <<probeVars, pool>>
        /\ node' = node /\ ~buf[b].cpu /\ att[a].map # "none"
    BY <1>12, <2>1 DEF DeviceWrite, probeVars
  <2>3. /\ att' \in [Att -> AttType] /\ att'[a].buf = b /\ att'[a].map = att[a].map
        /\ \A d \in Att \ {a} : att'[d] = att[d]
    BY <1>2, <1>12, <2>1 DEF DeviceWrite, AttType
  <2>4. /\ buf[b].heap \in Heap /\ b \in Buf \cup {Zero, Old}
        /\ buf[b].pages \in SUBSET buf[b].pages /\ buf[b].pc \notin {"new", "gone"}
        /\ Fill(b, buf[b].pages, b)
    BY <1>1, <2>1, <2>2 DEF BufOf
  <2>5. \A p \in Page : content'[buf[b].heap][p] =
                           IF p \in buf[b].pages THEN b ELSE content[buf[b].heap][p]
    BY <1>1, <2>4, Filled
  <2>6. \A p \in buf[b].pages : content'[buf[b].heap][p] = b
    BY <1>2, <2>1, <2>5
  <2>7. ContentOf(b)' /\ BufOf(b)'
    BY <1>1, <2>1, <2>2, <2>6 DEF ContentOf, Cleaned, BufOf
  <2>8. \A d \in Att : AttOf(d)'
    <3>1. AttOf(a)'
      BY <2>1, <2>2, <2>3 DEF AttOf, Live
    <3>2. ASSUME NEW d \in Att, d # a
          PROVE  AttOf(d)'
      BY <1>1, <2>2, <2>3, <3>2 DEF AttOf, Live
    <3> QED
      BY <3>1, <3>2
  <2>9. CpuCoherent'
    <3>1. ASSUME NEW d \in Att, d # a, Live(d)', buf'[att'[d].buf].cpu, att'[d].pending
          PROVE  att'[d].map # "op"
      BY <1>1, <2>2, <2>3, <3>1 DEF CpuCoherent, Live
    <3>2. ~buf'[att'[a].buf].cpu
      BY <2>2, <2>3
    <3> QED
      BY <3>1, <3>2 DEF CpuCoherent
  <2>10. buf' \in [Buf -> BufType] /\ \A c \in Buf : Others(c)
    BY <1>2, <2>2 DEF Others
  <2> QED
    BY <1>2, <2>2, <2>3, <2>4, <2>7, <2>8, <2>9, <2>10, SgWrites
<1> QED
  BY <1>6, <1>7, <1>8, <1>9, <1>10, <1>11, <1>12 DEF Device

\* Probe and the creation of a heap, which clears a carveout.
LEMMA SgProbe ==
    ASSUME SgInv, (ProbeNext /\ UNCHANGED bufVars) \/ Create
    PROVE  SgInv'
<1>1. TypeOK /\ RegionInv /\ PagesOwned /\ CpuCoherent
      /\ (\A b \in Buf : BufOf(b) /\ ContentOf(b)) /\ (\A a \in Att : AttOf(a))
      /\ \A i \in Heap : PoolClean(i)
  BY DEF SgInv
<1>2. ProbeTypeOK' /\ RegionInv' /\ node' = node
  BY <1>1, RegionStep DEF TypeOK, Create
<1>3. pool' = pool /\ buf' = buf /\ att' = att /\ tainted' = tainted
  BY DEF bufVars, Create
<1>4. content \in [Heap -> [Page -> Buf \cup {Zero, Old}]] /\ heap \in [Heap -> {"none", "created", "failed"}]
      /\ \A i \in Heap : pool[i] \subseteq Page
  BY <1>1, SgTypes DEF TypeOK, ProbeTypeOK
<1>5. /\ content' \in [Heap -> [Page -> Buf \cup {Zero, Old}]]
      /\ \A i \in Heap, p \in Page : content'[i][p] = content[i][p] \/ content'[i][p] = Zero
  <2>1. CASE content' = content
    BY <1>4, <2>1
  <2>2. CASE content' # content
    <3>1. content' = [content EXCEPT ![idx] = [p \in Page |-> Zero]]
      BY <2>2 DEF bufVars, Create
    <3>2. [p \in Page |-> Zero] \in [Page -> Buf \cup {Zero, Old}]
      OBVIOUS
    <3> QED
      BY <1>4, <3>1, <3>2
  <2> QED
    BY <2>1, <2>2
<1>6. ASSUME NEW i \in Heap, node[i].type = "carveout", heap'[i] = "created", heap[i] # "created"
      PROVE  \A p \in Page : content'[i][p] = Zero
  <2>1. Create /\ i = idx
    <3>1. ~(ParseNode \/ ParseFail \/ ParseNoRegion \/ RegionInit \/ RegionFail \/ RegionBadAddress
               \/ ReleaseRegion \/ ReleaseDone \/ SkipHeap)
      BY <1>6 DEF ParseNode, ParseFail, ParseNoRegion, RegionInit, RegionFail, RegionBadAddress,
                  ReleaseRegion, ReleaseDone, SkipHeap
    <3>2. ~CreateFail
      BY <1>4, <1>6 DEF CreateFail
    <3>3. Create
      BY <3>1, <3>2 DEF ProbeNext
    <3> QED
      BY <1>4, <1>6, <3>3 DEF Create, CreateHeap
  <2>2. content' = [content EXCEPT ![idx] = [p \in Page |-> Zero]]
    BY <1>6, <2>1 DEF Create
  <2> QED
    BY <1>4, <2>1, <2>2
<1>7. ASSUME NEW i \in Heap
      PROVE  PoolClean(i)'
  <2>1. PoolClean(i)
    BY <1>1
  <2>2. CASE heap[i] = "created"
    BY <1>2, <1>3, <1>4, <1>5, <2>1, <2>2 DEF PoolClean, Clean
  <2>3. CASE heap[i] # "created"
    BY <1>2, <1>3, <1>4, <1>6, <2>3 DEF PoolClean, Clean
  <2> QED
    BY <2>2, <2>3
<1>8. ASSUME NEW b \in Buf
      PROVE  BufOf(b)' /\ ContentOf(b)'
  <2>1. BufOf(b)'
    BY <1>1, <1>2, <1>3 DEF BufOf
  <2>2. Cleaned(b) \/ buf[b].pc = "live" => buf[b].heap \in Heap /\ buf[b].pages \subseteq Page
    BY <1>1, SgTypes DEF BufOf, Cleaned
  <2>3. (Cleaned(b)' <=> Cleaned(b)) /\ ContentOf(b)
    BY <1>1, <1>2, <1>3 DEF Cleaned
  <2>4. ContentOf(b)'
    BY <1>3, <1>5, <2>2, <2>3 DEF ContentOf, Clean
  <2> QED
    BY <2>1, <2>4
<1>9. (\A a \in Att : AttOf(a)') /\ CpuCoherent'
  BY <1>1, <1>3 DEF AttOf, CpuCoherent, Live
<1>10. PagesOwned'
  BY <1>1, <1>3, PagesKept
<1>11. TypeOK'
  BY <1>1, <1>2, <1>3, <1>5 DEF TypeOK
<1> QED
  BY <1>2, <1>7, <1>8, <1>9, <1>10, <1>11 DEF SgInv

\* CMA lends a free page.
LEMMA SgLend ==
    ASSUME SgInv, NEW i \in Heap, NEW g \in Page, LendPage(i, g)
    PROVE  SgInv'
<1>1. TypeOK /\ RegionInv /\ PagesOwned /\ CpuCoherent
      /\ (\A b \in Buf : BufOf(b) /\ ContentOf(b)) /\ (\A a \in Att : AttOf(a))
      /\ \A j \in Heap : PoolClean(j)
  BY DEF SgInv
<1>2. /\ node[i].type = "cma" /\ g \in pool[i] /\ content' = [content EXCEPT ![i][g] = Old]
      /\ pool' = pool /\ buf' = buf /\ att' = att /\ tainted' = tainted /\ UNCHANGED probeVars
  BY DEF LendPage
<1>3. ProbeTypeOK' /\ RegionInv' /\ node' = node /\ heap' = heap
  BY <1>1, <1>2, ProbeSame
<1>4. content \in [Heap -> [Page -> Buf \cup {Zero, Old}]]
  BY <1>1 DEF TypeOK
<1>5. /\ content' \in [Heap -> [Page -> Buf \cup {Zero, Old}]]
      /\ \A j \in Heap, p \in Page : j # i \/ p # g => content'[j][p] = content[j][p]
  BY <1>2, <1>4
<1>6. ASSUME NEW b \in Buf
      PROVE  BufOf(b)' /\ ContentOf(b)'
  <2>1. ASSUME buf[b].pc \notin {"new", "gone"}, NEW p \in buf[b].pages
        PROVE  content'[buf[b].heap][p] = content[buf[b].heap][p]
    <3>1. buf[b].heap \in Heap /\ Owns(b, buf[b].heap) /\ p \in Page
      BY <1>1, <2>1, SgTypes DEF BufOf, Owns
    <3>2. buf[b].heap = i => p # g
      BY <1>1, <1>2, <3>1 DEF PagesOwned
    <3> QED
      BY <1>5, <3>1, <3>2
  <2> QED
    BY <1>2, <1>3, <2>1, BufKept
<1>7. ASSUME NEW j \in Heap
      PROVE  PoolClean(j)'
  <2>1. pool[j] \subseteq Page /\ PoolClean(j)
    BY <1>1, SgTypes
  <2>2. CASE j = i
    BY <1>2, <1>3, <2>2 DEF PoolClean
  <2>3. CASE j # i
    BY <1>2, <1>3, <1>5, <2>1, <2>3, PoolKept
  <2> QED
    BY <2>2, <2>3
<1>8. (\A a \in Att : AttOf(a)') /\ CpuCoherent'
  BY <1>1, <1>2 DEF AttOf, CpuCoherent, Live
<1>9. PagesOwned'
  BY <1>1, <1>2, PagesKept
<1>10. TypeOK'
  BY <1>1, <1>2, <1>3, <1>5 DEF TypeOK
<1> QED
  BY <1>3, <1>6, <1>7, <1>8, <1>9, <1>10 DEF SgInv

\* Before the heaps are probed all pages are free.
LEMMA SgInitially == Init => SgInv
<1> SUFFICES ASSUME Init PROVE SgInv
  OBVIOUS
<1>1. Heaps \in Nat /\ Heaps >= 1 /\ Trees \subseteq [Heap -> Node] /\ MaxVmap \in Nat
  BY ProbeAssumption, BufferAssumption
<1>2. 1 \in Heap /\ 1 \in 0 .. Heaps /\ OpsTo(0) = {}
  BY <1>1 DEF Heap, OpsTo
<1>3. ProbeTypeOK /\ RegionInv
  <2>1. probe = "parse" /\ idx = 1 /\ memRef = {} /\ region = {} /\ node \in Trees
        /\ heap = [i \in Heap |-> "none"]
    BY DEF Init, ProbeInit
  <2>2. ProbeTypeOK
    BY <1>2, <2>1 DEF ProbeTypeOK
  <2> QED
    BY <1>2, <2>1, <2>2 DEF RegionInv, Heap
<1>4. \A b \in Buf : buf[b] = NewBuf /\ buf[b].pc = "new" /\ buf[b].user = {}
  BY DEF Init, NewBuf
<1>5. \A a \in Att : att[a].buf = None /\ att[a].map = "none" /\ ~att[a].pending
  BY DEF Init, NewAtt
<1>6. NewBuf \in BufType /\ NewAtt \in AttType
  BY <1>1 DEF NewBuf, NewAtt, BufType, AttType, BufPcs
<1>7. TypeOK
  <2>1. buf \in [Buf -> BufType] /\ att \in [Att -> AttType]
    BY <1>6 DEF Init
  <2>2. pool \in [Heap -> SUBSET Page] /\ content \in [Heap -> [Page -> Buf \cup {Zero, Old}]]
        /\ tainted \subseteq Heap \X Page
    BY DEF Init
  <2> QED
    BY <1>3, <2>1, <2>2 DEF TypeOK, BufType, AttType
<1>8. PagesOwned
  <2>1. \A b \in Buf, i \in Heap : ~Owns(b, i)
    BY <1>4 DEF Owns
  <2>2. \A i \in Heap : pool[i] = Page
    BY DEF Init
  <2> QED
    BY <1>4, <2>1, <2>2 DEF PagesOwned
<1>9. CpuCoherent /\ \A a \in Att : AttOf(a)
  BY <1>5 DEF CpuCoherent, AttOf, Live
<1>10. \A b \in Buf : BufOf(b) /\ ContentOf(b)
  BY <1>4 DEF BufOf, ContentOf, Cleaned
<1>11. \A i \in Heap : PoolClean(i)
  BY DEF Init, ProbeInit, PoolClean
<1> QED
  BY <1>3, <1>7, <1>8, <1>9, <1>10, <1>11 DEF SgInv

\* No step breaks it.
LEMMA SgStep == SgInv /\ [Next]_vars => SgInv'
<1> SUFFICES ASSUME SgInv, [Next]_vars PROVE SgInv'
  OBVIOUS
<1>1. CASE UNCHANGED vars
  <2>1. /\ node' = node /\ idx' = idx /\ probe' = probe /\ region' = region /\ memRef' = memRef
        /\ heap' = heap /\ pool' = pool /\ content' = content /\ buf' = buf /\ att' = att
        /\ tainted' = tainted
    BY <1>1 DEF vars, probeVars, bufVars
  <2> QED
    BY <2>1 DEF SgInv, TypeOK, ProbeTypeOK, RegionInv, OpsTo, OneRef, PagesOwned, Owns, CpuCoherent,
                BufOf, ContentOf, Cleaned, Clean, AttOf, Live, PoolClean
<1>2. CASE Next
  BY <1>2, SgProbe, SgAlloc, SgFree, SgCpu, SgDevice, SgLend DEF Next
<1> QED
  BY <1>1, <1>2

\* What the heaps and their buffers rest on, in every behaviour.
THEOREM SgInvariance == Spec => []SgInv
BY SgInitially, SgStep, PTL DEF Spec

(* parse_heap_dt and its way out, the allocate and free functions of the two     *)
(* heaps: regions are initialised for the heaps that get them and given back         *)
(* otherwise; every page is free or one buffer's, whatever failed; and no process    *)
(* has a free page mapped.                                                           *)
THEOREM PagesInvHolds == Spec => []PagesInv
<1>1. SgInv => PagesInv
  BY RegionsOk DEF SgInv, PagesInv
<1> QED
  BY <1>1, SgInvariance, PTL

(* The clearing of carveout_heap_free, cma_heap_allocate and                     *)
(* carveout_init_heap_memory: an exported buffer never shows what another buffer,   *)
(* or the system, left in its pages, unless clearing a page has failed.              *)
THEOREM ContentsOwnHolds == Spec => []ContentsOwn
<1>1. SgInv => ContentsOwn
  BY DEF SgInv, ContentsOwn, ContentOf, Cleaned, Clean
<1> QED
  BY <1>1, SgInvariance, PTL

(* qcom_sg_dma_buf_begin_cpu_access and unmap: while the CPU has access, what a  *)
(* device mapped through the buffer's operations wrote is visible to it.            *)
THEOREM CpuCoherentHolds == Spec => []CpuCoherent
<1>1. SgInv => CpuCoherent
  BY DEF SgInv
<1> QED
  BY <1>1, SgInvariance, PTL

-----------------------------------------------------------------------------
(* The transmit side of the MHI network device *)

\* Packets 1 .. Gone have left the lists.
Gone == accepted - Len(q) - Len(txBuffers)

\* The lists hold the packets after them, in order and without a gap.
LineInv ==
    /\ Gone >= 0
    /\ \A i \in 1 .. Len(q) : q[i] = Gone + i
    /\ \A i \in 1 .. Len(txBuffers) : txBuffers[i] = Gone + Len(q) + i

\* A packet was forgotten with all its batch from the one that cut it short.
Followed(p, all, left) == \E r \in all : r < p /\ \A s \in r + 1 .. p : s \in left

LeftInv ==
    /\ Elems(sent) \cup dropped \cup forgotten = 1 .. Gone
    /\ forgotten \cap (Elems(sent) \cup dropped) = {} /\ unfreed \subseteq Elems(sent)
    /\ \A p \in forgotten : Followed(p, dropped \cup unfreed, forgotten)

\* The list of the work item is empty outside the loop, and after a send the
\* packet before the list is the one that was sent.
WorkInv ==
    /\ work \in {"idle", "full", "splice"} => q = <<>>
    /\ work \in {"check", "break"} => Len(sent) > 0 /\ sent[Len(sent)] = Gone

\* What the life of the device allows: an interface that was never open took
\* nothing, and calls come only while there is something to call.
LifeInv ==
    /\ ~up /\ ~halted /\ dev # "removed" => accepted = 0
    /\ dev = "none" => ~up /\ ~halted
    /\ up => dev \in {"registered", "destroyed"}
    /\ xmit => up
    /\ doorbell => dev = "registered"

MhiIInv == MhiTypeOK /\ LineInv /\ LeftInv /\ WorkInv /\ LifeInv /\ WorkOwed

-----------------------------------------------------------------------------
(* Lists *)

\* The elements of a list with one more at its end.
LEMMA ElemsAppend ==
    ASSUME NEW S, NEW s \in Seq(S), NEW x \in S
    PROVE  Elems(Append(s, x)) = Elems(s) \cup {x} /\ Append(s, x) \in Seq(S)
<1>1. Append(s, x) \in Seq(S) /\ Len(Append(s, x)) = Len(s) + 1
  OBVIOUS
<1>2. \A i \in 1 .. Len(s) : Append(s, x)[i] = s[i]
  OBVIOUS
<1>3. Append(s, x)[Len(s) + 1] = x
  OBVIOUS
<1>4. DOMAIN Append(s, x) = 1 .. Len(s) + 1 /\ DOMAIN s = 1 .. Len(s) /\ Len(s) \in Nat
  BY <1>1
<1>5. 1 .. Len(s) + 1 = (1 .. Len(s)) \cup {Len(s) + 1}
  BY <1>4
<1> DEFINE t == Append(s, x)
<1>6. DOMAIN t = DOMAIN s \cup {Len(s) + 1} /\ (\A i \in DOMAIN s : t[i] = s[i]) /\ t[Len(s) + 1] = x
  BY <1>2, <1>3, <1>4, <1>5
<1> HIDE DEF t
<1>7. Elems(t) = Elems(s) \cup {x}
  BY <1>6 DEF Elems
<1> QED
  BY <1>1, <1>7 DEF t

\* The elements of a list of consecutive numbers.
LEMMA ElemsRun ==
    ASSUME NEW S, NEW s \in Seq(S), NEW b \in Int, \A i \in 1 .. Len(s) : s[i] = b + i
    PROVE  Elems(s) = b + 1 .. b + Len(s)
<1>1. DOMAIN s = 1 .. Len(s) /\ Len(s) \in Nat
  OBVIOUS
<1>2. ASSUME NEW p \in b + 1 .. b + Len(s) PROVE p \in Elems(s)
  <2>1. p - b \in 1 .. Len(s) /\ b + (p - b) = p
    BY <1>1, <1>2
  <2>2. s[p - b] = p
    BY <2>1
  <2> QED
    BY <1>1, <2>1, <2>2 DEF Elems
<1>3. ASSUME NEW p \in Elems(s) PROVE p \in b + 1 .. b + Len(s)
  <2>1. PICK i \in 1 .. Len(s) : s[i] = p
    BY <1>1 DEF Elems
  <2> QED
    BY <1>1, <2>1
<1> QED
  BY <1>2, <1>3

\* The head and the tail of a list that is not empty.
LEMMA HeadTail ==
    ASSUME NEW S, NEW s \in Seq(S), s # <<>>
    PROVE  /\ Len(s) \in Nat \ {0} /\ Head(s) = s[1] /\ Head(s) \in S
           /\ Tail(s) \in Seq(S) /\ Len(Tail(s)) = Len(s) - 1
           /\ \A i \in 1 .. Len(Tail(s)) : Tail(s)[i] = s[i + 1]
  OBVIOUS

-----------------------------------------------------------------------------

\* Nothing has been taken at the start.
LEMMA MhiInitial == MhiInit => MhiIInv
<1> SUFFICES ASSUME MhiInit PROVE MhiIInv
  OBVIOUS
<1>1. MhiTypeOK
  <2>1. MaxPackets \in Nat /\ MaxElements \in Nat
    BY NetAssumption
  <2>2. accepted \in 0 .. MaxPackets /\ elements \in 0 .. MaxElements
    BY <2>1 DEF MhiInit
  <2>3. up \in BOOLEAN /\ stopped \in BOOLEAN /\ xmit \in BOOLEAN /\ pending \in BOOLEAN
        /\ doorbell \in BOOLEAN /\ halted \in BOOLEAN /\ misuse \in BOOLEAN
    BY DEF MhiInit
  <2>4. txBuffers \in Seq(Packet) /\ q \in Seq(Packet) /\ sent \in Seq(Packet)
    BY DEF MhiInit
  <2>5. dropped \in SUBSET Packet /\ forgotten \in SUBSET Packet /\ unfreed \in SUBSET Packet
        /\ work = "idle" /\ dev = "none"
    BY DEF MhiInit
  <2> QED
    BY <2>2, <2>3, <2>4, <2>5 DEF MhiTypeOK
<1>2. Gone = 0 /\ LineInv
  <2>1. Len(q) = 0 /\ Len(txBuffers) = 0 /\ accepted = 0
    BY DEF MhiInit
  <2>2. Gone = 0
    BY <2>1 DEF Gone
  <2> QED
    BY <2>1, <2>2 DEF LineInv
<1>3. LeftInv
  <2>1. Elems(sent) = {}
    BY DEF MhiInit, Elems
  <2> QED
    BY <1>2, <2>1 DEF MhiInit, LeftInv
<1>4. WorkInv /\ LifeInv /\ WorkOwed
  BY DEF MhiInit, WorkInv, LifeInv, WorkOwed
<1> QED
  BY <1>1, <1>2, <1>3, <1>4 DEF MhiIInv

\* The lists are out of reach of a step that moves no packet.
LEMMA StillLists ==
    ASSUME MhiIInv, UNCHANGED <<accepted, txBuffers, q, sent, dropped, forgotten, unfreed>>
    PROVE  LineInv' /\ LeftInv' /\ Gone' = Gone /\ Elems(sent)' = Elems(sent)
<1>1. Gone' = Gone /\ Elems(sent)' = Elems(sent)
  BY DEF Gone, Elems
<1>2. LineInv'
  BY <1>1 DEF MhiIInv, LineInv
<1>3. LeftInv'
  BY <1>1 DEF MhiIInv, LeftInv, Followed
<1> QED
  BY <1>1, <1>2, <1>3

\* The life of the device, and what the workqueue does for it.
LEMMA LifeStep ==
    ASSUME MhiIInv, Probe \/ Open \/ Stop \/ RemoveWorkqueue \/ RemoveNetdev
    PROVE  MhiIInv'
<1>1. UNCHANGED <<accepted, txBuffers, q, sent, dropped, forgotten, unfreed, work, elements, doorbell, pending,
                  misuse, xmit>>
  BY DEF Probe, Open, Stop, RemoveWorkqueue, RemoveNetdev, netVars, txVars, workVars, hostVars
<1>2. LineInv' /\ LeftInv' /\ Gone' = Gone /\ Elems(sent)' = Elems(sent)
  BY <1>1, StillLists
<1>3. /\ up' \in BOOLEAN /\ halted' \in BOOLEAN /\ stopped' \in BOOLEAN
      /\ dev' \in {"none", "registered", "destroyed", "removed"}
  BY DEF Probe, Open, Stop, RemoveWorkqueue, RemoveNetdev, netVars, MhiIInv, MhiTypeOK
<1>4. MhiTypeOK'
  BY <1>1, <1>3 DEF MhiIInv, MhiTypeOK
<1>5. WorkInv'
  BY <1>1, <1>2 DEF MhiIInv, WorkInv
<1>6. LifeInv'
  BY <1>1 DEF MhiIInv, LifeInv, Probe, Open, Stop, RemoveWorkqueue, RemoveNetdev
<1>7. WorkOwed'
  <2>1. accepted = 0 => txBuffers = <<>>
    BY DEF MhiIInv, MhiTypeOK, LineInv, Gone
  <2> QED
    BY <1>1, <2>1 DEF MhiIInv, WorkOwed, LifeInv, Probe, Open, Stop, RemoveWorkqueue, RemoveNetdev,
                      netVars
<1> QED
  BY <1>2, <1>4, <1>5, <1>6, <1>7 DEF MhiIInv

\* The steps that only test, stop or wake.
LEMMA QuietStep ==
    ASSUME MhiIInv,
           \/ XmitQueue \/ WorkStart \/ WorkFull \/ WorkDone \/ WorkCheck
           \/ (\E n \in 1 .. MaxElements : HostAdd(n)) \/ HostReset \/ DlCallback
    PROVE  MhiIInv'
<1>1. UNCHANGED <<accepted, txBuffers, q, sent, dropped, forgotten, unfreed, dev, up, halted>>
  BY DEF XmitQueue, WorkStart, WorkFull, WorkDone, WorkCheck, HostAdd, HostReset, DlCallback,
         netVars, txVars, workVars, hostVars
<1>2. LineInv' /\ LeftInv' /\ Gone' = Gone /\ Elems(sent)' = Elems(sent)
  BY <1>1, StillLists
<1>3. elements' \in 0 .. MaxElements
  <2>1. elements \in 0 .. MaxElements /\ MaxElements \in Nat
    BY NetAssumption DEF MhiIInv, MhiTypeOK
  <2>2. CASE elements' = elements
    BY <2>1, <2>2
  <2>3. CASE \E n \in 1 .. MaxElements : HostAdd(n)
    BY <2>1, <2>3 DEF HostAdd
  <2>4. CASE HostReset
    BY <2>1, <2>4 DEF HostReset
  <2> QED
    BY <2>2, <2>3, <2>4
       DEF XmitQueue, WorkStart, WorkFull, WorkDone, WorkCheck, DlCallback, hostVars
<1>4. stopped' \in BOOLEAN /\ xmit' \in BOOLEAN /\ doorbell' \in BOOLEAN
      /\ pending' \in BOOLEAN /\ misuse' \in BOOLEAN
  <2>1. QueueWork => pending' \in BOOLEAN /\ misuse' \in BOOLEAN
    BY DEF QueueWork, MhiIInv, MhiTypeOK
  <2> QED
    BY <2>1 DEF XmitQueue, WorkStart, WorkFull, WorkDone, WorkCheck, HostAdd, HostReset, DlCallback,
         netVars, txVars, workVars, hostVars, MhiIInv, MhiTypeOK
<1>5. work' \in {"idle", "full", "splice", "loop", "check", "break"}
  BY DEF XmitQueue, WorkStart, WorkFull, WorkDone, WorkCheck, HostAdd, HostReset, DlCallback,
         workVars, MhiIInv, MhiTypeOK
<1>6. MhiTypeOK'
  BY <1>1, <1>3, <1>4, <1>5 DEF MhiIInv, MhiTypeOK
<1>7. WorkInv'
  BY <1>1, <1>2 DEF MhiIInv, WorkInv, XmitQueue, WorkStart, WorkFull, WorkDone, WorkCheck, HostAdd,
                    HostReset, DlCallback, workVars
<1>8. LifeInv'
  <2>1. doorbell' => doorbell \/ dev = "registered"
    BY DEF XmitQueue, WorkStart, WorkFull, WorkDone, WorkCheck, HostAdd, HostReset, DlCallback,
           hostVars
  <2>2. xmit' => xmit
    BY DEF XmitQueue, WorkStart, WorkFull, WorkDone, WorkCheck, HostAdd, HostReset, DlCallback,
           txVars
  <2> QED
    BY <1>1, <2>1, <2>2 DEF MhiIInv, LifeInv
<1>9. WorkOwed'
  BY <1>1 DEF MhiIInv, WorkOwed, WorkInv, XmitQueue, QueueWork, WorkStart, WorkFull, WorkDone,
              WorkCheck, HostAdd, HostReset, DlCallback, netVars, txVars, workVars, hostVars
<1> QED
  BY <1>2, <1>6, <1>7, <1>8, <1>9 DEF MhiIInv

\* What the counts of the lists are.
LEMMA Counts ==
    ASSUME MhiIInv
    PROVE  /\ Len(q) \in Nat /\ Len(txBuffers) \in Nat /\ accepted \in 0 .. MaxPackets
           /\ MaxPackets \in Nat /\ Gone \in Nat /\ Gone + Len(q) + Len(txBuffers) = accepted
           /\ Elems(q) = Gone + 1 .. Gone + Len(q)
           /\ Elems(txBuffers) = Gone + Len(q) + 1 .. accepted
<1>1. /\ q \in Seq(Packet) /\ txBuffers \in Seq(Packet) /\ accepted \in 0 .. MaxPackets
      /\ MaxPackets \in Nat
  BY NetAssumption DEF MhiIInv, MhiTypeOK
<1>2. Len(q) \in Nat /\ Len(txBuffers) \in Nat
  BY <1>1
<1>3. Gone \in Nat /\ Gone + Len(q) + Len(txBuffers) = accepted
  BY <1>1, <1>2 DEF MhiIInv, LineInv, Gone
<1>4. Elems(q) = Gone + 1 .. Gone + Len(q)
  BY <1>1, <1>3, ElemsRun DEF MhiIInv, LineInv
<1>5. Elems(txBuffers) = Gone + Len(q) + 1 .. accepted
  <2>1. Gone + Len(q) \in Int /\ (Gone + Len(q)) + Len(txBuffers) = accepted
    BY <1>2, <1>3
  <2>2. \A i \in 1 .. Len(txBuffers) : txBuffers[i] = (Gone + Len(q)) + i
    BY DEF MhiIInv, LineInv
  <2> QED
    BY <1>1, <2>1, <2>2, ElemsRun
<1> QED
  BY <1>1, <1>2, <1>3, <1>4, <1>5

\* mhi_ndo_xmit appends a packet.
LEMMA XmitStep == ASSUME MhiIInv, Xmit PROVE MhiIInv'
<1>1. /\ up /\ ~stopped /\ accepted < MaxPackets /\ accepted' = accepted + 1
      /\ txBuffers' = Append(txBuffers, accepted + 1) /\ xmit' = TRUE
      /\ UNCHANGED <<dev, up, halted, misuse, work, q, sent, dropped, forgotten, unfreed, elements, doorbell,
                     stopped, pending>>
  BY DEF Xmit, netVars, workVars, hostVars
<1>2. accepted' \in 0 .. MaxPackets /\ accepted + 1 \in Packet
  BY <1>1, Counts DEF Packet
<1>3. txBuffers' \in Seq(Packet) /\ Len(txBuffers') = Len(txBuffers) + 1
      /\ (\A i \in 1 .. Len(txBuffers) : txBuffers'[i] = txBuffers[i])
      /\ txBuffers'[Len(txBuffers) + 1] = accepted + 1
  BY <1>1, <1>2 DEF MhiIInv, MhiTypeOK
<1>4. MhiTypeOK'
  BY <1>1, <1>2, <1>3 DEF MhiIInv, MhiTypeOK
<1>5. Gone' = Gone
  <2>1. Gone' = (accepted + 1) - Len(q) - (Len(txBuffers) + 1)
    BY <1>1, <1>3 DEF Gone
  <2>2. Gone = accepted - Len(q) - Len(txBuffers)
    BY DEF Gone
  <2>3. accepted \in Int /\ Len(q) \in Int /\ Len(txBuffers) \in Int
    BY Counts
  <2> QED
    BY <2>1, <2>2, <2>3
<1>6. LineInv'
  <2>1. \A i \in 1 .. Len(txBuffers') : txBuffers'[i] = Gone + Len(q) + i
    <3> SUFFICES ASSUME NEW i \in 1 .. Len(txBuffers') PROVE txBuffers'[i] = Gone + Len(q) + i
      OBVIOUS
    <3>1. i \in 1 .. Len(txBuffers) \/ i = Len(txBuffers) + 1
      BY <1>3, Counts
    <3>2. Gone + Len(q) + (Len(txBuffers) + 1) = accepted + 1
      BY Counts
    <3> QED
      BY <1>3, <3>1, <3>2 DEF MhiIInv, LineInv
  <2> QED
    BY <1>1, <1>5, <2>1 DEF MhiIInv, LineInv
<1>7. LeftInv' /\ WorkInv'
  <2>1. Elems(sent)' = Elems(sent)
    BY <1>1 DEF Elems
  <2> QED
    BY <1>1, <1>5, <2>1 DEF MhiIInv, LeftInv, Followed, WorkInv
<1>8. LifeInv' /\ WorkOwed'
  BY <1>1 DEF MhiIInv, LifeInv, WorkOwed
<1> QED
  BY <1>4, <1>6, <1>7, <1>8 DEF MhiIInv

\* The work item takes the whole list.
LEMMA SpliceStep == ASSUME MhiIInv, WorkSplice PROVE MhiIInv'
<1>1. /\ work = "splice" /\ work' = "loop" /\ q' = txBuffers /\ txBuffers' = <<>>
      /\ UNCHANGED <<dev, up, halted, misuse, accepted, xmit, sent, dropped, forgotten, unfreed, elements,
                     doorbell, stopped, pending>>
  BY DEF WorkSplice, netVars, hostVars
<1>2. q = <<>> /\ Len(q) = 0
  BY <1>1 DEF MhiIInv, WorkInv
<1>3. Len(txBuffers') = 0
  BY <1>1
<1>4. MhiTypeOK'
  <2>1. q' \in Seq(Packet) /\ txBuffers' \in Seq(Packet)
    BY <1>1 DEF MhiIInv, MhiTypeOK
  <2> QED
    BY <1>1, <2>1 DEF MhiIInv, MhiTypeOK
<1>5. Gone' = Gone
  BY <1>1, <1>2, <1>3, Counts DEF Gone
<1>6. LineInv'
  BY <1>1, <1>2, <1>3, <1>5, Counts DEF MhiIInv, LineInv
<1>7. LeftInv' /\ WorkInv'
  <2>1. Elems(sent)' = Elems(sent)
    BY <1>1 DEF Elems
  <2> QED
    BY <1>1, <1>5, <2>1 DEF MhiIInv, LeftInv, Followed, WorkInv
<1>8. LifeInv' /\ WorkOwed'
  BY <1>1 DEF MhiIInv, LifeInv, WorkOwed
<1> QED
  BY <1>4, <1>6, <1>7, <1>8 DEF MhiIInv

\* The first packet of the work item goes to the MHI layer.
LEMMA SendStep == ASSUME MhiIInv, WorkSend PROVE MhiIInv'
<1>1. /\ work = "loop" /\ q # <<>> /\ elements > 0 /\ elements' = elements - 1
      /\ sent' = Append(sent, Head(q)) /\ q' = Tail(q) /\ work' = "check"
      /\ UNCHANGED <<dev, up, halted, misuse, accepted, xmit, txBuffers, dropped, forgotten, unfreed,
                     doorbell, stopped, pending>>
  BY DEF WorkSend, netVars, txVars
<1>2. /\ q \in Seq(Packet) /\ sent \in Seq(Packet) /\ elements \in 0 .. MaxElements
      /\ MaxElements \in Nat
  BY NetAssumption DEF MhiIInv, MhiTypeOK
<1>3. /\ Len(q) \in Nat \ {0} /\ Head(q) = q[1] /\ Head(q) \in Packet
      /\ q' \in Seq(Packet) /\ Len(q') = Len(q) - 1
      /\ \A i \in 1 .. Len(q') : q'[i] = q[i + 1]
  BY <1>1, <1>2, HeadTail
<1>4. Elems(sent)' = Elems(sent) \cup {Head(q)} /\ sent' \in Seq(Packet)
  BY <1>1, <1>2, <1>3, ElemsAppend
<1>5. Head(q) = Gone + 1
  BY <1>3 DEF MhiIInv, LineInv
<1>6. MhiTypeOK'
  <2>1. elements' \in 0 .. MaxElements
    BY <1>1, <1>2
  <2> QED
    BY <1>1, <1>3, <1>4, <2>1 DEF MhiIInv, MhiTypeOK
<1>7. Gone' = Gone + 1
  BY <1>1, <1>3, Counts, SMTT(20) DEF Gone
<1>8. LineInv'
  <2>1. \A i \in 1 .. Len(q') : q'[i] = Gone + 1 + i
    BY <1>3, Counts DEF MhiIInv, LineInv
  <2>2. \A i \in 1 .. Len(txBuffers) : txBuffers[i] = (Gone + 1) + Len(q') + i
    BY <1>3, Counts DEF MhiIInv, LineInv
  <2> QED
    BY <1>1, <1>7, <2>1, <2>2, Counts DEF LineInv
<1>9. LeftInv'
  <2>0. Gone + 1 \notin forgotten
    <3>1. Gone \in Nat /\ Gone + 1 \notin 1 .. Gone
      BY Counts
    <3>2. forgotten \subseteq 1 .. Gone
      BY DEF MhiIInv, LeftInv
    <3> QED
      BY <3>1, <3>2
  <2>1. 1 .. Gone + 1 = (1 .. Gone) \cup {Gone + 1}
    BY Counts
  <2>2. (Elems(sent) \cup dropped \cup forgotten)' = 1 .. Gone + 1
    BY <1>1, <1>4, <1>5, <2>1 DEF MhiIInv, LeftInv
  <2>3. (forgotten \cap (Elems(sent) \cup dropped))' = {} /\ unfreed \subseteq Elems(sent)'
    BY <1>1, <1>4, <1>5, <2>0 DEF MhiIInv, LeftInv
  <2>4. \A p \in forgotten : Followed(p, dropped \cup unfreed, forgotten)
    BY DEF MhiIInv, LeftInv
  <2> QED
    BY <1>1, <1>7, <2>2, <2>3, <2>4 DEF LeftInv, Followed
<1>10. WorkInv' /\ LifeInv'
  <2>1. Len(sent') > 0 /\ sent'[Len(sent')] = Head(q)
    BY <1>1, <1>2, <1>3
  <2> QED
    BY <1>1, <1>5, <1>7, <2>1 DEF MhiIInv, WorkInv, LifeInv
<1>11. WorkOwed'
  BY <1>1 DEF MhiIInv, WorkOwed
<1> QED
  BY <1>6, <1>8, <1>9, <1>10, <1>11 DEF MhiIInv

\* The batch is cut short behind packet r: the packets after it are forgotten.
LEMMA Forget ==
    ASSUME MhiIInv, NEW r \in Int, 0 < r, r < Gone + Len(q) + 1,
           q' = <<>>, UNCHANGED <<accepted, txBuffers, sent>>,
           r \in dropped' \cup unfreed', r \in Elems(sent) \cup dropped',
           forgotten' = forgotten \cup (r + 1 .. Gone + Len(q)),
           dropped \subseteq dropped', dropped' \subseteq dropped \cup {r},
           unfreed \subseteq unfreed', unfreed' \subseteq Elems(sent),
           (r \in Elems(sent) /\ r = Gone) \/ r = Gone + 1
    PROVE  LineInv' /\ LeftInv'
<1>1. Gone' = Gone + Len(q) /\ Len(q') = 0
  BY Counts DEF Gone
<1>2. LineInv'
  BY <1>1, Counts, SMTT(20) DEF MhiIInv, LineInv
<1>3. Elems(sent)' = Elems(sent)
  BY DEF Elems
<1>4. Elems(sent) \cup dropped \cup forgotten = 1 .. Gone
  BY DEF MhiIInv, LeftInv
<1>5. (Elems(sent) \cup dropped \cup forgotten)' = 1 .. Gone + Len(q)
  <2>1. (Elems(sent) \cup dropped \cup forgotten)'
            = (1 .. Gone) \cup {r} \cup (r + 1 .. Gone + Len(q))
    BY <1>3, <1>4
  <2> QED
    BY <2>1, Counts, SMTT(20)
<1>6. (forgotten \cap (Elems(sent) \cup dropped))' = {}
  <2> SUFFICES ASSUME NEW p \in forgotten', p \in Elems(sent) \cup dropped' PROVE FALSE
    BY <1>3
  <2>1. forgotten \cap (Elems(sent) \cup dropped) = {}
    BY DEF MhiIInv, LeftInv
  <2>2. CASE p \in forgotten
    <3>1. p \in 1 .. Gone /\ p = r /\ p \notin Elems(sent)
      BY <1>4, <2>1, <2>2
    <3> QED
      BY <3>1, Counts
  <2>3. CASE p \in r + 1 .. Gone + Len(q)
    <3>1. p \in 1 .. Gone /\ r < p
      BY <1>4, <2>3, Counts
    <3> QED
      BY <3>1, Counts
  <2> QED
    BY <2>2, <2>3
<1>7. ASSUME NEW p \in forgotten' PROVE Followed(p, (dropped \cup unfreed)', forgotten')
  <2>1. CASE p \in forgotten
    BY <2>1 DEF MhiIInv, LeftInv, Followed
  <2>2. CASE p \in r + 1 .. Gone + Len(q)
    <3>1. r < p /\ \A s \in r + 1 .. p : s \in forgotten'
      BY <2>2, Counts
    <3> QED
      BY <3>1 DEF Followed
  <2> QED
    BY <1>7, <2>1, <2>2
<1> QED
  BY <1>1, <1>2, <1>3, <1>5, <1>6, <1>7 DEF LeftInv

\* The MHI layer refuses a packet, and the rest of the batch is forgotten.
LEMMA DropStep == ASSUME MhiIInv, WorkDrop PROVE MhiIInv'
<1>1. /\ work = "loop" /\ q # <<>> /\ dropped' = dropped \cup {Head(q)}
      /\ forgotten' = forgotten \cup Elems(Tail(q)) /\ q' = <<>> /\ work' = "idle"
      /\ UNCHANGED <<dev, up, halted, misuse, accepted, xmit, txBuffers, sent, unfreed, elements,
                     doorbell, stopped, pending>>
  BY DEF WorkDrop, netVars, txVars, hostVars
<1>2. q \in Seq(Packet)
  BY DEF MhiIInv, MhiTypeOK
<1>3. /\ Len(q) \in Nat \ {0} /\ Head(q) = Gone + 1 /\ Head(q) \in Packet
      /\ Tail(q) \in Seq(Packet) /\ Len(Tail(q)) = Len(q) - 1
      /\ \A i \in 1 .. Len(Tail(q)) : Tail(q)[i] = (Gone + 1) + i
  <2>1. /\ Len(q) \in Nat \ {0} /\ Head(q) = q[1] /\ Head(q) \in Packet
        /\ Tail(q) \in Seq(Packet) /\ Len(Tail(q)) = Len(q) - 1
        /\ \A i \in 1 .. Len(Tail(q)) : Tail(q)[i] = q[i + 1]
    BY <1>1, <1>2, HeadTail
  <2>2. \A i \in 1 .. Len(q) : q[i] = Gone + i
    BY DEF MhiIInv, LineInv
  <2>3. Head(q) = Gone + 1
    BY <2>1, <2>2
  <2>4. ASSUME NEW i \in 1 .. Len(Tail(q)) PROVE Tail(q)[i] = (Gone + 1) + i
    <3>1. i + 1 \in 1 .. Len(q)
      BY <2>1
    <3>2. Tail(q)[i] = Gone + (i + 1)
      BY <2>1, <2>2, <3>1
    <3> QED
      BY <2>1, <3>2, Counts
  <2> QED
    BY <2>1, <2>3, <2>4
<1>4. Elems(Tail(q)) = (Gone + 1) + 1 .. Gone + Len(q)
  <2>0. Gone + 1 \in Int
    BY Counts
  <2>1. Elems(Tail(q)) = (Gone + 1) + 1 .. (Gone + 1) + Len(Tail(q))
    BY <1>3, <2>0, ElemsRun
  <2> QED
    BY <1>3, <2>1, Counts
<1>5. LineInv' /\ LeftInv'
  <2> DEFINE r == Gone + 1
  <2>1. r \in Int /\ 0 < r /\ r < Gone + Len(q) + 1
    BY <1>3, Counts
  <2>2. forgotten' = forgotten \cup (r + 1 .. Gone + Len(q)) /\ dropped' = dropped \cup {r}
    BY <1>1, <1>3, <1>4
  <2>3. r = Gone + 1 /\ unfreed \subseteq Elems(sent)
    BY DEF MhiIInv, LeftInv
  <2> HIDE DEF r
  <2> QED
    BY <1>1, <2>1, <2>2, <2>3, Forget
<1>6. MhiTypeOK'
  <2>1. Elems(Tail(q)) \subseteq Packet
    BY <1>4, Counts DEF Packet
  <2>2. q' \in Seq(Packet) /\ dropped' \subseteq Packet /\ forgotten' \subseteq Packet
    BY <1>1, <1>3, <2>1 DEF MhiIInv, MhiTypeOK
  <2> QED
    BY <1>1, <2>2 DEF MhiIInv, MhiTypeOK
<1>7. WorkInv' /\ LifeInv' /\ WorkOwed'
  BY <1>1 DEF MhiIInv, WorkInv, LifeInv, WorkOwed
<1> QED
  BY <1>5, <1>6, <1>7 DEF MhiIInv

\* The elements ran out, and the rest of the batch is forgotten.
LEMMA BreakStep == ASSUME MhiIInv, WorkBreak PROVE MhiIInv'
<1>1. /\ work = "break" /\ stopped' = TRUE /\ forgotten' = forgotten \cup Elems(q) /\ q' = <<>>
      /\ unfreed' = unfreed \cup {sent[Len(sent)]} /\ work' = "idle"
      /\ UNCHANGED <<dev, up, halted, misuse, accepted, xmit, txBuffers, sent, dropped, elements,
                     doorbell, pending>>
  BY DEF WorkBreak, netVars, txVars, hostVars
<1>2. Gone \in Elems(sent) /\ unfreed' = unfreed \cup {Gone}
  <2>1. Len(sent) > 0 /\ sent[Len(sent)] = Gone /\ sent \in Seq(Packet)
    BY <1>1 DEF MhiIInv, WorkInv, MhiTypeOK
  <2>2. Len(sent) \in DOMAIN sent
    BY <2>1
  <2> QED
    BY <1>1, <2>1, <2>2 DEF Elems
<1>3. LineInv' /\ LeftInv'
  <2>1. Gone \in Int /\ 0 < Gone /\ Gone < Gone + Len(q) + 1
    BY <1>2, Counts DEF MhiIInv, LeftInv
  <2>2. forgotten' = forgotten \cup (Gone + 1 .. Gone + Len(q))
    BY <1>1, Counts
  <2>3. unfreed \subseteq Elems(sent)
    BY DEF MhiIInv, LeftInv
  <2> QED
    BY <1>1, <1>2, <2>1, <2>2, <2>3, Forget
<1>4. MhiTypeOK'
  <2>1. Elems(q) \subseteq Packet
    BY Counts DEF Packet
  <2>2. q' \in Seq(Packet) /\ forgotten' \subseteq Packet /\ unfreed' \subseteq Packet
    <3>1. Gone \in Packet
      <4>1. Elems(sent) \subseteq Packet
        BY DEF MhiIInv, MhiTypeOK, Elems
      <4> QED
        BY <1>2, <4>1
    <3> QED
      BY <1>1, <1>2, <2>1, <3>1 DEF MhiIInv, MhiTypeOK
  <2>3. stopped' \in BOOLEAN
    BY <1>1
  <2> QED
    BY <1>1, <2>2, <2>3 DEF MhiIInv, MhiTypeOK
<1>5. WorkInv' /\ LifeInv' /\ WorkOwed'
  BY <1>1 DEF MhiIInv, WorkInv, LifeInv, WorkOwed
<1> QED
  BY <1>3, <1>4, <1>5 DEF MhiIInv

\* Every step keeps the invariant.
LEMMA MhiStep == MhiIInv /\ [MhiNext]_mhiVars => MhiIInv'
<1> SUFFICES ASSUME MhiIInv, [MhiNext]_mhiVars PROVE MhiIInv'
  OBVIOUS
<1>1. CASE UNCHANGED mhiVars
  <2>1. UNCHANGED <<dev, up, halted, misuse, accepted, xmit, txBuffers, work, q, sent, dropped,
                    forgotten, unfreed, elements, doorbell, stopped, pending>>
    BY <1>1 DEF mhiVars, netVars, txVars, workVars, hostVars
  <2>2. LineInv' /\ LeftInv' /\ Gone' = Gone /\ Elems(sent)' = Elems(sent)
    BY <2>1, StillLists
  <2>3. MhiTypeOK' /\ WorkInv' /\ LifeInv' /\ WorkOwed'
    BY <2>1, <2>2 DEF MhiIInv, MhiTypeOK, WorkInv, LifeInv, WorkOwed
  <2> QED
    BY <2>2, <2>3 DEF MhiIInv
<1>2. CASE MhiNext
  BY <1>2, LifeStep, QuietStep, XmitStep, SpliceStep, SendStep, DropStep, BreakStep DEF MhiNext, Work
<1> QED
  BY <1>1, <1>2

\* The invariant holds in every behaviour.
THEOREM MhiInvariance == MhiSpec => []MhiIInv
<1> QED
  BY MhiInitial, MhiStep, PTL DEF MhiSpec

(* mhi_ndo_xmit and the work item: every packet taken is on a list, sent,        *)
(* dropped, or forgotten, only with the whole rest of its batch behind a refused    *)
(* packet or behind one whose buffer the break leaks, and never seen again; and      *)
(* packets that wait on a running queue are owed a work item.                        *)
THEOREM QueueInvHolds == MhiSpec => []QueueInv
<1>1. MhiIInv => QueueInv
  <2> SUFFICES ASSUME MhiIInv PROVE QueueInv
    OBVIOUS
  <2>1. 1 .. accepted = Elems(txBuffers) \cup Elems(q) \cup Elems(sent) \cup dropped \cup forgotten
    <3>1. Elems(sent) \cup dropped \cup forgotten = 1 .. Gone
      BY DEF MhiIInv, LeftInv
    <3>2. 1 .. accepted = (Gone + Len(q) + 1 .. accepted) \cup (Gone + 1 .. Gone + Len(q))
                              \cup (1 .. Gone)
      BY Counts
    <3> QED
      BY <3>1, <3>2, Counts
  <2>2. Conserved
    BY <2>1 DEF MhiIInv, LeftInv, Followed, Conserved
  <2> QED
    BY <2>2 DEF MhiIInv, QueueInv
<1> QED
  BY <1>1, MhiInvariance, PTL

(* QueueWork after destroy_workqueue: only a transmit between the two halves of   *)
(* mhi_ep_net_remove does it, never the callback or the work item.                 *)
THEOREM MisuseHolds == MhiSpec => MisuseOnlyInRemove
<1>1. MhiIInv /\ [MhiNext]_mhiVars => [misuse' # misuse => dev = "destroyed" /\ xmit]_mhiVars
  <2> SUFFICES ASSUME MhiIInv, MhiNext, misuse' # misuse PROVE dev = "destroyed" /\ xmit
    BY DEF mhiVars, netVars
  <2>1. misuse \in BOOLEAN
    BY DEF MhiIInv, MhiTypeOK
  <2>2. (XmitQueue \/ DlCallback) /\ QueueWork
    BY DEF MhiNext, Work, Probe, Open, Stop, RemoveWorkqueue, RemoveNetdev, Xmit, XmitQueue, WorkStart,
           WorkFull, WorkSplice, WorkDone, WorkSend, WorkDrop, WorkCheck, WorkBreak, HostAdd,
           HostReset, DlCallback, netVars
  <2>3. dev # "registered"
    BY <2>1, <2>2 DEF QueueWork
  <2> QED
    BY <2>2, <2>3 DEF MhiIInv, LifeInv, XmitQueue, DlCallback
<1> QED
  BY <1>1, MhiInvariance, PTL DEF MhiSpec, MisuseOnlyInRemove

-----------------------------------------------------------------------------
(* The device is a line *)

\* What concatenation does, element by element.
LEMMA Joined ==
    ASSUME NEW S, NEW s \in Seq(S), NEW t \in Seq(S)
    PROVE  /\ s \o t \in Seq(S) /\ Len(s \o t) = Len(s) + Len(t)
           /\ \A i \in 1 .. Len(s) : (s \o t)[i] = s[i]
           /\ \A i \in 1 .. Len(t) : (s \o t)[Len(s) + i] = t[i]
  OBVIOUS

\* Losing the batch of the work item.
LEMMA LoseBatch ==
    ASSUME MhiIInv, q' = <<>>, UNCHANGED <<accepted, txBuffers, sent>>
    PROVE  Link!Lose
<1> DEFINE line == q \o txBuffers
           n == Len(txBuffers)
           place == [i \in 1 .. n |-> Len(q) + i]
<1>1. q \in Seq(Packet) /\ txBuffers \in Seq(Packet)
  BY DEF MhiIInv, MhiTypeOK
<1>2. Len(q) \in Nat /\ n \in Nat /\ Len(line) = Len(q) + n
      /\ \A i \in 1 .. n : line[Len(q) + i] = txBuffers[i]
  BY <1>1, Joined
<1>3. n \in 0 .. Len(line) /\ place \in [1 .. n -> 1 .. Len(line)]
  BY <1>2
<1>4. \A i, j \in 1 .. n : i < j => place[i] < place[j]
  BY <1>2
<1>5. (q \o txBuffers)' = txBuffers
  <2>1. <<>> \o txBuffers = txBuffers
    BY <1>1
  <2> QED
    BY <2>1
<1>6. txBuffers = [i \in 1 .. n |-> line[place[i]]]
  <2>1. txBuffers = [i \in 1 .. n |-> txBuffers[i]]
    BY <1>1
  <2>2. \A i \in 1 .. n : line[place[i]] = txBuffers[i]
    BY <1>2
  <2> HIDE DEF line, place, n
  <2>3. [i \in 1 .. n |-> txBuffers[i]] = [i \in 1 .. n |-> line[place[i]]]
    BY <2>2
  <2> QED
    BY <2>1, <2>3
<1> HIDE DEF place, n
<1> QED
  BY <1>3, <1>4, <1>5, <1>6 DEF Link!Lose

\* A step of the device is a step of the line, or none.
LEMMA LinkStep ==
    MhiIInv /\ [MhiNext]_mhiVars => [Link!Take \/ Link!Deliver \/ Link!Lose]_(Link!linkVars)
<1> SUFFICES ASSUME MhiIInv, [MhiNext]_mhiVars
             PROVE  [Link!Take \/ Link!Deliver \/ Link!Lose]_(Link!linkVars)
  OBVIOUS
<1>1. q \in Seq(Packet) /\ txBuffers \in Seq(Packet)
  BY DEF MhiIInv, MhiTypeOK
<1>2. ASSUME UNCHANGED <<accepted, q, txBuffers, sent>> PROVE UNCHANGED Link!linkVars
  BY <1>2 DEF Link!linkVars
<1>3. CASE UNCHANGED mhiVars
  BY <1>2, <1>3 DEF mhiVars, txVars, workVars
<1>4. CASE Xmit
  <2>1. /\ accepted' = accepted + 1 /\ txBuffers' = Append(txBuffers, accepted + 1)
        /\ UNCHANGED <<q, sent>> /\ accepted + 1 \in Packet
    BY <1>4, Counts DEF Xmit, workVars, Packet
  <2>2. ASSUME NEW x \in Packet
        PROVE  q \o Append(txBuffers, x) = Append(q \o txBuffers, x)
    BY <1>1
  <2>3. (q \o txBuffers)' = Append(q \o txBuffers, accepted + 1)
    BY <2>1, <2>2
  <2> QED
    BY <2>1, <2>3 DEF Link!Take
<1>5. CASE WorkSplice
  <2>1. q = <<>> /\ q' = txBuffers /\ txBuffers' = <<>> /\ UNCHANGED <<accepted, sent>>
    BY <1>5 DEF WorkSplice, MhiIInv, WorkInv
  <2>2. txBuffers \o <<>> = <<>> \o txBuffers
    BY <1>1
  <2> QED
    BY <2>1, <2>2 DEF Link!linkVars
<1>6. CASE WorkSend
  <2>1. /\ q # <<>> /\ sent' = Append(sent, Head(q)) /\ q' = Tail(q)
        /\ UNCHANGED <<accepted, txBuffers>>
    BY <1>6 DEF WorkSend, txVars
  <2>2. q \o txBuffers # <<>> /\ Head(q \o txBuffers) = Head(q)
    BY <1>1, <2>1
  <2>3. Tail(q) \o txBuffers = Tail(q \o txBuffers)
    BY <1>1, <2>1
  <2> QED
    BY <2>1, <2>2, <2>3 DEF Link!Deliver
<1>7. CASE WorkDrop \/ WorkBreak
  <2>1. q' = <<>> /\ UNCHANGED <<accepted, txBuffers, sent>>
    BY <1>7 DEF WorkDrop, WorkBreak, txVars
  <2> QED
    BY <2>1, LoseBatch
<1>8. CASE \/ Probe \/ Open \/ Stop \/ RemoveWorkqueue \/ RemoveNetdev \/ XmitQueue
           \/ WorkStart \/ WorkFull \/ WorkDone \/ WorkCheck
           \/ (\E n \in 1 .. MaxElements : HostAdd(n)) \/ HostReset \/ DlCallback
  BY <1>2, <1>8 DEF Probe, Open, Stop, RemoveWorkqueue, RemoveNetdev, XmitQueue, WorkStart,
                    WorkFull, WorkDone, WorkCheck, HostAdd, HostReset, DlCallback, txVars, workVars
<1> QED
  BY <1>3, <1>4, <1>5, <1>6, <1>7, <1>8 DEF MhiNext, Work

(* mhi_ndo_xmit and mhi_ep_net_dev_process_queue_packets implement the line:     *)
(* packets are lost, and never reordered, repeated or invented.                    *)
THEOREM Implements == MhiSpec => LinkPromise
<1>1. MhiInit => Link!LinkInit
  <2> SUFFICES ASSUME MhiInit PROVE Link!LinkInit
    OBVIOUS
  <2>1. <<>> \o <<>> = <<>>
    OBVIOUS
  <2> QED
    BY <2>1 DEF MhiInit, Link!LinkInit
<1> QED
  BY <1>1, LinkStep, MhiInvariance, PTL DEF MhiSpec, LinkPromise, Link!LinkSpec

-----------------------------------------------------------------------------
(* IOVA region list *)

IovaRegion == [start : Addr, length : Addr]

Sorted(list) ==
    \A i, j \in 1 .. Len(list) : i < j => list[i].start + list[i].length <= list[j].start

IovaTypeInv ==
    /\ iovaPool \subseteq IovaRegion
    /\ iovaDma \in Seq(IovaRegion) /\ iovaResv \in Seq(IovaRegion)
    /\ iovaHeld = Len(iovaDma) + Len(iovaResv)
    /\ iovaPhase \in {"walk", "between", "beyond", "overlap", "nomem", "empty", "done"}
    /\ iovaPrev \in Nat
    /\ iovaPhase \in {"between", "beyond"} => iovaPrev \in 1 .. Len(iovaDma)
    /\ iovaPhase = "beyond" => iovaPrev = Len(iovaDma)
    /\ iovaPhase \notin {"between", "beyond", "done"} => iovaResv = <<>>

\* The device tree keeps its ranges well formed.
Pooled == \A r \in iovaPool : WellFormed(r)

\* The inverted list is what lies from low up to high outside the pool.
ReservedIn(low, high) ==
    /\ \A k \in 1 .. Len(iovaResv) : /\ low <= iovaResv[k].start
                                     /\ iovaResv[k].start + iovaResv[k].length <= high
    /\ \A a \in Addr :
           (\E k \in 1 .. Len(iovaResv) : a \in Addresses(iovaResv[k])) <=>
               /\ low <= a /\ a < high
               /\ \A i \in 1 .. Len(iovaDma) : a \notin Addresses(iovaDma[i])

\* What the IOMMU driver gets in the end.
Complement ==
    /\ Disjoint(iovaPool)
    /\ AddressesOf(RegionsOf(iovaResv)) =
           (Addr \ AddressesOf(iovaPool)) \ (IF TopLost THEN {IovaMax} ELSE {})

PoolInv ==
    /\ Sorted(iovaDma) /\ Sorted(iovaResv)
    /\ RegionsOf(iovaDma) \subseteq iovaPool
    /\ iovaPhase \in {"walk", "between", "beyond"} => RegionsOf(iovaDma) = iovaPool
    /\ iovaPhase = "overlap" => \E r \in iovaPool : \E d \in RegionsOf(iovaDma) :
                                    Addresses(r) \cap Addresses(d) # {}
    /\ iovaPhase = "between" =>
           ReservedIn(iovaDma[1].start + iovaDma[1].length, iovaDma[iovaPrev].start)
    /\ iovaPhase = "beyond" => ReservedIn(0, iovaDma[iovaPrev].start)
    /\ iovaPhase = "done" => Complement

IovaIInv == IovaTypeInv /\ (Pooled => PoolInv)

-----------------------------------------------------------------------------
(* Words and lists of regions *)

\* A sum that does not leave the address space does not wrap, and one that ends
\* with it wraps to 0.
LEMMA WordForm ==
    /\ \A n \in Addr : Word(n) = n
    /\ \A n \in Int : Word(n) \in Addr
    /\ Word(IovaMax + 1) = 0 /\ Word(0) = 0 /\ IovaMax \in Nat
    /\ \A n \in 1 .. IovaMax : Word(-n) = IovaMax + 1 - n
  BY IovaAssumption DEF Word, Addr

\* A region has a start and a length that are words.
LEMMA RegionForm ==
    ASSUME NEW s \in Addr, NEW n \in Int
    PROVE  /\ Region(s, n) \in IovaRegion
           /\ Region(s, n).start = s /\ Region(s, n).length = Word(n)
  BY WordForm DEF Region, IovaRegion

\* What is known of a region of a list.
LEMMA MemberForm ==
    ASSUME NEW list \in Seq(IovaRegion), NEW k \in 1 .. Len(list)
    PROVE  /\ list[k] \in IovaRegion /\ list[k].start \in Addr /\ list[k].length \in Addr
           /\ list[k].start \in Nat /\ list[k].length \in Nat /\ list[k].start <= IovaMax
           /\ list[k] \in RegionsOf(list)
<1>1. list[k] \in IovaRegion /\ k \in DOMAIN list
  OBVIOUS
<1>2. list[k].start \in Addr /\ list[k].length \in Addr
  BY <1>1 DEF IovaRegion
<1> QED
  BY <1>1, <1>2, IovaAssumption DEF Addr, RegionsOf

\* The addresses of a list are those of its regions.
LEMMA Covered ==
    ASSUME NEW list \in Seq(IovaRegion), NEW a
    PROVE  a \in AddressesOf(RegionsOf(list)) <=> \E k \in 1 .. Len(list) : a \in Addresses(list[k])
<1>1. DOMAIN list = 1 .. Len(list)
  OBVIOUS
<1> QED
  BY <1>1 DEF AddressesOf, RegionsOf

\* A sorted list is in order,
LEMMA SortedAscending ==
    ASSUME NEW list \in Seq(IovaRegion), Sorted(list)
    PROVE  Ascending(list)
  BY DEF Sorted, Ascending

\* two ranges one of which ends before the other starts have no address in common,
LEMMA Apart ==
    ASSUME NEW b \in Nat, NEW m \in Nat, NEW c \in Nat, NEW n \in Nat,
           b + m <= c \/ c + n <= b, NEW a \in b .. b + m - 1, a \in c .. c + n - 1
    PROVE  FALSE
  OBVIOUS

\* and so the regions of a sorted list are apart.
LEMMA SortedDisjoint ==
    ASSUME NEW list \in Seq(IovaRegion), Sorted(list)
    PROVE  Disjoint(RegionsOf(list))
<1>1. ASSUME NEW r \in RegionsOf(list), NEW s \in RegionsOf(list), r # s,
             NEW a, a \in Addresses(r), a \in Addresses(s)
      PROVE  FALSE
  <2>1. PICK i \in 1 .. Len(list) : r = list[i]
    BY DEF RegionsOf
  <2>2. PICK j \in 1 .. Len(list) : s = list[j]
    BY DEF RegionsOf
  <2>3. r.start \in Nat /\ r.length \in Nat /\ s.start \in Nat /\ s.length \in Nat
    BY <2>1, <2>2, MemberForm
  <2>4. i < j \/ j < i
    BY <1>1, <2>1, <2>2
  <2>5. r.start + r.length <= s.start \/ s.start + s.length <= r.start
    BY <2>1, <2>2, <2>4 DEF Sorted
  <2>6. a \in r.start .. r.start + r.length - 1 /\ a \in s.start .. s.start + s.length - 1
    BY <1>1 DEF Addresses
  <2> QED
    BY <2>3, <2>5, <2>6, Apart
<1> QED
  BY <1>1 DEF Disjoint

\* A concatenation, element by element.
LEMMA ConcatForm ==
    ASSUME NEW T, NEW s \in Seq(T), NEW t \in Seq(T)
    PROVE  /\ s \o t \in Seq(T) /\ Len(s \o t) = Len(s) + Len(t)
           /\ \A k \in 1 .. Len(s) : (s \o t)[k] = s[k]
           /\ \A k \in 1 .. Len(t) : (s \o t)[Len(s) + k] = t[k]
  OBVIOUS

\* insert_range puts a region at a place of the list.
LEMMA InsertForm ==
    ASSUME NEW list \in Seq(IovaRegion), NEW i \in 1 .. Len(list) + 1, NEW e \in IovaRegion
    PROVE  LET new == SubSeq(list, 1, i - 1) \o <<e>> \o SubSeq(list, i, Len(list))
           IN  /\ new \in Seq(IovaRegion) /\ Len(new) = Len(list) + 1 /\ new[i] = e
               /\ \A k \in 1 .. i - 1 : new[k] = list[k]
               /\ \A k \in i + 1 .. Len(list) + 1 : new[k] = list[k - 1]
<1> DEFINE l == SubSeq(list, 1, i - 1)
           r == SubSeq(list, i, Len(list))
           m == l \o <<e>>
           new == m \o r
<1>1. l \in Seq(IovaRegion) /\ Len(l) = i - 1 /\ \A k \in 1 .. i - 1 : l[k] = list[k]
  OBVIOUS
<1>2. /\ r \in Seq(IovaRegion) /\ Len(r) = Len(list) + 1 - i
      /\ \A k \in 1 .. Len(list) + 1 - i : r[k] = list[k + i - 1]
  OBVIOUS
<1>3. <<e>> \in Seq(IovaRegion) /\ Len(<<e>>) = 1 /\ <<e>>[1] = e
  OBVIOUS
<1> HIDE DEF l, r
<1>4. /\ m \in Seq(IovaRegion) /\ Len(m) = i /\ m[i] = e
      /\ \A k \in 1 .. i - 1 : m[k] = list[k]
  <2>1. m \in Seq(IovaRegion) /\ Len(m) = i - 1 + 1 /\ m[i - 1 + 1] = e
    BY <1>1, <1>3, ConcatForm
  <2>2. \A k \in 1 .. i - 1 : m[k] = l[k]
    BY <1>1, <1>3, ConcatForm
  <2> QED
    BY <1>1, <2>1, <2>2
<1> HIDE DEF m
<1>5. m \in Seq(IovaRegion) /\ r \in Seq(IovaRegion)
  BY <1>2, <1>4
<1>6. /\ new \in Seq(IovaRegion) /\ Len(new) = Len(m) + Len(r)
      /\ \A k \in 1 .. Len(m) : new[k] = m[k]
      /\ \A k \in 1 .. Len(r) : new[Len(m) + k] = r[k]
  BY <1>5, ConcatForm
<1> HIDE DEF new
<1>7. /\ Len(new) = Len(list) + 1 /\ new[i] = e
      /\ \A k \in 1 .. i - 1 : new[k] = list[k]
      /\ \A k \in i + 1 .. Len(list) + 1 : new[k] = list[k - 1]
  <2>1. Len(list) \in Nat /\ i \in Nat /\ i >= 1 /\ i <= Len(list) + 1
    OBVIOUS
  <2>2. Len(new) = Len(list) + 1
    BY <1>2, <1>4, <1>6, <2>1
  <2>3. i \in 1 .. Len(m)
    BY <1>4, <2>1
  <2>4. new[i] = e
    BY <1>4, <1>6, <2>3
  <2>5. ASSUME NEW k \in 1 .. i - 1 PROVE new[k] = list[k]
    <3>1. k \in 1 .. Len(m)
      BY <1>4, <2>1
    <3> QED
      BY <1>4, <1>6, <3>1
  <2>6. ASSUME NEW k \in i + 1 .. Len(list) + 1 PROVE new[k] = list[k - 1]
    <3>1. k - i \in 1 .. Len(list) + 1 - i /\ (k - i) + i - 1 = k - 1 /\ i + (k - i) = k
      BY <2>1
    <3>2. new[Len(m) + (k - i)] = r[k - i]
      BY <1>2, <1>6, <3>1
    <3>3. r[k - i] = list[(k - i) + i - 1]
      BY <1>2, <3>1
    <3> QED
      BY <1>4, <3>1, <3>2, <3>3
  <2> QED
    BY <2>2, <2>4, <2>5, <2>6
<1> QED
  BY <1>6, <1>7 DEF new, m, l, r

\* list_add and list_add_tail.
LEMMA EndsForm ==
    ASSUME NEW list \in Seq(IovaRegion), NEW e \in IovaRegion
    PROVE  /\ <<e>> \o list \in Seq(IovaRegion) /\ Len(<<e>> \o list) = Len(list) + 1
           /\ (<<e>> \o list)[1] = e
           /\ \A k \in 2 .. Len(list) + 1 : (<<e>> \o list)[k] = list[k - 1]
           /\ Append(list, e) \in Seq(IovaRegion) /\ Len(Append(list, e)) = Len(list) + 1
           /\ Append(list, e)[Len(list) + 1] = e
           /\ \A k \in 1 .. Len(list) : Append(list, e)[k] = list[k]
  OBVIOUS

\* What the list holds after a region was added in front or behind: the empty
\* region is left out, and covers nothing.
LEMMA AddLastForm ==
    ASSUME iovaResv \in Seq(IovaRegion), NEW g \in IovaRegion
    PROVE  /\ AddLast(g) \in Seq(IovaRegion)
           /\ \A k \in 1 .. Len(AddLast(g)) :
                  AddLast(g)[k] = g \/ \E j \in 1 .. Len(iovaResv) : AddLast(g)[k] = iovaResv[j]
           /\ \A a : (\E k \in 1 .. Len(AddLast(g)) : a \in Addresses(AddLast(g)[k]))
                         <=> \/ \E k \in 1 .. Len(iovaResv) : a \in Addresses(iovaResv[k])
                             \/ a \in Addresses(g)
           /\ Sorted(iovaResv) /\ (\A k \in 1 .. Len(iovaResv) :
                                      iovaResv[k].start + iovaResv[k].length <= g.start)
                  => Sorted(AddLast(g))
<1>a. g.start \in Nat /\ g.length \in Nat
  BY IovaAssumption DEF IovaRegion, Addr
<1>1. CASE g.length = 0
  <2>1. AddLast(g) = iovaResv
    BY <1>1 DEF AddLast
  <2>2. \A a : a \notin Addresses(g)
    BY <1>1, <1>a DEF Addresses
  <2> QED
    BY <2>1, <2>2
<1>2. CASE g.length # 0
  <2> DEFINE new == Append(iovaResv, g)
  <2>1. /\ new \in Seq(IovaRegion) /\ Len(new) = Len(iovaResv) + 1 /\ new[Len(iovaResv) + 1] = g
        /\ \A k \in 1 .. Len(iovaResv) : new[k] = iovaResv[k]
    BY EndsForm
  <2>2. AddLast(g) = new /\ Len(iovaResv) \in Nat
    BY <1>2 DEF AddLast
  <2> HIDE DEF new
  <2>3. ASSUME NEW k \in 1 .. Len(new) PROVE k \in 1 .. Len(iovaResv) \/ k = Len(iovaResv) + 1
    BY <2>1, <2>2
  <2>4. \A k \in 1 .. Len(iovaResv) : k \in 1 .. Len(new)
    BY <2>1, <2>2
  <2>5. Len(iovaResv) + 1 \in 1 .. Len(new)
    BY <2>1, <2>2
  <2>6. \A k \in 1 .. Len(new) : new[k] = g \/ \E j \in 1 .. Len(iovaResv) : new[k] = iovaResv[j]
    BY <2>1, <2>3
  <2>7. ASSUME NEW a
        PROVE  (\E k \in 1 .. Len(new) : a \in Addresses(new[k]))
                   <=> \/ \E k \in 1 .. Len(iovaResv) : a \in Addresses(iovaResv[k])
                       \/ a \in Addresses(g)
    BY <2>1, <2>3, <2>4, <2>5
  <2>8. ASSUME Sorted(iovaResv),
               \A k \in 1 .. Len(iovaResv) : iovaResv[k].start + iovaResv[k].length <= g.start
        PROVE  Sorted(new)
    <3> SUFFICES ASSUME NEW i \in 1 .. Len(new), NEW j \in 1 .. Len(new), i < j
                 PROVE  new[i].start + new[i].length <= new[j].start
      BY DEF Sorted
    <3>1. i \in 1 .. Len(iovaResv) /\ new[i] = iovaResv[i]
      BY <2>1, <2>2
    <3>2. CASE j = Len(iovaResv) + 1
      BY <2>1, <2>8, <3>1, <3>2
    <3>3. CASE j \in 1 .. Len(iovaResv)
      BY <2>1, <2>8, <3>1, <3>3 DEF Sorted
    <3> QED
      BY <2>3, <3>2, <3>3
  <2> QED
    BY <2>1, <2>2, <2>6, <2>7, <2>8
<1> QED
  BY <1>1, <1>2

\* The same in front of the list.
LEMMA AddFirstForm ==
    ASSUME iovaResv \in Seq(IovaRegion), NEW g \in IovaRegion
    PROVE  /\ AddFirst(g) \in Seq(IovaRegion)
           /\ \A k \in 1 .. Len(AddFirst(g)) :
                  AddFirst(g)[k] = g \/ \E j \in 1 .. Len(iovaResv) : AddFirst(g)[k] = iovaResv[j]
           /\ \A a : (\E k \in 1 .. Len(AddFirst(g)) : a \in Addresses(AddFirst(g)[k]))
                         <=> \/ \E k \in 1 .. Len(iovaResv) : a \in Addresses(iovaResv[k])
                             \/ a \in Addresses(g)
           /\ Sorted(iovaResv) /\ (\A k \in 1 .. Len(iovaResv) :
                                      g.start + g.length <= iovaResv[k].start)
                  => Sorted(AddFirst(g))
<1>a. g.start \in Nat /\ g.length \in Nat
  BY IovaAssumption DEF IovaRegion, Addr
<1>1. CASE g.length = 0
  <2>1. AddFirst(g) = iovaResv
    BY <1>1 DEF AddFirst
  <2>2. \A a : a \notin Addresses(g)
    BY <1>1, <1>a DEF Addresses
  <2> QED
    BY <2>1, <2>2
<1>2. CASE g.length # 0
  <2> DEFINE new == <<g>> \o iovaResv
  <2>1. /\ new \in Seq(IovaRegion) /\ Len(new) = Len(iovaResv) + 1 /\ new[1] = g
        /\ \A k \in 2 .. Len(iovaResv) + 1 : new[k] = iovaResv[k - 1]
    BY EndsForm
  <2>2. AddFirst(g) = new /\ Len(iovaResv) \in Nat
    BY <1>2 DEF AddFirst
  <2> HIDE DEF new
  <2>3. ASSUME NEW k \in 1 .. Len(new)
        PROVE  k = 1 \/ (k - 1 \in 1 .. Len(iovaResv) /\ new[k] = iovaResv[k - 1])
    BY <2>1, <2>2
  <2>4. ASSUME NEW k \in 1 .. Len(iovaResv) PROVE k + 1 \in 1 .. Len(new) /\ new[k + 1] = iovaResv[k]
    <3>1. k + 1 \in 2 .. Len(iovaResv) + 1 /\ (k + 1) - 1 = k /\ k + 1 \in 1 .. Len(new)
      BY <2>1, <2>2
    <3> QED
      BY <2>1, <3>1
  <2>5. 1 \in 1 .. Len(new)
    BY <2>1, <2>2
  <2>6. \A k \in 1 .. Len(new) : new[k] = g \/ \E j \in 1 .. Len(iovaResv) : new[k] = iovaResv[j]
    BY <2>1, <2>3
  <2>7. ASSUME NEW a
        PROVE  (\E k \in 1 .. Len(new) : a \in Addresses(new[k]))
                   <=> \/ \E k \in 1 .. Len(iovaResv) : a \in Addresses(iovaResv[k])
                       \/ a \in Addresses(g)
    BY <2>1, <2>3, <2>4, <2>5
  <2>8. ASSUME Sorted(iovaResv),
               \A k \in 1 .. Len(iovaResv) : g.start + g.length <= iovaResv[k].start
        PROVE  Sorted(new)
    <3> SUFFICES ASSUME NEW i \in 1 .. Len(new), NEW j \in 1 .. Len(new), i < j
                 PROVE  new[i].start + new[i].length <= new[j].start
      BY DEF Sorted
    <3>1. j - 1 \in 1 .. Len(iovaResv) /\ new[j] = iovaResv[j - 1]
      BY <2>3
    <3>2. CASE i = 1
      BY <2>1, <2>8, <3>1, <3>2
    <3>3. CASE i - 1 \in 1 .. Len(iovaResv) /\ new[i] = iovaResv[i - 1]
      <4>1. i - 1 < j - 1
        OBVIOUS
      <4> QED
        BY <2>8, <3>1, <3>3, <4>1 DEF Sorted
    <3> QED
      BY <2>3, <3>2, <3>3
  <2> QED
    BY <2>1, <2>2, <2>6, <2>7, <2>8
<1> QED
  BY <1>1, <1>2

-----------------------------------------------------------------------------
(* The steps of the IOVA regions *)

\* What the words of a region in the list are while the ranges are well formed.
LEMMA Tidy ==
    ASSUME NEW d \in IovaRegion, WellFormed(d)
    PROVE  /\ d.start \in Nat /\ d.length \in Nat /\ d.length >= 1
           /\ d.start + d.length - 1 \in Addr
           /\ Word(d.start + d.length - 1) = d.start + d.length - 1
           /\ d.start + d.length <= IovaMax + 1
<1>1. d.start \in 0 .. IovaMax /\ d.length \in 0 .. IovaMax /\ IovaMax \in Nat
  BY IovaAssumption DEF IovaRegion, Addr
<1>2. d.length # 0 /\ d.start + d.length <= IovaMax + 1
  BY DEF WellFormed
<1>3. d.start + d.length - 1 \in Addr
  BY <1>1, <1>2 DEF Addr
<1> QED
  BY <1>1, <1>2, <1>3, WordForm

\* A region of dma_regions is a range of the device tree.
LEMMA InDma ==
    ASSUME IovaTypeInv, Pooled, RegionsOf(iovaDma) \subseteq iovaPool, NEW j \in 1 .. Len(iovaDma)
    PROVE  /\ iovaDma[j] \in IovaRegion /\ WellFormed(iovaDma[j])
           /\ iovaDma[j] \in RegionsOf(iovaDma)
<1>1. iovaDma[j] \in IovaRegion /\ iovaDma[j] \in RegionsOf(iovaDma)
  BY MemberForm DEF IovaTypeInv
<1> QED
  BY <1>1 DEF Pooled

\* Of two ranges without a common address, the one that starts first ends before the
\* other starts; what ends before a range ends before what follows it.
LEMMA Aside ==
    ASSUME NEW b \in Nat, NEW m \in Nat, NEW c \in Nat, NEW n \in Nat, m >= 1, n >= 1,
           ~(b + m - 1 >= c /\ b <= c + n - 1)
    PROVE  (c <= b => c + n <= b) /\ (b < c => b + m <= c)
  OBVIOUS

\* The same for the range behind the next one.
LEMMA Onward ==
    ASSUME NEW b \in Nat, NEW m \in Nat, NEW c \in Nat, NEW n \in Nat, NEW d \in Nat,
           b + m <= c, c + n <= d
    PROVE  b + m <= d
  OBVIOUS

\* What ends where a range starts ends before the range does.
LEMMA Inward ==
    ASSUME NEW b \in Nat, NEW m \in Nat, NEW c \in Nat, NEW n \in Nat, b + m <= c
    PROVE  b + m <= c + n
  OBVIOUS

\* A range goes to its place between the regions that end before it and those
\* that start behind it.
LEMMA InsertSorted ==
    ASSUME IovaTypeInv, Pooled, PoolInv, NEW r \in IovaRegion, WellFormed(r),
           NEW i \in 1 .. Len(iovaDma) + 1, StopsAt(i, r.start), ~Refused(r, i)
    PROVE  /\ \A j \in 1 .. i - 1 : iovaDma[j].start + iovaDma[j].length <= r.start
           /\ \A j \in i .. Len(iovaDma) : r.start + r.length <= iovaDma[j].start
<1>1. RegionsOf(iovaDma) \subseteq iovaPool /\ Sorted(iovaDma) /\ Len(iovaDma) \in Nat
  BY DEF PoolInv, IovaTypeInv
<1>2. /\ r.start \in Nat /\ r.length \in Nat /\ r.length >= 1
      /\ Word(r.start + r.length - 1) = r.start + r.length - 1
  BY Tidy
<1>3. ASSUME NEW j \in 1 .. Len(iovaDma)
      PROVE  /\ iovaDma[j].start \in Nat /\ iovaDma[j].length \in Nat /\ iovaDma[j].length >= 1
             /\ Word(iovaDma[j].start + iovaDma[j].length - 1) = iovaDma[j].start + iovaDma[j].length - 1
  BY <1>1, InDma, Tidy
<1>4. ASSUME NEW j \in 1 .. Len(iovaDma), j <= i
      PROVE  /\ iovaDma[j].start <= r.start => iovaDma[j].start + iovaDma[j].length <= r.start
             /\ r.start < iovaDma[j].start => r.start + r.length <= iovaDma[j].start
  <2>1. ~CheckOverlap(iovaDma[j], r.start, r.start + r.length - 1)
    BY <1>2, <1>4 DEF Refused
  <2>2. ~(/\ r.start + r.length - 1 >= iovaDma[j].start
          /\ r.start <= iovaDma[j].start + iovaDma[j].length - 1)
    BY <1>3, <2>1 DEF CheckOverlap
  <2> QED
    BY <1>2, <1>3, <2>2, Aside
<1>5. ASSUME NEW j \in 1 .. i - 1 PROVE iovaDma[j].start + iovaDma[j].length <= r.start
  <2>1. j \in 1 .. Len(iovaDma) /\ j <= i
    BY <1>1
  <2>2. iovaDma[j].start <= r.start
    BY DEF StopsAt
  <2> QED
    BY <1>4, <2>1, <2>2
<1>6. ASSUME NEW j \in i .. Len(iovaDma) PROVE r.start + r.length <= iovaDma[j].start
  <2>1. i \in 1 .. Len(iovaDma) /\ j \in 1 .. Len(iovaDma) /\ i <= i
    BY <1>1
  <2>2. r.start < iovaDma[i].start
    BY <2>1 DEF StopsAt
  <2>3. r.start + r.length <= iovaDma[i].start
    BY <1>4, <2>1, <2>2
  <2>4. CASE j = i
    BY <2>3, <2>4
  <2>5. CASE i < j
    <3>1. iovaDma[i].start + iovaDma[i].length <= iovaDma[j].start
      BY <1>1, <2>1, <2>5 DEF Sorted
    <3> QED
      BY <1>2, <1>3, <2>1, <2>3, <3>1, Onward
  <2> QED
    BY <2>1, <2>4, <2>5
<1> QED
  BY <1>5, <1>6

\* insert_range keeps the list sorted, and it holds the ranges read so far.
LEMMA IovaInsertKeeps ==
    ASSUME IovaIInv, NEW r \in IovaRegion, NEW i \in 1 .. Len(iovaDma) + 1, IovaInsert(r, i)
    PROVE  IovaIInv'
<1> USE DEF IovaIInv
<1>1. /\ iovaDma' \in Seq(IovaRegion) /\ Len(iovaDma') = Len(iovaDma) + 1 /\ iovaDma'[i] = r
      /\ \A k \in 1 .. i - 1 : iovaDma'[k] = iovaDma[k]
      /\ \A k \in i + 1 .. Len(iovaDma) + 1 : iovaDma'[k] = iovaDma[k - 1]
  <2> DEFINE new == SubSeq(iovaDma, 1, i - 1) \o <<r>> \o SubSeq(iovaDma, i, Len(iovaDma))
  <2>1. iovaDma \in Seq(IovaRegion)
    BY DEF IovaTypeInv
  <2>2. /\ new \in Seq(IovaRegion) /\ Len(new) = Len(iovaDma) + 1 /\ new[i] = r
        /\ \A k \in 1 .. i - 1 : new[k] = iovaDma[k]
        /\ \A k \in i + 1 .. Len(iovaDma) + 1 : new[k] = iovaDma[k - 1]
    BY <2>1, InsertForm
  <2>3. iovaDma' = new
    BY DEF IovaInsert
  <2> HIDE DEF new
  <2> QED
    BY <2>2, <2>3
<1>2. iovaPool' = iovaPool \cup {r} /\ iovaPhase = "walk" /\ iovaPhase' = "walk"
  BY DEF IovaInsert
<1>3. iovaResv = <<>> /\ iovaResv' = <<>> /\ iovaPrev' = iovaPrev /\ Len(iovaDma) \in Nat
  BY <1>2 DEF IovaTypeInv, IovaInsert
<1>4. IovaTypeInv'
  <2>1. iovaHeld' = iovaHeld + 1 /\ iovaHeld = Len(iovaDma) + Len(iovaResv)
    BY DEF IovaTypeInv, IovaInsert
  <2>2. iovaHeld' = Len(iovaDma') + Len(iovaResv')
    BY <1>1, <1>3, <2>1
  <2> QED
    BY <1>1, <1>2, <1>3, <2>2 DEF IovaTypeInv
<1>5. ASSUME Pooled' PROVE PoolInv'
  <2>1. Pooled /\ WellFormed(r)
    BY <1>2, <1>5 DEF Pooled
  <2>2. PoolInv
    BY <2>1
  <2>3. /\ \A j \in 1 .. i - 1 : iovaDma[j].start + iovaDma[j].length <= r.start
        /\ \A j \in i .. Len(iovaDma) : r.start + r.length <= iovaDma[j].start
    <3>1. IovaTypeInv /\ StopsAt(i, r.start) /\ ~Refused(r, i)
      BY DEF IovaInsert
    <3> QED
      BY <2>1, <2>2, <3>1, InsertSorted
  <2>4. Sorted(iovaDma')
    <3> SUFFICES ASSUME NEW j \in 1 .. Len(iovaDma'), NEW k \in 1 .. Len(iovaDma'), j < k
                 PROVE  iovaDma'[j].start + iovaDma'[j].length <= iovaDma'[k].start
      BY DEF Sorted
    <3>1. /\ j \in 1 .. i - 1 \/ j = i \/ j \in i + 1 .. Len(iovaDma) + 1
          /\ k \in 1 .. i - 1 \/ k = i \/ k \in i + 1 .. Len(iovaDma) + 1
      BY <1>1, <1>3
    <3>2. \A m, n \in 1 .. Len(iovaDma) :
              m < n => iovaDma[m].start + iovaDma[m].length <= iovaDma[n].start
      BY <2>2 DEF PoolInv, Sorted
    <3>3. CASE j \in 1 .. i - 1 /\ k \in 1 .. i - 1
      <4>1. j \in 1 .. Len(iovaDma) /\ k \in 1 .. Len(iovaDma)
        BY <1>3, <3>3
      <4> QED
        BY <1>1, <3>2, <3>3, <4>1
    <3>4. CASE j \in 1 .. i - 1 /\ k = i
      BY <1>1, <2>3, <3>4
    <3>5. CASE j \in 1 .. i - 1 /\ k \in i + 1 .. Len(iovaDma) + 1
      <4>1. j \in 1 .. Len(iovaDma) /\ k - 1 \in 1 .. Len(iovaDma) /\ j < k - 1
        BY <1>3, <3>5
      <4> QED
        BY <1>1, <3>2, <3>5, <4>1
    <3>6. CASE j = i /\ k \in i + 1 .. Len(iovaDma) + 1
      <4>1. k - 1 \in i .. Len(iovaDma)
        BY <1>3, <3>6
      <4> QED
        BY <1>1, <2>3, <3>6, <4>1
    <3>7. CASE j \in i + 1 .. Len(iovaDma) + 1 /\ k \in i + 1 .. Len(iovaDma) + 1
      <4>1. j - 1 \in 1 .. Len(iovaDma) /\ k - 1 \in 1 .. Len(iovaDma) /\ j - 1 < k - 1
        BY <1>3, <3>7
      <4> QED
        BY <1>1, <3>2, <3>7, <4>1
    <3> QED
      BY <3>1, <3>3, <3>4, <3>5, <3>6, <3>7
  <2>5. RegionsOf(iovaDma') = iovaPool'
    <3>1. /\ RegionsOf(iovaDma) = iovaPool
          /\ DOMAIN iovaDma = 1 .. Len(iovaDma) /\ DOMAIN iovaDma' = 1 .. Len(iovaDma')
      BY <1>1, <1>2, <2>2 DEF PoolInv, IovaTypeInv
    <3>2. ASSUME NEW k \in 1 .. Len(iovaDma') PROVE iovaDma'[k] \in iovaPool'
      <4>1. CASE k \in 1 .. i - 1
        <5>1. k \in 1 .. Len(iovaDma)
          BY <1>3, <4>1
        <5> QED
          BY <1>1, <1>2, <3>1, <4>1, <5>1 DEF RegionsOf
      <4>2. CASE k = i
        BY <1>1, <1>2, <4>2
      <4>3. CASE k \in i + 1 .. Len(iovaDma) + 1
        <5>1. k - 1 \in 1 .. Len(iovaDma)
          BY <1>3, <4>3
        <5> QED
          BY <1>1, <1>2, <3>1, <4>3, <5>1 DEF RegionsOf
      <4> QED
        BY <1>1, <1>3, <4>1, <4>2, <4>3
    <3>3. ASSUME NEW j \in 1 .. Len(iovaDma) PROVE iovaDma[j] \in RegionsOf(iovaDma')
      <4>1. CASE j \in 1 .. i - 1
        <5>1. j \in 1 .. Len(iovaDma')
          BY <1>1, <1>3
        <5> QED
          BY <1>1, <3>1, <4>1, <5>1 DEF RegionsOf
      <4>2. CASE j \in i .. Len(iovaDma)
        <5>1. /\ j + 1 \in i + 1 .. Len(iovaDma) + 1 /\ j + 1 \in 1 .. Len(iovaDma')
              /\ (j + 1) - 1 = j
          BY <1>1, <1>3, <4>2
        <5>2. iovaDma'[j + 1] = iovaDma[j]
          BY <1>1, <5>1
        <5> QED
          BY <3>1, <5>1, <5>2 DEF RegionsOf
      <4> QED
        BY <1>3, <4>1, <4>2
    <3>4. r \in RegionsOf(iovaDma')
      <4>1. i \in 1 .. Len(iovaDma')
        BY <1>1, <1>3
      <4> QED
        BY <1>1, <3>1, <4>1 DEF RegionsOf
    <3>5. RegionsOf(iovaDma') \subseteq iovaPool'
      BY <3>1, <3>2 DEF RegionsOf
    <3>6. iovaPool' \subseteq RegionsOf(iovaDma')
      BY <1>2, <3>1, <3>3, <3>4 DEF RegionsOf
    <3> QED
      BY <3>5, <3>6
  <2>6. Sorted(iovaResv')
    BY <1>3 DEF Sorted
  <2> QED
    BY <1>2, <2>4, <2>5, <2>6 DEF PoolInv
<1> QED
  BY <1>4, <1>5

\* A refusal is for a region of the list that the range does overlap.
LEMMA IovaInsertFailKeeps ==
    ASSUME IovaIInv, NEW r \in IovaRegion, NEW i \in 1 .. Len(iovaDma) + 1, IovaInsertFail(r, i)
    PROVE  IovaIInv'
<1> USE DEF IovaIInv
<1>1. /\ iovaPool' = iovaPool \cup {r} /\ iovaPhase = "walk"
      /\ iovaPhase' = IF Refused(r, i) THEN "overlap" ELSE "nomem"
  BY DEF IovaInsertFail
<1>2. iovaDma' = iovaDma /\ iovaResv' = iovaResv /\ iovaHeld' = iovaHeld /\ iovaPrev' = iovaPrev
  BY DEF IovaInsertFail
<1>3. iovaPhase' \in {"overlap", "nomem"}
  BY <1>1
<1>4. IovaTypeInv'
  BY <1>1, <1>2, <1>3 DEF IovaTypeInv
<1>5. ASSUME Pooled' PROVE PoolInv'
  <2>1. Pooled /\ WellFormed(r)
    BY <1>1, <1>5 DEF Pooled
  <2>2. PoolInv /\ IovaTypeInv /\ RegionsOf(iovaDma) \subseteq iovaPool
    BY <2>1 DEF PoolInv
  <2>3. ASSUME Refused(r, i)
        PROVE  \E s \in iovaPool' : \E d \in RegionsOf(iovaDma') :
                   Addresses(s) \cap Addresses(d) # {}
    <3>1. PICK j \in 1 .. Len(iovaDma) :
              CheckOverlap(iovaDma[j], r.start, Word(r.start + r.length - 1))
      BY <2>3 DEF Refused
    <3>2. iovaDma[j] \in IovaRegion /\ WellFormed(iovaDma[j]) /\ iovaDma[j] \in RegionsOf(iovaDma)
      BY <2>1, <2>2, InDma
    <3> DEFINE d == iovaDma[j]
    <3>3. /\ r.start \in Nat /\ r.length \in Nat /\ r.length >= 1
          /\ Word(r.start + r.length - 1) = r.start + r.length - 1
      BY <2>1, Tidy
    <3>4. /\ d.start \in Nat /\ d.length \in Nat /\ d.length >= 1
          /\ Word(d.start + d.length - 1) = d.start + d.length - 1
      BY <3>2, Tidy
    <3>5. r.start + r.length - 1 >= d.start /\ r.start <= d.start + d.length - 1
      BY <3>1, <3>3, <3>4 DEF CheckOverlap
    <3>6. d \in RegionsOf(iovaDma') /\ r \in iovaPool'
      BY <1>1, <1>2, <3>2
    <3> HIDE DEF d
    <3>7. CASE r.start <= d.start
      <4>1. d.start \in Addresses(r) /\ d.start \in Addresses(d)
        BY <3>3, <3>4, <3>5, <3>7 DEF Addresses
      <4> QED
        BY <3>6, <4>1
    <3>8. CASE d.start <= r.start
      <4>1. r.start \in Addresses(r) /\ r.start \in Addresses(d)
        BY <3>3, <3>4, <3>5, <3>8 DEF Addresses
      <4> QED
        BY <3>6, <4>1
    <3> QED
      BY <3>3, <3>4, <3>7, <3>8
  <2> QED
    BY <1>1, <1>2, <1>3, <2>2, <2>3 DEF PoolInv
<1> QED
  BY <1>4, <1>5

\* From the list of the ranges to the first gap: nothing lies between the end of a
\* region and its start.
LEMMA IovaInvertKeeps == IovaIInv /\ IovaInvert => IovaIInv'
<1> SUFFICES ASSUME IovaIInv, IovaInvert PROVE IovaIInv'
  OBVIOUS
<1> USE DEF IovaIInv
<1>1. /\ iovaPhase = "walk" /\ iovaPool' = iovaPool /\ iovaDma' = iovaDma
      /\ iovaResv' = iovaResv /\ iovaHeld' = iovaHeld
  BY DEF IovaInvert
<1>2. iovaResv = <<>> /\ iovaDma \in Seq(IovaRegion)
  BY <1>1 DEF IovaTypeInv
<1>3. CASE iovaDma = <<>>
  <2>1. iovaPhase' = "empty" /\ iovaPrev' = iovaPrev
    BY <1>3 DEF IovaInvert
  <2>2. IovaTypeInv'
    BY <1>1, <2>1 DEF IovaTypeInv
  <2>3. ASSUME Pooled' PROVE PoolInv'
    BY <1>1, <2>1, <2>3 DEF Pooled, PoolInv
  <2> QED
    BY <2>2, <2>3
<1>4. CASE iovaDma # <<>>
  <2>1. iovaPhase' = "between" /\ iovaPrev' = 1
    BY <1>4 DEF IovaInvert
  <2>2. 1 \in 1 .. Len(iovaDma)
    BY <1>2, <1>4
  <2>3. IovaTypeInv'
    BY <1>1, <2>1, <2>2 DEF IovaTypeInv
  <2>4. ASSUME Pooled' PROVE PoolInv'
    <3>1. Pooled /\ PoolInv /\ IovaTypeInv
      BY <1>1, <2>4 DEF Pooled
    <3>2. ReservedIn(iovaDma[1].start + iovaDma[1].length, iovaDma[1].start)
      <4>1. iovaDma[1].start \in Nat /\ iovaDma[1].length \in Nat
        BY <1>2, <2>2, MemberForm
      <4>2. ASSUME NEW a \in Addr, iovaDma[1].start + iovaDma[1].length <= a, a < iovaDma[1].start
            PROVE  FALSE
        BY <4>1, <4>2, IovaAssumption DEF Addr
      <4>3. Len(iovaResv) = 0
        BY <1>2
      <4> QED
        BY <4>2, <4>3 DEF ReservedIn
    <3>3. ReservedIn(iovaDma[1].start + iovaDma[1].length, iovaDma[iovaPrev].start)'
      BY <1>1, <2>1, <3>2 DEF ReservedIn
    <3> QED
      BY <1>1, <2>1, <3>1, <3>3 DEF PoolInv
  <2> QED
    BY <2>3, <2>4
<1> QED
  BY <1>3, <1>4

\* What the ranges say of the regions of the list.
LEMMA DmaForm ==
    ASSUME IovaTypeInv, Pooled, PoolInv, NEW p \in 1 .. Len(iovaDma)
    PROVE  LET b == iovaDma[p].start
               e == iovaDma[p].start + iovaDma[p].length
           IN  /\ b \in Nat /\ e \in Nat /\ iovaDma[p].length \in Nat /\ iovaDma[p].length >= 1
               /\ b < e /\ e <= IovaMax + 1 /\ b <= IovaMax /\ b \in Addr
               /\ Addresses(iovaDma[p]) = b .. e - 1
               /\ iovaDma[p] \in IovaRegion
<1>1. iovaDma[p] \in IovaRegion /\ WellFormed(iovaDma[p])
  BY InDma DEF PoolInv
<1>2. /\ iovaDma[p].start \in Nat /\ iovaDma[p].length \in Nat /\ iovaDma[p].length >= 1
      /\ iovaDma[p].start + iovaDma[p].length <= IovaMax + 1
  BY <1>1, Tidy
<1>3. iovaDma[p].start \in Addr /\ iovaDma[p].start <= IovaMax
  BY <1>1, IovaAssumption DEF IovaRegion, Addr
<1>4. /\ iovaDma[p].start < iovaDma[p].start + iovaDma[p].length
      /\ iovaDma[p].start + iovaDma[p].length \in Nat
  BY <1>2
<1> QED
  BY <1>1, <1>2, <1>3, <1>4 DEF Addresses

\* Seen from one region of the list, the others end at or before its start or start at or
\* behind its end.
LEMMA DmaOrder ==
    ASSUME IovaTypeInv, Pooled, PoolInv, NEW p \in 1 .. Len(iovaDma), NEW j \in 1 .. Len(iovaDma)
    PROVE  /\ j < p => iovaDma[j].start + iovaDma[j].length <= iovaDma[p].start
           /\ p < j => iovaDma[p].start + iovaDma[p].length <= iovaDma[j].start
           /\ j = p \/ j < p \/ p < j
<1>1. Sorted(iovaDma)
  BY DEF PoolInv
<1> QED
  BY <1>1 DEF Sorted

\* A gap between two regions is a region, whatever wraps.
LEMMA InvertBetweenTypes ==
    ASSUME IovaTypeInv, InvertBetween
    PROVE  /\ IovaTypeInv'
           /\ iovaPrev \in 1 .. Len(iovaDma) /\ iovaPrev + 1 \in 1 .. Len(iovaDma)
           /\ Between(iovaDma[iovaPrev], iovaDma[iovaPrev + 1]) \in IovaRegion
<1>1. /\ iovaPhase = "between" /\ iovaPrev < Len(iovaDma) /\ iovaPrev' = iovaPrev + 1
      /\ iovaResv' = AddLast(Between(iovaDma[iovaPrev], iovaDma[iovaPrev + 1]))
      /\ iovaHeld' = iovaHeld + Len(iovaResv') - Len(iovaResv)
      /\ iovaPool' = iovaPool /\ iovaDma' = iovaDma /\ iovaPhase' = iovaPhase
  BY DEF InvertBetween
<1>2. /\ iovaDma \in Seq(IovaRegion) /\ iovaResv \in Seq(IovaRegion) /\ Len(iovaDma) \in Nat
      /\ iovaPrev \in 1 .. Len(iovaDma) /\ iovaHeld = Len(iovaDma) + Len(iovaResv)
  BY <1>1 DEF IovaTypeInv
<1>3. iovaPrev + 1 \in 1 .. Len(iovaDma)
  BY <1>1, <1>2
<1>4. Between(iovaDma[iovaPrev], iovaDma[iovaPrev + 1]) \in IovaRegion
  <2>1. /\ iovaDma[iovaPrev].start \in Nat /\ iovaDma[iovaPrev].length \in Nat
        /\ iovaDma[iovaPrev + 1].start \in Nat
    BY <1>2, <1>3, MemberForm
  <2>2. iovaDma[iovaPrev].start + iovaDma[iovaPrev].length \in Int
    BY <2>1
  <2>3. IovaEnd(iovaDma[iovaPrev]) \in Addr
    BY <2>2, WordForm DEF IovaEnd
  <2>4. IovaEnd(iovaDma[iovaPrev]) \in Int
    BY <2>3, IovaAssumption DEF Addr
  <2>5. iovaDma[iovaPrev + 1].start - IovaEnd(iovaDma[iovaPrev]) \in Int
    BY <2>1, <2>4
  <2> QED
    BY <2>3, <2>5, RegionForm DEF Between
<1>5. iovaResv' \in Seq(IovaRegion)
  BY <1>1, <1>2, <1>4, AddLastForm
<1>6. iovaHeld' = Len(iovaDma') + Len(iovaResv')
  <2>1. Len(iovaResv) \in Nat /\ Len(iovaResv') \in Nat
    BY <1>2, <1>5
  <2> QED
    BY <1>1, <1>2, <2>1
<1>7. iovaPrev' \in Nat /\ iovaPrev' \in 1 .. Len(iovaDma')
  BY <1>1, <1>3
<1> QED
  BY <1>1, <1>2, <1>3, <1>4, <1>5, <1>6, <1>7 DEF IovaTypeInv

\* The gap behind a region ends where the next one starts.
LEMMA InvertBetweenKeeps == IovaIInv /\ InvertBetween => IovaIInv'
<1> SUFFICES ASSUME IovaIInv, InvertBetween PROVE IovaIInv'
  OBVIOUS
<1> USE DEF IovaIInv
<1> DEFINE p == iovaPrev
           g == Between(iovaDma[p], iovaDma[p + 1])
           low == iovaDma[1].start + iovaDma[1].length
           b == iovaDma[p].start
           e == iovaDma[p].start + iovaDma[p].length
           next == iovaDma[p + 1].start
<1>1. IovaTypeInv' /\ p \in 1 .. Len(iovaDma) /\ p + 1 \in 1 .. Len(iovaDma) /\ g \in IovaRegion
  BY InvertBetweenTypes
<1>2. /\ iovaPhase = "between" /\ iovaPhase' = "between" /\ iovaResv' = AddLast(g)
      /\ iovaPool' = iovaPool /\ iovaDma' = iovaDma /\ iovaPrev' = p + 1
  BY DEF InvertBetween
<1>3. ASSUME Pooled' PROVE PoolInv'
  <2>1. Pooled /\ PoolInv /\ IovaTypeInv
    BY <1>2, <1>3 DEF Pooled
  <2>2. Sorted(iovaResv) /\ ReservedIn(low, b) /\ iovaResv \in Seq(IovaRegion)
    BY <1>2, <2>1 DEF PoolInv, IovaTypeInv
  <2>3. /\ b \in Nat /\ e \in Nat /\ b < e
        /\ Addresses(iovaDma[p]) = b .. e - 1
    BY <1>1, <2>1, DmaForm
  <2>4. next \in Nat /\ next \in Addr /\ next <= IovaMax
    BY <1>1, <2>1, DmaForm
  <2>5. e <= next
    BY <1>1, <2>1, DmaOrder
  <2>6. 1 \in 1 .. Len(iovaDma) /\ low \in Nat
    <3>1. 1 \in 1 .. Len(iovaDma)
      BY <1>1
    <3> QED
      BY <2>1, <3>1, DmaForm
  <2>7. low <= e
    <3>1. CASE p = 1
      BY <2>3, <3>1
    <3>2. CASE 1 < p
      <4>1. low <= b
        BY <1>1, <2>1, <2>6, <3>2, DmaOrder
      <4> QED
        BY <2>3, <2>6, <4>1
    <3> QED
      BY <1>1, <3>1, <3>2
  <2>8. g.start = e /\ g.length = next - e
    <3>1. e \in Addr /\ next - e \in Addr /\ next - e \in Int
      BY <2>3, <2>4, <2>5, IovaAssumption DEF Addr
    <3>2. IovaEnd(iovaDma[p]) = e
      BY <3>1, WordForm DEF IovaEnd
    <3>3. g = Region(e, next - e)
      BY <3>2 DEF Between
    <3>4. Word(next - e) = next - e
      BY <3>1, WordForm
    <3> QED
      BY <3>1, <3>3, <3>4, RegionForm
  <2>9. \A a : a \in Addresses(g) <=> a \in e .. next - 1
    BY <2>3, <2>4, <2>8 DEF Addresses
  <2>10. ASSUME NEW k \in 1 .. Len(iovaResv)
         PROVE  /\ low <= iovaResv[k].start /\ iovaResv[k].start + iovaResv[k].length <= b
                /\ iovaResv[k].start \in Nat /\ iovaResv[k].length \in Nat
    BY <2>2, MemberForm DEF ReservedIn
  <2>11. Sorted(AddLast(g))
    <3>1. \A k \in 1 .. Len(iovaResv) : iovaResv[k].start + iovaResv[k].length <= g.start
      BY <2>3, <2>8, <2>10
    <3> QED
      BY <1>1, <2>2, <3>1, AddLastForm
  <2> HIDE DEF g, b, e, next, low
  <2>12. ASSUME NEW k \in 1 .. Len(AddLast(g))
         PROVE  low <= AddLast(g)[k].start /\ AddLast(g)[k].start + AddLast(g)[k].length <= next
    <3>1. AddLast(g)[k] = g \/ \E j \in 1 .. Len(iovaResv) : AddLast(g)[k] = iovaResv[j]
      BY <1>1, <2>2, AddLastForm
    <3>2. CASE AddLast(g)[k] = g
      BY <2>3, <2>4, <2>7, <2>8, <3>2
    <3>3. ASSUME NEW j \in 1 .. Len(iovaResv), AddLast(g)[k] = iovaResv[j]
          PROVE  low <= AddLast(g)[k].start /\ AddLast(g)[k].start + AddLast(g)[k].length <= next
      BY <2>3, <2>4, <2>5, <2>10, <3>3
    <3> QED
      BY <3>1, <3>2, <3>3
  <2>13. ASSUME NEW a \in Addr
         PROVE  (\E k \in 1 .. Len(AddLast(g)) : a \in Addresses(AddLast(g)[k])) <=>
                    /\ low <= a /\ a < next
                    /\ \A i \in 1 .. Len(iovaDma) : a \notin Addresses(iovaDma[i])
    <3> DEFINE free == \A i \in 1 .. Len(iovaDma) : a \notin Addresses(iovaDma[i])
               old == \E k \in 1 .. Len(iovaResv) : a \in Addresses(iovaResv[k])
               new == \E k \in 1 .. Len(AddLast(g)) : a \in Addresses(AddLast(g)[k])
    <3>1. new <=> old \/ a \in Addresses(g)
      BY <1>1, <2>2, AddLastForm
    <3>2. old <=> low <= a /\ a < b /\ free
      BY <2>2 DEF ReservedIn, low, b
    <3>3. a \in Nat
      BY IovaAssumption DEF Addr
    <3>4. ASSUME a \in e .. next - 1 PROVE free
      <4> SUFFICES ASSUME NEW i \in 1 .. Len(iovaDma), a \in Addresses(iovaDma[i]) PROVE FALSE
        OBVIOUS
      <4> DEFINE bi == iovaDma[i].start
                 ei == iovaDma[i].start + iovaDma[i].length
      <4>1. bi \in Nat /\ ei \in Nat /\ bi < ei /\ Addresses(iovaDma[i]) = bi .. ei - 1
        BY <2>1, DmaForm
      <4>2. /\ i < p => ei <= b
            /\ i = p \/ i < p \/ p < i
        BY <1>1, <2>1, DmaOrder DEF b
      <4>3. /\ p + 1 < i => iovaDma[p + 1].start + iovaDma[p + 1].length <= bi
            /\ i = p + 1 \/ i < p + 1 \/ p + 1 < i
        BY <1>1, <2>1, DmaOrder
      <4>4. iovaDma[p + 1].length \in Nat
        BY <1>1, <2>1, DmaForm
      <4>5. i = p => ei = e
        BY DEF e
      <4>6. i = p + 1 => bi = next
        BY DEF next
      <4>7. p + 1 < i => next + iovaDma[p + 1].length <= bi
        BY <4>3 DEF next
      <4> HIDE DEF bi, ei
      <4>8. bi <= a /\ a < ei /\ e <= a /\ a < next
        BY <3>3, <3>4, <4>1, <2>3, <2>4
      <4>9. CASE i <= p
        <5>1. ei <= e
          BY <1>1, <2>3, <4>1, <4>2, <4>5, <4>9
        <5> QED
          BY <2>3, <3>3, <4>1, <4>8, <5>1
      <4>10. CASE p + 1 <= i
        <5>1. next <= bi
          BY <1>1, <2>4, <4>1, <4>4, <4>6, <4>7, <4>10
        <5> QED
          BY <2>4, <3>3, <4>1, <4>8, <5>1
      <4> QED
        BY <1>1, <4>9, <4>10
    <3>5. ASSUME free, ~(a < b) PROVE ~(a < e)
      <4>1. a \notin b .. e - 1
        BY <1>1, <2>3, <3>5
      <4> QED
        BY <2>3, <3>3, <3>5, <4>1
    <3> HIDE DEF free, old, new
    <3>6. a \in Addresses(g) <=> a \in e .. next - 1
      BY <2>9
    <3>7. a \in e .. next - 1 <=> e <= a /\ a < next
      BY <2>3, <2>4, <3>3
    <3>8. a < b => a < next
      BY <2>3, <2>4, <2>5, <3>3
    <3>9. e <= a => low <= a
      BY <2>3, <2>6, <2>7, <3>3
    <3>10. ~(a < e) => e <= a
      BY <2>3, <3>3
    <3>11. new <=> low <= a /\ a < next /\ free
      BY <3>1, <3>2, <3>4, <3>5, <3>6, <3>7, <3>8, <3>9, <3>10
    <3> QED
      BY <3>11 DEF new, free
  <2>14. ReservedIn(iovaDma[1].start + iovaDma[1].length, iovaDma[iovaPrev].start)'
    <3>1. /\ iovaDma'[1].start + iovaDma'[1].length = low
          /\ iovaDma'[iovaPrev'].start = next
      BY <1>2 DEF low, next
    <3>2. \A k \in 1 .. Len(iovaResv') : /\ low <= iovaResv'[k].start
                                         /\ iovaResv'[k].start + iovaResv'[k].length <= next
      BY <1>2, <2>12
    <3>3. \A a \in Addr :
              (\E k \in 1 .. Len(iovaResv') : a \in Addresses(iovaResv'[k])) <=>
                  /\ low <= a /\ a < next
                  /\ \A i \in 1 .. Len(iovaDma') : a \notin Addresses(iovaDma'[i])
      BY <1>2, <2>13
    <3> QED
      BY <3>1, <3>2, <3>3 DEF ReservedIn
  <2> QED
    BY <1>2, <2>1, <2>11, <2>14 DEF PoolInv
<1> QED
  BY <1>1, <1>3

\* The gap below the first region is a region.
LEMMA InvertBeforeTypes ==
    ASSUME IovaTypeInv, InvertBefore
    PROVE  /\ IovaTypeInv' /\ 1 \in 1 .. Len(iovaDma) /\ iovaPrev \in 1 .. Len(iovaDma)
           /\ Before(iovaDma[1]) \in IovaRegion
           /\ Before(iovaDma[1]).start = 0 /\ Before(iovaDma[1]).length = iovaDma[1].start
<1>1. /\ iovaPhase = "between" /\ iovaPrev = Len(iovaDma) /\ iovaPrev' = iovaPrev
      /\ iovaResv' = AddFirst(Before(iovaDma[1]))
      /\ iovaHeld' = iovaHeld + Len(iovaResv') - Len(iovaResv)
      /\ iovaPool' = iovaPool /\ iovaDma' = iovaDma /\ iovaPhase' = "beyond"
  BY DEF InvertBefore
<1>2. /\ iovaDma \in Seq(IovaRegion) /\ iovaResv \in Seq(IovaRegion) /\ Len(iovaDma) \in Nat
      /\ iovaPrev \in 1 .. Len(iovaDma) /\ iovaHeld = Len(iovaDma) + Len(iovaResv)
  BY <1>1 DEF IovaTypeInv
<1>3. 1 \in 1 .. Len(iovaDma)
  BY <1>2
<1>4. /\ Before(iovaDma[1]) \in IovaRegion
      /\ Before(iovaDma[1]).start = 0 /\ Before(iovaDma[1]).length = iovaDma[1].start
  <2>1. iovaDma[1].start \in Addr /\ iovaDma[1].start \in Int
    BY <1>2, <1>3, MemberForm
  <2>2. 0 \in Addr
    BY IovaAssumption DEF Addr
  <2>3. Word(iovaDma[1].start) = iovaDma[1].start
    BY <2>1, WordForm
  <2> QED
    BY <2>1, <2>2, <2>3, RegionForm DEF Before
<1>5. iovaResv' \in Seq(IovaRegion)
  BY <1>1, <1>2, <1>4, AddFirstForm
<1>6. iovaHeld' = Len(iovaDma') + Len(iovaResv')
  <2>1. Len(iovaResv) \in Nat /\ Len(iovaResv') \in Nat
    BY <1>2, <1>5
  <2> QED
    BY <1>1, <1>2, <2>1
<1> QED
  BY <1>1, <1>2, <1>3, <1>4, <1>5, <1>6 DEF IovaTypeInv

\* What lies below the first region is covered by none.
LEMMA InvertBeforeKeeps == IovaIInv /\ InvertBefore => IovaIInv'
<1> SUFFICES ASSUME IovaIInv, InvertBefore PROVE IovaIInv'
  OBVIOUS
<1> USE DEF IovaIInv
<1> DEFINE p == iovaPrev
           g == Before(iovaDma[1])
           first == iovaDma[1].start
           low == iovaDma[1].start + iovaDma[1].length
           b == iovaDma[p].start
<1>1. /\ IovaTypeInv' /\ 1 \in 1 .. Len(iovaDma) /\ p \in 1 .. Len(iovaDma) /\ g \in IovaRegion
      /\ g.start = 0 /\ g.length = first
  BY InvertBeforeTypes
<1>2. /\ iovaPhase = "between" /\ iovaPhase' = "beyond" /\ iovaResv' = AddFirst(g)
      /\ iovaPool' = iovaPool /\ iovaDma' = iovaDma /\ iovaPrev' = p
  BY DEF InvertBefore
<1>3. ASSUME Pooled' PROVE PoolInv'
  <2>1. Pooled /\ PoolInv /\ IovaTypeInv
    BY <1>2, <1>3 DEF Pooled
  <2>2. Sorted(iovaResv) /\ ReservedIn(low, b) /\ iovaResv \in Seq(IovaRegion)
    BY <1>2, <2>1 DEF PoolInv, IovaTypeInv
  <2>3. /\ first \in Nat /\ low \in Nat /\ first < low
        /\ Addresses(iovaDma[1]) = first .. low - 1
    BY <1>1, <2>1, DmaForm
  <2>4. b \in Nat
    BY <1>1, <2>1, DmaForm
  <2>5. ASSUME NEW j \in 1 .. Len(iovaDma) PROVE first <= iovaDma[j].start
    <3>1. iovaDma[j].start \in Nat
      BY <2>1, DmaForm
    <3>2. 1 < j => low <= iovaDma[j].start
      BY <1>1, <2>1, DmaOrder
    <3>3. j = 1 \/ 1 < j
      OBVIOUS
    <3> QED
      BY <2>3, <3>1, <3>2, <3>3
  <2>6. first <= b
    BY <1>1, <2>5
  <2>7. \A a : a \in Addresses(g) <=> a \in 0 .. first - 1
    BY <1>1, <2>3 DEF Addresses
  <2>8. ASSUME NEW k \in 1 .. Len(iovaResv)
        PROVE  /\ low <= iovaResv[k].start /\ iovaResv[k].start + iovaResv[k].length <= b
               /\ iovaResv[k].start \in Nat /\ iovaResv[k].length \in Nat
    BY <2>2, MemberForm DEF ReservedIn
  <2>9. Sorted(AddFirst(g))
    <3>1. \A k \in 1 .. Len(iovaResv) : g.start + g.length <= iovaResv[k].start
      BY <1>1, <2>3, <2>8
    <3> QED
      BY <1>1, <2>2, <3>1, AddFirstForm
  <2> HIDE DEF g, first, low, b
  <2>10. ASSUME NEW k \in 1 .. Len(AddFirst(g))
         PROVE  0 <= AddFirst(g)[k].start /\ AddFirst(g)[k].start + AddFirst(g)[k].length <= b
    <3>1. AddFirst(g)[k] = g \/ \E j \in 1 .. Len(iovaResv) : AddFirst(g)[k] = iovaResv[j]
      BY <1>1, <2>2, AddFirstForm
    <3>2. CASE AddFirst(g)[k] = g
      BY <1>1, <2>3, <2>4, <2>6, <3>2
    <3>3. ASSUME NEW j \in 1 .. Len(iovaResv), AddFirst(g)[k] = iovaResv[j]
          PROVE  0 <= AddFirst(g)[k].start /\ AddFirst(g)[k].start + AddFirst(g)[k].length <= b
      BY <2>4, <2>8, <3>3
    <3> QED
      BY <3>1, <3>2, <3>3
  <2>11. ASSUME NEW a \in Addr
         PROVE  (\E k \in 1 .. Len(AddFirst(g)) : a \in Addresses(AddFirst(g)[k])) <=>
                    /\ 0 <= a /\ a < b
                    /\ \A i \in 1 .. Len(iovaDma) : a \notin Addresses(iovaDma[i])
    <3> DEFINE free == \A i \in 1 .. Len(iovaDma) : a \notin Addresses(iovaDma[i])
               old == \E k \in 1 .. Len(iovaResv) : a \in Addresses(iovaResv[k])
               new == \E k \in 1 .. Len(AddFirst(g)) : a \in Addresses(AddFirst(g)[k])
    <3>1. new <=> old \/ a \in Addresses(g)
      BY <1>1, <2>2, AddFirstForm
    <3>2. old <=> low <= a /\ a < b /\ free
      BY <2>2 DEF ReservedIn, low, b
    <3>3. a \in Nat
      BY IovaAssumption DEF Addr
    <3>4. ASSUME a < first PROVE free
      <4> SUFFICES ASSUME NEW i \in 1 .. Len(iovaDma), a \in Addresses(iovaDma[i]) PROVE FALSE
        OBVIOUS
      <4>1. /\ iovaDma[i].start \in Nat /\ iovaDma[i].length \in Nat
            /\ a \in iovaDma[i].start .. iovaDma[i].start + iovaDma[i].length - 1
        BY <2>1, DmaForm DEF Addresses
      <4>2. first <= iovaDma[i].start /\ iovaDma[i].start <= a
        BY <2>5, <3>3, <4>1
      <4> QED
        BY <2>3, <3>3, <3>4, <4>1, <4>2
    <3>5. ASSUME free, ~(a < first) PROVE low <= a
      <4>1. a \notin first .. low - 1
        BY <1>1, <2>3, <3>5
      <4> QED
        BY <2>3, <3>3, <3>5, <4>1
    <3> HIDE DEF free, old, new
    <3>6. a \in Addresses(g) <=> a < first
      BY <2>3, <2>7, <3>3
    <3>7. a < first => a < b
      BY <2>3, <2>4, <2>6, <3>3
    <3>8. 0 <= a
      BY <3>3
    <3>9. new <=> 0 <= a /\ a < b /\ free
      BY <3>1, <3>2, <3>4, <3>5, <3>6, <3>7, <3>8
    <3> QED
      BY <3>9 DEF new, free
  <2>12. ReservedIn(0, iovaDma[iovaPrev].start)'
    <3>1. iovaDma'[iovaPrev'].start = b
      BY <1>2 DEF b
    <3>2. \A k \in 1 .. Len(iovaResv') : /\ 0 <= iovaResv'[k].start
                                         /\ iovaResv'[k].start + iovaResv'[k].length <= b
      BY <1>2, <2>10
    <3>3. \A a \in Addr :
              (\E k \in 1 .. Len(iovaResv') : a \in Addresses(iovaResv'[k])) <=>
                  /\ 0 <= a /\ a < b
                  /\ \A i \in 1 .. Len(iovaDma') : a \notin Addresses(iovaDma'[i])
      BY <1>2, <2>11
    <3> QED
      BY <3>1, <3>2, <3>3 DEF ReservedIn
  <2> QED
    BY <1>2, <2>1, <2>9, <2>12 DEF PoolInv
<1> QED
  BY <1>1, <1>3

\* When an allocation fails both lists are freed.
LEMMA InvertFailKeeps == IovaIInv /\ InvertFail => IovaIInv'
<1> SUFFICES ASSUME IovaIInv, InvertFail PROVE IovaIInv'
  OBVIOUS
<1> USE DEF IovaIInv
<1>1. /\ iovaHeld' = iovaHeld - Len(iovaResv) - Len(iovaDma) /\ iovaDma' = <<>> /\ iovaResv' = <<>>
      /\ iovaPhase' = "nomem" /\ iovaPool' = iovaPool /\ iovaPrev' = iovaPrev
  BY DEF InvertFail
<1>2. IovaTypeInv'
  <2>1. /\ iovaHeld = Len(iovaDma) + Len(iovaResv) /\ Len(iovaDma) \in Nat /\ Len(iovaResv) \in Nat
    BY DEF IovaTypeInv
  <2>2. Len(iovaDma') = 0 /\ Len(iovaResv') = 0 /\ iovaDma' \in Seq(IovaRegion)
        /\ iovaResv' \in Seq(IovaRegion)
    BY <1>1
  <2>3. iovaHeld' = Len(iovaDma') + Len(iovaResv')
    BY <1>1, <2>1, <2>2
  <2> QED
    BY <1>1, <2>2, <2>3 DEF IovaTypeInv
<1>3. PoolInv'
  <2>1. Len(iovaDma') = 0 /\ Len(iovaResv') = 0 /\ DOMAIN iovaDma' = {}
    BY <1>1
  <2>2. Sorted(iovaDma') /\ Sorted(iovaResv') /\ RegionsOf(iovaDma') = {}
    BY <2>1 DEF Sorted, RegionsOf
  <2> QED
    BY <1>1, <2>2 DEF PoolInv
<1> QED
  BY <1>2, <1>3

\* The gap beyond the last region is a region, whatever wraps.
LEMMA InvertBeyondTypes ==
    ASSUME IovaTypeInv, InvertBeyond
    PROVE  /\ IovaTypeInv' /\ iovaPrev \in 1 .. Len(iovaDma) /\ iovaPrev = Len(iovaDma)
           /\ Beyond(iovaDma[iovaPrev]) \in IovaRegion
<1>1. /\ iovaPhase = "beyond" /\ iovaPrev' = iovaPrev
      /\ iovaResv' \in {AddLast(Beyond(iovaDma[iovaPrev])), iovaResv}
      /\ iovaHeld' = iovaHeld + Len(iovaResv') - Len(iovaResv) - Len(iovaDma)
      /\ iovaPool' = iovaPool /\ iovaDma' = <<>> /\ iovaPhase' = "done"
  BY DEF InvertBeyond
<1>2. /\ iovaDma \in Seq(IovaRegion) /\ iovaResv \in Seq(IovaRegion) /\ Len(iovaDma) \in Nat
      /\ iovaPrev \in 1 .. Len(iovaDma) /\ iovaPrev = Len(iovaDma)
      /\ iovaHeld = Len(iovaDma) + Len(iovaResv)
  BY <1>1 DEF IovaTypeInv
<1>3. Beyond(iovaDma[iovaPrev]) \in IovaRegion
  <2>1. iovaDma[iovaPrev].start \in Nat /\ iovaDma[iovaPrev].length \in Nat
    BY <1>2, MemberForm
  <2>2. iovaDma[iovaPrev].start + iovaDma[iovaPrev].length \in Int
    BY <2>1
  <2>3. IovaEnd(iovaDma[iovaPrev]) \in Addr
    BY <2>2, WordForm DEF IovaEnd
  <2>4. IovaEnd(iovaDma[iovaPrev]) \in Int
    BY <2>3, IovaAssumption DEF Addr
  <2>5. -IovaEnd(iovaDma[iovaPrev]) \in Int
    BY <2>4
  <2> QED
    BY <2>3, <2>5, RegionForm DEF Beyond
<1>4. iovaResv' \in Seq(IovaRegion)
  BY <1>1, <1>2, <1>3, AddLastForm
<1>5. iovaHeld' = Len(iovaDma') + Len(iovaResv')
  <2>1. Len(iovaResv) \in Nat /\ Len(iovaResv') \in Nat /\ Len(iovaDma') = 0
    BY <1>1, <1>2, <1>4
  <2> QED
    BY <1>1, <1>2, <2>1
<1>6. iovaDma' \in Seq(IovaRegion)
  BY <1>1
<1> QED
  BY <1>1, <1>2, <1>3, <1>4, <1>5, <1>6 DEF IovaTypeInv

\* What the call has left reserved when it comes to the last region, or adds beyond it.
LEMMA BeyondCovers ==
    ASSUME IovaTypeInv, Pooled, PoolInv, InvertBeyond
    PROVE  LET e == iovaDma[iovaPrev].start + iovaDma[iovaPrev].length
           IN  /\ Sorted(iovaResv')
               /\ \A a : a \in AddressesOf(RegionsOf(iovaResv')) <=>
                      /\ a \in Addr
                      /\ \A i \in 1 .. Len(iovaDma) : a \notin Addresses(iovaDma[i])
                      /\ a < iovaDma[iovaPrev].start \/ e < IovaMax
<1> DEFINE p == iovaPrev
           g == Beyond(iovaDma[p])
           b == iovaDma[p].start
           e == iovaDma[p].start + iovaDma[p].length
           free(a) == \A i \in 1 .. Len(iovaDma) : a \notin Addresses(iovaDma[i])
           old(a) == \E k \in 1 .. Len(iovaResv) : a \in Addresses(iovaResv[k])
<1>1. IovaTypeInv' /\ p \in 1 .. Len(iovaDma) /\ p = Len(iovaDma) /\ g \in IovaRegion
  BY InvertBeyondTypes
<1>2. /\ iovaPhase = "beyond"
      /\ iovaResv' = IF IovaMax - b > iovaDma[p].length THEN AddLast(g) ELSE iovaResv
  BY DEF InvertBeyond
<1>3. Sorted(iovaResv) /\ ReservedIn(0, b) /\ iovaResv \in Seq(IovaRegion) /\ iovaResv' \in Seq(IovaRegion)
  BY <1>1, <1>2 DEF PoolInv, IovaTypeInv
<1>4. /\ b \in Nat /\ e \in Nat /\ b < e /\ b <= IovaMax /\ iovaDma[p].length \in Nat
      /\ Addresses(iovaDma[p]) = b .. e - 1
  BY <1>1, DmaForm
<1>5. IovaMax \in Nat
  BY IovaAssumption
<1>6. IovaMax - b > iovaDma[p].length <=> e < IovaMax
  BY <1>4, <1>5
<1>7. ASSUME NEW j \in 1 .. Len(iovaDma)
      PROVE  /\ iovaDma[j].start \in Nat /\ iovaDma[j].length \in Nat
             /\ iovaDma[j].start + iovaDma[j].length <= e
  <2>1. iovaDma[j].start \in Nat /\ iovaDma[j].length \in Nat
    BY DmaForm
  <2>2. j < p => iovaDma[j].start + iovaDma[j].length <= b
    BY <1>1, DmaOrder
  <2>3. j = p \/ j < p
    BY <1>1
  <2>4. CASE j = p
    BY <1>4, <2>1, <2>4
  <2>5. CASE j < p
    BY <1>4, <2>1, <2>2, <2>5, Inward
  <2> QED
    BY <2>1, <2>3, <2>4, <2>5
<1>8. ASSUME NEW k \in 1 .. Len(iovaResv)
      PROVE  /\ iovaResv[k].start + iovaResv[k].length <= b
             /\ iovaResv[k].start \in Nat /\ iovaResv[k].length \in Nat
  BY <1>3, MemberForm DEF ReservedIn
<1>9. ASSUME NEW a PROVE old(a) <=> a \in Addr /\ a < b /\ free(a)
  <2>1. ASSUME old(a) PROVE a \in Addr
    <3>1. PICK k \in 1 .. Len(iovaResv) : a \in Addresses(iovaResv[k])
      BY <2>1
    <3>2. a \in iovaResv[k].start .. iovaResv[k].start + iovaResv[k].length - 1
      BY <3>1 DEF Addresses
    <3>3. /\ iovaResv[k].start + iovaResv[k].length <= b
          /\ iovaResv[k].start \in Nat /\ iovaResv[k].length \in Nat
      BY <1>8
    <3>4. a \in Nat /\ a < iovaResv[k].start + iovaResv[k].length
      BY <3>2, <3>3
    <3>5. b \in Nat /\ b <= IovaMax
      BY <1>4
    <3> HIDE DEF b
    <3>6. a < b
      BY <3>3, <3>4, <3>5
    <3> QED
      BY <1>5, <3>4, <3>5, <3>6 DEF Addr
  <2>2. ASSUME a \in Addr PROVE old(a) <=> 0 <= a /\ a < b /\ free(a)
    BY <1>3, <2>2 DEF ReservedIn
  <2>3. ASSUME a \in Addr PROVE 0 <= a
    BY <1>5, <2>3 DEF Addr
  <2> HIDE DEF free, old, b
  <2> QED
    BY <2>1, <2>2, <2>3
<1> HIDE DEF old
<1>10. CASE e < IovaMax
  <2>1. iovaResv' = AddLast(g)
    BY <1>2, <1>6, <1>10
  <2>2. g.start = e /\ g.length = IovaMax + 1 - e
    <3>1. e \in Addr /\ e \in 1 .. IovaMax /\ -e \in Int
      BY <1>4, <1>5, <1>10 DEF Addr
    <3>2. IovaEnd(iovaDma[p]) = e
      BY <3>1, WordForm DEF IovaEnd
    <3>3. g = Region(e, -e)
      BY <3>2 DEF Beyond
    <3>4. Word(-e) = IovaMax + 1 - e
      BY <3>1, WordForm
    <3> QED
      BY <3>1, <3>3, <3>4, RegionForm
  <2>3. ASSUME NEW k \in 1 .. Len(iovaResv)
        PROVE  iovaResv[k].start + iovaResv[k].length <= g.start
    <3>1. /\ iovaResv[k].start + iovaResv[k].length <= b
          /\ iovaResv[k].start \in Nat /\ iovaResv[k].length \in Nat
      BY <1>8
    <3>2. b \in Nat /\ e \in Nat /\ b < e /\ g.start = e
      BY <1>4, <2>2
    <3> HIDE DEF b, e, g
    <3> QED
      BY <3>1, <3>2
  <2>4. Sorted(iovaResv')
    BY <1>1, <1>3, <2>1, <2>3, AddLastForm
  <2>5. ASSUME NEW a PROVE a \in Addresses(g) <=> a \in e .. IovaMax
    <3>1. e + (IovaMax + 1 - e) - 1 = IovaMax
      BY <1>4, <1>5
    <3> QED
      BY <2>2, <3>1 DEF Addresses
  <2>6. ASSUME NEW a
        PROVE  a \in AddressesOf(RegionsOf(iovaResv')) <=> a \in Addr /\ free(a)
    <3>1. a \in AddressesOf(RegionsOf(iovaResv')) <=> old(a) \/ a \in Addresses(g)
      <4>1. a \in AddressesOf(RegionsOf(iovaResv'))
                <=> \E k \in 1 .. Len(iovaResv') : a \in Addresses(iovaResv'[k])
        BY <1>3, Covered
      <4>2. (\E k \in 1 .. Len(AddLast(g)) : a \in Addresses(AddLast(g)[k]))
                <=> \/ \E k \in 1 .. Len(iovaResv) : a \in Addresses(iovaResv[k])
                    \/ a \in Addresses(g)
        BY <1>1, <1>3, AddLastForm
      <4> QED
        BY <2>1, <4>1, <4>2 DEF old
    <3>2. ASSUME a \in e .. IovaMax PROVE a \in Addr /\ free(a)
      <4>1. a \in Addr /\ a \in Nat /\ e <= a
        BY <1>4, <1>5, <3>2 DEF Addr
      <4>2. ASSUME NEW i \in 1 .. Len(iovaDma), a \in Addresses(iovaDma[i]) PROVE FALSE
        <5>1. a \in iovaDma[i].start .. iovaDma[i].start + iovaDma[i].length - 1
          BY <4>2 DEF Addresses
        <5>2. /\ iovaDma[i].start \in Nat /\ iovaDma[i].length \in Nat
              /\ iovaDma[i].start + iovaDma[i].length <= e
          BY <1>7
        <5> QED
          BY <1>4, <4>1, <5>1, <5>2
      <4> QED
        BY <4>1, <4>2
    <3>3. ASSUME a \in Addr, free(a), ~(a < b) PROVE a \in e .. IovaMax
      <4>1. a \in Nat /\ a <= IovaMax
        BY <1>5, <3>3 DEF Addr
      <4>2. a \notin b .. e - 1
        BY <1>1, <1>4, <3>3
      <4> QED
        BY <1>4, <1>5, <3>3, <4>1, <4>2
    <3> HIDE DEF free, b, e, g
    <3> QED
      BY <1>9, <2>5, <3>1, <3>2, <3>3
  <2> QED
    BY <1>10, <2>4, <2>6
<1>11. CASE ~(e < IovaMax)
  <2>1. iovaResv' = iovaResv
    BY <1>2, <1>6, <1>11
  <2>2. ASSUME NEW a
        PROVE  a \in AddressesOf(RegionsOf(iovaResv')) <=> a \in Addr /\ a < b /\ free(a)
    <3>1. a \in AddressesOf(RegionsOf(iovaResv')) <=> old(a)
      BY <1>3, <2>1, Covered DEF old
    <3> QED
      BY <1>9, <3>1
  <2> QED
    BY <1>3, <1>11, <2>1, <2>2
<1> QED
  BY <1>10, <1>11

\* The last address is lost just when the last region ends below it: no other region
\* covers an address behind the last one.
LEMMA InvertBeyondKeeps == IovaIInv /\ InvertBeyond => IovaIInv'
<1> SUFFICES ASSUME IovaIInv, InvertBeyond PROVE IovaIInv'
  OBVIOUS
<1> USE DEF IovaIInv
<1> DEFINE p == iovaPrev
           b == iovaDma[p].start
           e == iovaDma[p].start + iovaDma[p].length
           free(a) == \A i \in 1 .. Len(iovaDma) : a \notin Addresses(iovaDma[i])
<1>1. IovaTypeInv' /\ p \in 1 .. Len(iovaDma) /\ p = Len(iovaDma) /\ IovaTypeInv
  BY InvertBeyondTypes
<1>2. /\ iovaPhase = "beyond" /\ iovaPhase' = "done" /\ iovaDma' = <<>> /\ iovaPool' = iovaPool
  BY DEF InvertBeyond
<1>3. ASSUME Pooled' PROVE PoolInv'
  <2>1. Pooled /\ PoolInv
    BY <1>2, <1>3 DEF Pooled
  <2>2. /\ Sorted(iovaResv')
        /\ \A a : a \in AddressesOf(RegionsOf(iovaResv')) <=>
               a \in Addr /\ free(a) /\ (a < b \/ e < IovaMax)
    BY <1>1, <2>1, BeyondCovers
  <2>3. iovaDma \in Seq(IovaRegion) /\ Sorted(iovaDma) /\ RegionsOf(iovaDma) = iovaPool
    BY <1>1, <1>2, <2>1 DEF IovaTypeInv, PoolInv
  <2>4. Disjoint(iovaPool)
    BY <2>3, SortedDisjoint
  <2>5. \A a : a \in AddressesOf(iovaPool) <=> ~free(a)
    BY <2>3, Covered
  <2>6. /\ b \in Nat /\ e \in Nat /\ b < e /\ e <= IovaMax + 1 /\ IovaMax \in Nat
        /\ Addresses(iovaDma[p]) = b .. e - 1
    BY <1>1, <2>1, DmaForm, IovaAssumption
  <2>7. ASSUME NEW a \in Nat, e <= a PROVE free(a)
    <3> SUFFICES ASSUME NEW i \in 1 .. Len(iovaDma), a \in Addresses(iovaDma[i]) PROVE FALSE
      OBVIOUS
    <3>1. iovaDma[i].start \in Nat /\ iovaDma[i].length \in Nat
      BY <1>1, <2>1, DmaForm
    <3>2. a \in iovaDma[i].start .. iovaDma[i].start + iovaDma[i].length - 1
      BY DEF Addresses
    <3>3. i < p => iovaDma[i].start + iovaDma[i].length <= b
      BY <1>1, <2>1, DmaOrder
    <3>4. i = p \/ i < p
      BY <1>1
    <3>5. iovaDma[i].start + iovaDma[i].length <= e
      <4>1. CASE i = p
        BY <2>6, <4>1
      <4>2. CASE i < p
        <5>1. iovaDma[p].length \in Nat
          BY <1>1, <2>1, DmaForm
        <5> QED
          BY <2>6, <3>1, <3>3, <4>2, <5>1, Inward
      <4> QED
        BY <3>4, <4>1, <4>2
    <3>6. a < iovaDma[i].start + iovaDma[i].length
      BY <3>1, <3>2
    <3> HIDE DEF e
    <3> QED
      BY <2>6, <2>7, <3>1, <3>5, <3>6
  <2>8. ASSUME NEW a \in Nat, b <= a, a < e PROVE ~free(a)
    <3>1. a \in b .. e - 1
      BY <2>6, <2>8
    <3> QED
      BY <1>1, <2>6, <3>1
  <2> HIDE DEF free, b, e
  <2>9. IovaMax - 1 \in Nat /\ IovaMax \in Addr
    BY <2>6, IovaAssumption DEF Addr
  <2>10. TopLost <=> e = IovaMax
    <3>1. ASSUME TopLost PROVE e = IovaMax
      <4>1. ~free(IovaMax - 1) /\ free(IovaMax)
        BY <2>5, <3>1 DEF TopLost
      <4>2. ~(e <= IovaMax - 1)
        BY <2>7, <2>9, <4>1
      <4>3. ~(b <= IovaMax /\ IovaMax < e)
        BY <2>6, <2>8, <4>1
      <4> QED
        BY <2>6, <4>2, <4>3
    <3>2. ASSUME e = IovaMax PROVE TopLost
      <4>1. b <= IovaMax - 1 /\ IovaMax - 1 < e /\ e <= IovaMax
        BY <2>6, <3>2
      <4>2. ~free(IovaMax - 1) /\ free(IovaMax)
        BY <2>6, <2>7, <2>8, <2>9, <4>1
      <4>3. iovaPool # {}
        BY <2>5, <4>2 DEF AddressesOf
      <4> QED
        BY <2>5, <4>2, <4>3 DEF TopLost
    <3> QED
      BY <3>1, <3>2
  <2>11. ASSUME NEW a \in Addr, free(a)
         PROVE  (a < b \/ e < IovaMax) <=> ~(e = IovaMax /\ a = IovaMax)
    <3>1. a \in Nat /\ a <= IovaMax
      BY <2>6 DEF Addr
    <3>2. ~(b <= a /\ a < e)
      BY <2>8, <2>11, <3>1
    <3> QED
      BY <2>6, <3>1, <3>2
  <2>12. TopLost' <=> TopLost
    BY <1>2 DEF TopLost
  <2>13. ASSUME NEW a
         PROVE  a \in AddressesOf(RegionsOf(iovaResv')) <=>
                    a \in (Addr \ AddressesOf(iovaPool)) \ (IF TopLost THEN {IovaMax} ELSE {})
    <3>1. a \in (IF TopLost THEN {IovaMax} ELSE {}) <=> e = IovaMax /\ a = IovaMax
      BY <2>10
    <3> QED
      BY <2>2, <2>5, <2>11, <3>1
  <2>14. Complement'
    BY <1>2, <2>4, <2>12, <2>13 DEF Complement
  <2>15. Sorted(iovaDma') /\ RegionsOf(iovaDma') \subseteq iovaPool'
    <3>1. Len(iovaDma') = 0 /\ DOMAIN iovaDma' = {}
      BY <1>2
    <3> QED
      BY <3>1 DEF Sorted, RegionsOf
  <2> QED
    BY <1>2, <2>2, <2>14, <2>15 DEF PoolInv
<1> QED
  BY <1>1, <1>3

\* Both lists are empty before the property is read.
LEMMA IovaInitial == IovaInit => IovaIInv
<1> SUFFICES ASSUME IovaInit PROVE IovaIInv
  OBVIOUS
<1>1. /\ iovaPool = {} /\ iovaDma = <<>> /\ iovaResv = <<>> /\ iovaHeld = 0 /\ iovaPrev = 0
      /\ iovaPhase = "walk" /\ Len(iovaDma) = 0 /\ Len(iovaResv) = 0 /\ DOMAIN iovaDma = {}
  BY DEF IovaInit
<1>2. IovaTypeInv
  <2>1. iovaDma \in Seq(IovaRegion) /\ iovaResv \in Seq(IovaRegion)
    BY <1>1
  <2> QED
    BY <1>1, <2>1 DEF IovaTypeInv
<1>3. PoolInv
  BY <1>1 DEF PoolInv, Sorted, RegionsOf
<1> QED
  BY <1>2, <1>3 DEF IovaIInv

\* A step of insert_range or invert_regions keeps IovaIInv.
LEMMA IovaStep == IovaIInv /\ [IovaNext]_iovaVars => IovaIInv'
<1> SUFFICES ASSUME IovaIInv, [IovaNext]_iovaVars PROVE IovaIInv'
  OBVIOUS
<1>1. ASSUME NEW start \in Addr, NEW length \in Addr, NEW i \in 1 .. Len(iovaDma) + 1,
             IovaInsert(Region(start, length), i) \/ IovaInsertFail(Region(start, length), i)
      PROVE  IovaIInv'
  <2>1. length \in Int
    BY IovaAssumption DEF Addr
  <2>2. Region(start, length) \in IovaRegion
    BY <2>1, RegionForm
  <2> QED
    BY <1>1, <2>2, IovaInsertKeeps, IovaInsertFailKeeps
<1>2. CASE UNCHANGED iovaVars
  <2>1. IovaTypeInv'
    BY <1>2 DEF IovaIInv, IovaTypeInv, iovaVars
  <2>2. ASSUME Pooled' PROVE PoolInv'
    BY <1>2, <2>2 DEF IovaIInv, iovaVars, Pooled, PoolInv, ReservedIn, Complement, TopLost
  <2> QED
    BY <2>1, <2>2 DEF IovaIInv
<1> QED
  BY <1>1, <1>2, IovaInvertKeeps, InvertBetweenKeeps, InvertBeforeKeeps, InvertBeyondKeeps,
     InvertFailKeeps DEF IovaNext

(* In every state of every run, for every size of the address space: as long as the  *)
(* ranges of the device tree are well formed, the list insert_range builds is sorted    *)
(* and free of overlaps, and what invert_regions hands the IOMMU driver is exactly the   *)
(* complement, the top address aside; no region is lost or held twice.                    *)
THEOREM IovaMapInvHolds == IovaSpec => []IovaMapInv
<1>1. IovaIInv => IovaMapInv
  <2> SUFFICES ASSUME IovaIInv PROVE IovaMapInv
    OBVIOUS
  <2>1. /\ iovaHeld = Len(iovaDma) + Len(iovaResv)
        /\ iovaPhase \in {"walk", "between", "beyond", "overlap", "nomem", "empty", "done"}
        /\ iovaDma \in Seq(IovaRegion) /\ iovaResv \in Seq(IovaRegion)
    BY DEF IovaIInv, IovaTypeInv
  <2>2. ASSUME Pooled
        PROVE  /\ Ascending(iovaDma) /\ Ascending(iovaResv)
               /\ iovaPhase = "walk" => RegionsOf(iovaDma) = iovaPool /\ Disjoint(iovaPool)
               /\ iovaPhase = "overlap" => \E r \in iovaPool : \E d \in RegionsOf(iovaDma) :
                                               Addresses(r) \cap Addresses(d) # {}
               /\ iovaPhase = "done" => Complement
    <3>1. PoolInv
      BY <2>2 DEF IovaIInv
    <3>2. Sorted(iovaDma) /\ Sorted(iovaResv)
      BY <3>1 DEF PoolInv
    <3>3. Ascending(iovaDma) /\ Ascending(iovaResv) /\ Disjoint(RegionsOf(iovaDma))
      BY <2>1, <3>2, SortedAscending, SortedDisjoint
    <3> QED
      BY <3>1, <3>3 DEF PoolInv
  <2> QED
    BY <2>1, <2>2 DEF IovaMapInv, Pooled, Complement
<1> QED
  BY <1>1, IovaInitial, IovaStep, PTL DEF IovaSpec

=============================================================================
