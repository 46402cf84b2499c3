-------------------------- MODULE PageTablesProofs --------------------------
(***************************************************************************)
(* Page tables of the GPU's devices, for every number of devices, threads    *)
(* and tables: the hardware never walks a freed table, no table is lost by   *)
(* calls that come one after the other, and no freed table is used when user  *)
(* space keeps the order the ioctls expect.                                   *)
(***************************************************************************)
EXTENDS PageTables, TLAPS

CbType == [epd0 : BOOLEAN, epd1 : BOOLEAN, ttbr0 : 0 .. tables, ttbr1 : 0 .. tables]
ThType == [pc : {"idle", "map"} \cup SetPcs, dev : 0 .. Devs, table : 0 .. tables]

\* Calls that have a table of their own, and tables of the context banks.
Set0Pcs == {"ttbr0", "enable0", "aperture"}
OwnPcs == {"ttbr1", "enable1"} \cup Set0Pcs
Hw == {cb[d].ttbr0 : d \in Dev} \cup {cb[d].ttbr1 : d \in Dev}

\* A call's own table is new: nobody has freed it, user space does not know it, and the
\* hardware has it from the enabling step on.  A table for TTBR0 is nobody else's.
OwnTable(t) ==
    LET n == th[t].table IN
    /\ th[t].pc \in OwnPcs => n \in Devs + 1 .. tables /\ n \notin freed \cup given
    /\ th[t].pc \in OwnPcs \ {"aperture"} => n \notin Hw
    /\ th[t].pc \in Set0Pcs =>
          /\ pgtable # n /\ \A d \in Dev : ops[d] # n
          /\ \A u \in Thread : th[u].table = n => u = t

OwnApart ==
    \A t, u \in Thread :
        th[t].pc \in OwnPcs /\ th[u].pc \in OwnPcs /\ th[t].table = th[u].table => t = u

ThreadOf(t) ==
    /\ th[t].pc # "idle" => th[t].dev \in Dev
    /\ th[t].pc = "global" => pgtable # 0

\* Only tables that a call allocated are given away or freed, and none of the hardware's;
\* a half of the address space that is off has no table.
TablesOf ==
    /\ given \cup freed \subseteq Devs + 1 .. tables
    /\ given \cap Hw = {}
    /\ pgtable = 0 => given = {}

BanksOf ==
    \A d \in Dev :
        /\ cb[d].ttbr0 \notin freed \ refused /\ cb[d].ttbr1 \notin freed \ refused
        /\ cb[d].epd0 => cb[d].ttbr0 = 0
        /\ cb[d].epd1 => cb[d].ttbr1 = 0

\* Calls that come one after the other: what a test has found still holds at the step
\* after it, and every table is known to somebody, maps and domains left aside.
Known == freed \cup given \cup lost \cup Dev \cup {pgtable} \cup Hw
             \cup {th[t].table : t \in {u \in Thread : th[u].pc \in OwnPcs}}

SerialOf(t) ==
    LET d == th[t].dev IN
    /\ th[t].pc = "enable1" => cb[d].epd1
    /\ th[t].pc = "enable0" => cb[d].epd0
    /\ th[t].pc = "capture" => pgtable = 0
    /\ th[t].pc = "aperture" => th[t].table \in lost \cup Hw

SerialInv ==
    care > 0 =>
        /\ \A t, u \in Thread : th[t].pc \in SetPcs /\ th[u].pc \in SetPcs => t = u
        /\ \A t \in Thread : SerialOf(t)
        /\ 1 .. tables \subseteq Known

\* Calls in the order the functions expect: TTBR1 is still off, and maps work on live tables.
OrderInv ==
    care = 2 => \A t \in Thread :
        /\ th[t].pc = "ttbr1" => cb[th[t].dev].epd1
        /\ th[t].pc = "map" => th[t].table \notin freed

IInv ==
    /\ TypeOK
    /\ \A t \in Thread : ThreadOf(t) /\ OwnTable(t)
    /\ OwnApart /\ TablesOf /\ BanksOf
    /\ SerialInv /\ OrderInv /\ OpsLive

\* Every step keeps the types.
LEMMA TypesKept ==
    ASSUME IInv, Next
    PROVE  TypeOK'
<1>a. TypeOK /\ TablesOf
  BY DEF IInv
<1>b. \A t \in Thread : ThreadOf(t) /\ OwnTable(t)
  BY DEF IInv
<1>c. Devs \in Nat /\ MaxTable \in Nat /\ tables \in Nat /\ Devs <= tables
  BY <1>a, TableAssumption DEF TypeOK
<1>d. \A u \in Thread : th[u].pc \in {"ttbr1", "enable1", "ttbr0", "enable0", "aperture"}
          => th[u].table \in 1 .. tables
  BY <1>b, <1>c DEF OwnTable, OwnPcs, Set0Pcs
<1>e. tables + 1 \in 1 .. tables + 1 /\ 1 .. tables \subseteq 1 .. tables + 1 /\ 0 .. tables \subseteq 0 .. tables + 1
  BY <1>c
<1>1. ASSUME NEW t \in Thread, NEW d \in Dev, Ttbr1Alloc(t, d)
      PROVE  TypeOK'
  <2>1. /\ care' \in 0 .. 2 /\ tables' \in Devs .. MaxTable
        /\ freed' \subseteq 1 .. tables' /\ given' \subseteq 1 .. tables'
        /\ lost' \subseteq 1 .. tables' /\ refused' \subseteq 1 .. tables'
        /\ pgtable' \in 0 .. tables' /\ bad' \in BOOLEAN
    BY <1>1, <1>a, <1>c, <1>d, <1>e DEF Ttbr1Alloc, TypeOK, New, Table
  <2>2. ops' \in [Dev -> 1 .. tables']
    BY <1>1, <1>a, <1>b, <1>c DEF Ttbr1Alloc, TypeOK, New, Table
  <2>3. cb' \in [Dev -> CbType']
    BY <1>1, <1>a, <1>b, <1>c DEF Ttbr1Alloc, TypeOK, New, Table, CbType
  <2>4. th' \in [Thread -> ThType']
    BY <1>1, <1>a, <1>b, <1>c DEF Ttbr1Alloc, At, Goto, Return, Idle, TypeOK, New, Table, ThType, SetPcs, Dev
  <2> QED
    BY <2>1, <2>2, <2>3, <2>4 DEF TypeOK, CbType, ThType
<1>2. ASSUME NEW t \in Thread, NEW d \in Dev, Ttbr0Alloc(t, d)
      PROVE  TypeOK'
  <2>1. /\ care' \in 0 .. 2 /\ tables' \in Devs .. MaxTable
        /\ freed' \subseteq 1 .. tables' /\ given' \subseteq 1 .. tables'
        /\ lost' \subseteq 1 .. tables' /\ refused' \subseteq 1 .. tables'
        /\ pgtable' \in 0 .. tables' /\ bad' \in BOOLEAN
    BY <1>2, <1>a, <1>c, <1>d, <1>e DEF Ttbr0Alloc, TypeOK, New, Table
  <2>2. ops' \in [Dev -> 1 .. tables']
    BY <1>2, <1>a, <1>b, <1>c DEF Ttbr0Alloc, TypeOK, New, Table
  <2>3. cb' \in [Dev -> CbType']
    BY <1>2, <1>a, <1>b, <1>c DEF Ttbr0Alloc, TypeOK, New, Table, CbType
  <2>4. th' \in [Thread -> ThType']
    BY <1>2, <1>a, <1>b, <1>c DEF Ttbr0Alloc, At, Goto, Return, Idle, TypeOK, New, Table, ThType, SetPcs, Dev
  <2> QED
    BY <2>1, <2>2, <2>3, <2>4 DEF TypeOK, CbType, ThType
<1>3. ASSUME NEW t \in Thread, NEW d \in Dev, Ttbr0AllocFail(t, d)
      PROVE  TypeOK'
  <2>1. /\ care' \in 0 .. 2 /\ tables' \in Devs .. MaxTable
        /\ freed' \subseteq 1 .. tables' /\ given' \subseteq 1 .. tables'
        /\ lost' \subseteq 1 .. tables' /\ refused' \subseteq 1 .. tables'
        /\ pgtable' \in 0 .. tables' /\ bad' \in BOOLEAN
    BY <1>3, <1>a, <1>c, <1>d, <1>e DEF Ttbr0AllocFail, TypeOK, New, Table
  <2>2. ops' \in [Dev -> 1 .. tables']
    BY <1>3, <1>a, <1>b, <1>c DEF Ttbr0AllocFail, TypeOK, New, Table
  <2>3. cb' \in [Dev -> CbType']
    BY <1>3, <1>a, <1>b, <1>c DEF Ttbr0AllocFail, TypeOK, New, Table, CbType
  <2>4. th' \in [Thread -> ThType']
    BY <1>3, <1>a, <1>b, <1>c DEF Ttbr0AllocFail, At, Goto, Return, Idle, TypeOK, New, Table, ThType, SetPcs, Dev
  <2> QED
    BY <2>1, <2>2, <2>3, <2>4 DEF TypeOK, CbType, ThType
<1>4. ASSUME NEW t \in Thread, Ttbr1Check(t)
      PROVE  TypeOK'
  <2>1. /\ care' \in 0 .. 2 /\ tables' \in Devs .. MaxTable
        /\ freed' \subseteq 1 .. tables' /\ given' \subseteq 1 .. tables'
        /\ lost' \subseteq 1 .. tables' /\ refused' \subseteq 1 .. tables'
        /\ pgtable' \in 0 .. tables' /\ bad' \in BOOLEAN
    BY <1>4, <1>a, <1>c, <1>d, <1>e DEF Ttbr1Check, TypeOK, New, Table
  <2>2. ops' \in [Dev -> 1 .. tables']
    BY <1>4, <1>a, <1>b, <1>c DEF Ttbr1Check, TypeOK, New, Table
  <2>3. cb' \in [Dev -> CbType']
    BY <1>4, <1>a, <1>b, <1>c DEF Ttbr1Check, TypeOK, New, Table, CbType
  <2>4. th' \in [Thread -> ThType']
    BY <1>4, <1>a, <1>b, <1>c DEF Ttbr1Check, At, Goto, Return, Idle, TypeOK, New, Table, ThType, SetPcs, Dev
  <2> QED
    BY <2>1, <2>2, <2>3, <2>4 DEF TypeOK, CbType, ThType
<1>5. ASSUME NEW t \in Thread, Ttbr1Refuse(t)
      PROVE  TypeOK'
  <2>1. /\ care' \in 0 .. 2 /\ tables' \in Devs .. MaxTable
        /\ freed' \subseteq 1 .. tables' /\ given' \subseteq 1 .. tables'
        /\ lost' \subseteq 1 .. tables' /\ refused' \subseteq 1 .. tables'
        /\ pgtable' \in 0 .. tables' /\ bad' \in BOOLEAN
    BY <1>5, <1>a, <1>c, <1>d, <1>e DEF Ttbr1Refuse, TypeOK, New, Table
  <2>2. ops' \in [Dev -> 1 .. tables']
    BY <1>5, <1>a, <1>b, <1>c DEF Ttbr1Refuse, TypeOK, New, Table
  <2>3. cb' \in [Dev -> CbType']
    BY <1>5, <1>a, <1>b, <1>c DEF Ttbr1Refuse, TypeOK, New, Table, CbType
  <2>4. th' \in [Thread -> ThType']
    BY <1>5, <1>a, <1>b, <1>c DEF Ttbr1Refuse, At, Goto, Return, Idle, TypeOK, New, Table, ThType, SetPcs, Dev
  <2> QED
    BY <2>1, <2>2, <2>3, <2>4 DEF TypeOK, CbType, ThType
<1>6. ASSUME NEW t \in Thread, Ttbr1Enable(t)
      PROVE  TypeOK'
  <2>1. /\ care' \in 0 .. 2 /\ tables' \in Devs .. MaxTable
        /\ freed' \subseteq 1 .. tables' /\ given' \subseteq 1 .. tables'
        /\ lost' \subseteq 1 .. tables' /\ refused' \subseteq 1 .. tables'
        /\ pgtable' \in 0 .. tables' /\ bad' \in BOOLEAN
    BY <1>6, <1>a, <1>c, <1>d, <1>e DEF Ttbr1Enable, TypeOK, New, Table
  <2>2. ops' \in [Dev -> 1 .. tables']
    BY <1>6, <1>a, <1>b, <1>c DEF Ttbr1Enable, TypeOK, New, Table
  <2>3. cb' \in [Dev -> CbType']
    BY <1>6, <1>a, <1>b, <1>c DEF Ttbr1Enable, TypeOK, New, Table, CbType
  <2>4. th' \in [Thread -> ThType']
    BY <1>6, <1>a, <1>b, <1>c DEF Ttbr1Enable, At, Goto, Return, Idle, TypeOK, New, Table, ThType, SetPcs, Dev
  <2> QED
    BY <2>1, <2>2, <2>3, <2>4 DEF TypeOK, CbType, ThType
<1>7. ASSUME NEW t \in Thread, Ttbr0Check(t)
      PROVE  TypeOK'
  <2>1. /\ care' \in 0 .. 2 /\ tables' \in Devs .. MaxTable
        /\ freed' \subseteq 1 .. tables' /\ given' \subseteq 1 .. tables'
        /\ lost' \subseteq 1 .. tables' /\ refused' \subseteq 1 .. tables'
        /\ pgtable' \in 0 .. tables' /\ bad' \in BOOLEAN
    BY <1>7, <1>a, <1>c, <1>d, <1>e DEF Ttbr0Check, TypeOK, New, Table
  <2>2. ops' \in [Dev -> 1 .. tables']
    BY <1>7, <1>a, <1>b, <1>c DEF Ttbr0Check, TypeOK, New, Table
  <2>3. cb' \in [Dev -> CbType']
    BY <1>7, <1>a, <1>b, <1>c DEF Ttbr0Check, TypeOK, New, Table, CbType
  <2>4. th' \in [Thread -> ThType']
    BY <1>7, <1>a, <1>b, <1>c DEF Ttbr0Check, At, Goto, Return, Idle, TypeOK, New, Table, ThType, SetPcs, Dev
  <2> QED
    BY <2>1, <2>2, <2>3, <2>4 DEF TypeOK, CbType, ThType
<1>8. ASSUME NEW t \in Thread, Ttbr0Refuse(t)
      PROVE  TypeOK'
  <2>1. /\ care' \in 0 .. 2 /\ tables' \in Devs .. MaxTable
        /\ freed' \subseteq 1 .. tables' /\ given' \subseteq 1 .. tables'
        /\ lost' \subseteq 1 .. tables' /\ refused' \subseteq 1 .. tables'
        /\ pgtable' \in 0 .. tables' /\ bad' \in BOOLEAN
    BY <1>8, <1>a, <1>c, <1>d, <1>e DEF Ttbr0Refuse, TypeOK, New, Table
  <2>2. ops' \in [Dev -> 1 .. tables']
    BY <1>8, <1>a, <1>b, <1>c DEF Ttbr0Refuse, TypeOK, New, Table
  <2>3. cb' \in [Dev -> CbType']
    BY <1>8, <1>a, <1>b, <1>c DEF Ttbr0Refuse, TypeOK, New, Table, CbType
  <2>4. th' \in [Thread -> ThType']
    BY <1>8, <1>a, <1>b, <1>c DEF Ttbr0Refuse, At, Goto, Return, Idle, TypeOK, New, Table, ThType, SetPcs, Dev
  <2> QED
    BY <2>1, <2>2, <2>3, <2>4 DEF TypeOK, CbType, ThType
<1>9. ASSUME NEW t \in Thread, Ttbr0Enable(t)
      PROVE  TypeOK'
  <2>1. /\ care' \in 0 .. 2 /\ tables' \in Devs .. MaxTable
        /\ freed' \subseteq 1 .. tables' /\ given' \subseteq 1 .. tables'
        /\ lost' \subseteq 1 .. tables' /\ refused' \subseteq 1 .. tables'
        /\ pgtable' \in 0 .. tables' /\ bad' \in BOOLEAN
    BY <1>9, <1>a, <1>c, <1>d, <1>e DEF Ttbr0Enable, TypeOK, New, Table
  <2>2. ops' \in [Dev -> 1 .. tables']
    BY <1>9, <1>a, <1>b, <1>c DEF Ttbr0Enable, TypeOK, New, Table
  <2>3. cb' \in [Dev -> CbType']
    BY <1>9, <1>a, <1>b, <1>c DEF Ttbr0Enable, TypeOK, New, Table, CbType
  <2>4. th' \in [Thread -> ThType']
    BY <1>9, <1>a, <1>b, <1>c DEF Ttbr0Enable, At, Goto, Return, Idle, TypeOK, New, Table, ThType, SetPcs, Dev
  <2> QED
    BY <2>1, <2>2, <2>3, <2>4 DEF TypeOK, CbType, ThType
<1>10. ASSUME NEW t \in Thread, Aperture(t)
      PROVE  TypeOK'
  <2>1. /\ care' \in 0 .. 2 /\ tables' \in Devs .. MaxTable
        /\ freed' \subseteq 1 .. tables' /\ given' \subseteq 1 .. tables'
        /\ lost' \subseteq 1 .. tables' /\ refused' \subseteq 1 .. tables'
        /\ pgtable' \in 0 .. tables' /\ bad' \in BOOLEAN
    BY <1>10, <1>a, <1>c, <1>d, <1>e DEF Aperture, TypeOK, New, Table
  <2>2. ops' \in [Dev -> 1 .. tables']
    BY <1>10, <1>a, <1>b, <1>c DEF Aperture, TypeOK, New, Table
  <2>3. cb' \in [Dev -> CbType']
    BY <1>10, <1>a, <1>b, <1>c DEF Aperture, TypeOK, New, Table, CbType
  <2>4. th' \in [Thread -> ThType']
    BY <1>10, <1>a, <1>b, <1>c DEF Aperture, At, Goto, Return, Idle, TypeOK, New, Table, ThType, SetPcs, Dev
  <2> QED
    BY <2>1, <2>2, <2>3, <2>4 DEF TypeOK, CbType, ThType
<1>11. ASSUME NEW t \in Thread, ApertureFail(t)
      PROVE  TypeOK'
  <2>1. /\ care' \in 0 .. 2 /\ tables' \in Devs .. MaxTable
        /\ freed' \subseteq 1 .. tables' /\ given' \subseteq 1 .. tables'
        /\ lost' \subseteq 1 .. tables' /\ refused' \subseteq 1 .. tables'
        /\ pgtable' \in 0 .. tables' /\ bad' \in BOOLEAN
    BY <1>11, <1>a, <1>c, <1>d, <1>e DEF ApertureFail, TypeOK, New, Table
  <2>2. ops' \in [Dev -> 1 .. tables']
    BY <1>11, <1>a, <1>b, <1>c DEF ApertureFail, TypeOK, New, Table
  <2>3. cb' \in [Dev -> CbType']
    BY <1>11, <1>a, <1>b, <1>c DEF ApertureFail, TypeOK, New, Table, CbType
  <2>4. th' \in [Thread -> ThType']
    BY <1>11, <1>a, <1>b, <1>c DEF ApertureFail, At, Goto, Return, Idle, TypeOK, New, Table, ThType, SetPcs, Dev
  <2> QED
    BY <2>1, <2>2, <2>3, <2>4 DEF TypeOK, CbType, ThType
<1>12. ASSUME NEW t \in Thread, NEW d \in Dev, GlobalSet(t, d)
      PROVE  TypeOK'
  <2>1. /\ care' \in 0 .. 2 /\ tables' \in Devs .. MaxTable
        /\ freed' \subseteq 1 .. tables' /\ given' \subseteq 1 .. tables'
        /\ lost' \subseteq 1 .. tables' /\ refused' \subseteq 1 .. tables'
        /\ pgtable' \in 0 .. tables' /\ bad' \in BOOLEAN
    BY <1>12, <1>a, <1>c, <1>d, <1>e DEF GlobalSet, TypeOK, New, Table
  <2>2. ops' \in [Dev -> 1 .. tables']
    BY <1>12, <1>a, <1>b, <1>c DEF GlobalSet, TypeOK, New, Table
  <2>3. cb' \in [Dev -> CbType']
    BY <1>12, <1>a, <1>b, <1>c DEF GlobalSet, TypeOK, New, Table, CbType
  <2>4. th' \in [Thread -> ThType']
    BY <1>12, <1>a, <1>b, <1>c DEF GlobalSet, At, Goto, Return, Idle, TypeOK, New, Table, ThType, SetPcs, Dev
  <2> QED
    BY <2>1, <2>2, <2>3, <2>4 DEF TypeOK, CbType, ThType
<1>13. ASSUME NEW t \in Thread, NEW d \in Dev, PerprocAlloc(t, d)
      PROVE  TypeOK'
  <2>1. /\ tables' = tables + 1 /\ tables + 1 \in Devs .. MaxTable
        /\ UNCHANGED <<care, freed, pgtable, ops, cb, refused, th, bad>>
    BY <1>13, <1>c DEF PerprocAlloc, New, Table
  <2>2. /\ given' = given \cup {tables + 1} \/ given' = given
        /\ lost' = lost \cup {tables + 1} \/ lost' = lost
    BY <1>13 DEF PerprocAlloc, New
  <2>3. /\ freed \subseteq 1 .. tables /\ given \subseteq 1 .. tables
        /\ lost \subseteq 1 .. tables /\ refused \subseteq 1 .. tables
    BY <1>a DEF TypeOK
  <2>4. given' \subseteq 1 .. tables' /\ lost' \subseteq 1 .. tables'
    BY <1>e, <2>1, <2>2, <2>3
  <2>5. freed' \subseteq 1 .. tables' /\ refused' \subseteq 1 .. tables'
    BY <1>e, <2>1, <2>3
  <2>6. pgtable' \in 0 .. tables' /\ ops' \in [Dev -> 1 .. tables']
    BY <1>a, <1>e, <2>1 DEF TypeOK
  <2>7. cb' \in [Dev -> CbType'] /\ th' \in [Thread -> ThType']
    BY <1>a, <1>e, <2>1 DEF TypeOK, CbType, ThType
  <2> QED
    BY <1>a, <2>1, <2>4, <2>5, <2>6, <2>7 DEF TypeOK, CbType, ThType
<1>14. ASSUME NEW t \in Thread, NEW d \in Dev, MapBegin(t, d)
      PROVE  TypeOK'
  <2>1. /\ care' \in 0 .. 2 /\ tables' \in Devs .. MaxTable
        /\ freed' \subseteq 1 .. tables' /\ given' \subseteq 1 .. tables'
        /\ lost' \subseteq 1 .. tables' /\ refused' \subseteq 1 .. tables'
        /\ pgtable' \in 0 .. tables' /\ bad' \in BOOLEAN
    BY <1>14, <1>a, <1>c, <1>d, <1>e DEF MapBegin, TypeOK, New, Table
  <2>2. ops' \in [Dev -> 1 .. tables']
    BY <1>14, <1>a, <1>b, <1>c DEF MapBegin, TypeOK, New, Table
  <2>3. cb' \in [Dev -> CbType']
    BY <1>14, <1>a, <1>b, <1>c DEF MapBegin, TypeOK, New, Table, CbType
  <2>4. th' \in [Thread -> ThType']
    BY <1>14, <1>a, <1>b, <1>c DEF MapBegin, At, Goto, Return, Idle, TypeOK, New, Table, ThType, SetPcs, Dev
  <2> QED
    BY <2>1, <2>2, <2>3, <2>4 DEF TypeOK, CbType, ThType
<1>15. ASSUME NEW t \in Thread, GlobalCapture(t)
      PROVE  TypeOK'
  <2>5. pgtable' \in 1 .. tables
    BY <1>15, <1>a, <1>b DEF GlobalCapture, TypeOK, ThreadOf
  <2>1. /\ care' \in 0 .. 2 /\ tables' \in Devs .. MaxTable
        /\ freed' \subseteq 1 .. tables' /\ given' \subseteq 1 .. tables'
        /\ lost' \subseteq 1 .. tables' /\ refused' \subseteq 1 .. tables'
        /\ pgtable' \in 0 .. tables' /\ bad' \in BOOLEAN
    BY <1>15, <1>a, <1>c, <2>5 DEF GlobalCapture, TypeOK
  <2>2. ops' \in [Dev -> 1 .. tables']
    BY <1>15, <1>a, <1>b, <1>c DEF GlobalCapture, TypeOK, New, Table
  <2>3. cb' \in [Dev -> CbType']
    BY <1>15, <1>a, <1>b, <1>c DEF GlobalCapture, TypeOK, New, Table, CbType
  <2>4. th' \in [Thread -> ThType']
    BY <1>15, <1>a, <1>b, <1>c DEF GlobalCapture, At, Goto, Return, Idle, TypeOK, New, Table, ThType, SetPcs, Dev
  <2> QED
    BY <2>1, <2>2, <2>3, <2>4 DEF TypeOK, CbType, ThType
<1>16. ASSUME NEW t \in Thread, GlobalInstall(t)
      PROVE  TypeOK'
  <2>1. /\ care' \in 0 .. 2 /\ tables' \in Devs .. MaxTable
        /\ freed' \subseteq 1 .. tables' /\ given' \subseteq 1 .. tables'
        /\ lost' \subseteq 1 .. tables' /\ refused' \subseteq 1 .. tables'
        /\ pgtable' \in 0 .. tables' /\ bad' \in BOOLEAN
    BY <1>16, <1>a, <1>c, <1>d, <1>e DEF GlobalInstall, TypeOK, New, Table
  <2>5. pgtable \in 1 .. tables
    BY <1>16, <1>a, <1>c DEF GlobalInstall, TypeOK
  <2>2. ops' \in [Dev -> 1 .. tables']
    BY <1>16, <1>a, <1>c, <2>5 DEF GlobalInstall, TypeOK
  <2>3. cb' \in [Dev -> CbType']
    BY <1>16, <1>a, <1>b, <1>c DEF GlobalInstall, TypeOK, New, Table, CbType
  <2>4. th' \in [Thread -> ThType']
    BY <1>16, <1>a, <1>b, <1>c DEF GlobalInstall, At, Goto, Return, Idle, TypeOK, New, Table, ThType, SetPcs, Dev
  <2> QED
    BY <2>1, <2>2, <2>3, <2>4 DEF TypeOK, CbType, ThType
<1>17. ASSUME NEW t \in Thread, MapEnd(t)
      PROVE  TypeOK'
  <2>1. /\ care' \in 0 .. 2 /\ tables' \in Devs .. MaxTable
        /\ freed' \subseteq 1 .. tables' /\ given' \subseteq 1 .. tables'
        /\ lost' \subseteq 1 .. tables' /\ refused' \subseteq 1 .. tables'
        /\ pgtable' \in 0 .. tables' /\ bad' \in BOOLEAN
    BY <1>17, <1>a, <1>c, <1>d, <1>e DEF MapEnd, TypeOK, New, Table
  <2>2. ops' \in [Dev -> 1 .. tables']
    BY <1>17, <1>a, <1>b, <1>c DEF MapEnd, TypeOK, New, Table
  <2>3. cb' \in [Dev -> CbType']
    BY <1>17, <1>a, <1>b, <1>c DEF MapEnd, TypeOK, New, Table, CbType
  <2>4. th' \in [Thread -> ThType']
    BY <1>17, <1>a, <1>b, <1>c DEF MapEnd, At, Goto, Return, Idle, TypeOK, New, Table, ThType, SetPcs, Dev
  <2> QED
    BY <2>1, <2>2, <2>3, <2>4 DEF TypeOK, CbType, ThType
<1>18. ASSUME NEW t \in Thread, NEW d \in Dev, NEW n \in given, PerprocSet(t, d, n)
      PROVE  TypeOK'
  <2>1. /\ care' \in 0 .. 2 /\ tables' \in Devs .. MaxTable
        /\ freed' \subseteq 1 .. tables' /\ given' \subseteq 1 .. tables'
        /\ lost' \subseteq 1 .. tables' /\ refused' \subseteq 1 .. tables'
        /\ pgtable' \in 0 .. tables' /\ bad' \in BOOLEAN
    BY <1>18, <1>a, <1>c, <1>d, <1>e DEF PerprocSet, TypeOK, New, Table
  <2>2. ops' \in [Dev -> 1 .. tables']
    BY <1>18, <1>a, <1>b, <1>c DEF PerprocSet, TypeOK, New, Table
  <2>3. cb' \in [Dev -> CbType']
    BY <1>18, <1>a, <1>b, <1>c DEF PerprocSet, TypeOK, New, Table, CbType
  <2>4. th' \in [Thread -> ThType']
    BY <1>18, <1>a, <1>b, <1>c DEF PerprocSet, At, Goto, Return, Idle, TypeOK, New, Table, ThType, SetPcs, Dev
  <2> QED
    BY <2>1, <2>2, <2>3, <2>4 DEF TypeOK, CbType, ThType
<1>19. ASSUME NEW t \in Thread, NEW n \in given, PerprocFree(t, n)
      PROVE  TypeOK'
  <2>1. /\ care' \in 0 .. 2 /\ tables' \in Devs .. MaxTable
        /\ freed' \subseteq 1 .. tables' /\ given' \subseteq 1 .. tables'
        /\ lost' \subseteq 1 .. tables' /\ refused' \subseteq 1 .. tables'
        /\ pgtable' \in 0 .. tables' /\ bad' \in BOOLEAN
    BY <1>19, <1>a, <1>c, <1>d, <1>e DEF PerprocFree, TypeOK, New, Table
  <2>2. ops' \in [Dev -> 1 .. tables']
    BY <1>19, <1>a, <1>b, <1>c DEF PerprocFree, TypeOK, New, Table
  <2>3. cb' \in [Dev -> CbType']
    BY <1>19, <1>a, <1>b, <1>c DEF PerprocFree, TypeOK, New, Table, CbType
  <2>4. th' \in [Thread -> ThType']
    BY <1>19, <1>a, <1>b, <1>c DEF PerprocFree, At, Goto, Return, Idle, TypeOK, New, Table, ThType, SetPcs, Dev
  <2> QED
    BY <2>1, <2>2, <2>3, <2>4 DEF TypeOK, CbType, ThType
<1>20. ASSUME NEW t \in Thread, Misuse(t)
      PROVE  TypeOK'
  <2>1. /\ care' \in 0 .. 2 /\ tables' \in Devs .. MaxTable
        /\ freed' \subseteq 1 .. tables' /\ given' \subseteq 1 .. tables'
        /\ lost' \subseteq 1 .. tables' /\ refused' \subseteq 1 .. tables'
        /\ pgtable' \in 0 .. tables' /\ bad' \in BOOLEAN
    BY <1>20, <1>a, <1>c, <1>d, <1>e DEF Misuse, TypeOK, New, Table
  <2>2. ops' \in [Dev -> 1 .. tables']
    BY <1>20, <1>a, <1>b, <1>c DEF Misuse, TypeOK, New, Table
  <2>3. cb' \in [Dev -> CbType']
    BY <1>20, <1>a, <1>b, <1>c DEF Misuse, TypeOK, New, Table, CbType
  <2>4. th' \in [Thread -> ThType']
    BY <1>20, <1>a, <1>b, <1>c DEF Misuse, At, Goto, Return, Idle, TypeOK, New, Table, ThType, SetPcs, Dev
  <2> QED
    BY <2>1, <2>2, <2>3, <2>4 DEF TypeOK, CbType, ThType
<1> QED
  BY <1>1, <1>2, <1>3, <1>4, <1>5, <1>6, <1>7, <1>8, <1>9, <1>10,
     <1>11, <1>12, <1>13, <1>14, <1>15, <1>16, <1>17, <1>18, <1>19, <1>20 DEF Next, Context, Process

\* A call has a device, and the global table is there when it is installed.
LEMMA ThreadsKept ==
    ASSUME IInv, Next
    PROVE  \A u \in Thread : ThreadOf(u)'
<1>a. TypeOK
  BY DEF IInv
<1>b. \A t \in Thread : ThreadOf(t) /\ OwnTable(t)
  BY DEF IInv
<1>c. Devs \in Nat /\ MaxTable \in Nat /\ tables \in Nat /\ Devs <= tables
  BY <1>a, TableAssumption DEF TypeOK
<1>d. TablesOf /\ OwnApart
  BY DEF IInv
<1>1. ASSUME NEW t \in Thread, NEW d \in Dev, Ttbr1Alloc(t, d)
      PROVE  \A u \in Thread : ThreadOf(u)'
  BY <1>1, <1>a, <1>b DEF Ttbr1Alloc, At, Goto, Return, Idle, TypeOK, ThreadOf, New
<1>2. ASSUME NEW t \in Thread, NEW d \in Dev, Ttbr0Alloc(t, d)
      PROVE  \A u \in Thread : ThreadOf(u)'
  BY <1>2, <1>a, <1>b, <1>c DEF Ttbr0Alloc, At, TypeOK, ThreadOf, New
<1>3. ASSUME NEW t \in Thread, NEW d \in Dev, Ttbr0AllocFail(t, d)
      PROVE  \A u \in Thread : ThreadOf(u)'
  BY <1>3, <1>a, <1>b, <1>c DEF Ttbr0AllocFail, TypeOK, ThreadOf
<1>4. ASSUME NEW t \in Thread, Ttbr1Check(t)
      PROVE  \A u \in Thread : ThreadOf(u)'
  BY <1>4, <1>a, <1>b DEF Ttbr1Check, At, Goto, Return, Idle, TypeOK, ThreadOf, New
<1>5. ASSUME NEW t \in Thread, Ttbr1Refuse(t)
      PROVE  \A u \in Thread : ThreadOf(u)'
  BY <1>5, <1>a, <1>b DEF Ttbr1Refuse, At, Goto, Return, Idle, TypeOK, ThreadOf, New
<1>6. ASSUME NEW t \in Thread, Ttbr1Enable(t)
      PROVE  \A u \in Thread : ThreadOf(u)'
  BY <1>6, <1>a, <1>b DEF Ttbr1Enable, At, Goto, Return, Idle, TypeOK, ThreadOf, New
<1>7. ASSUME NEW t \in Thread, Ttbr0Check(t)
      PROVE  \A u \in Thread : ThreadOf(u)'
  BY <1>7, <1>a, <1>b DEF Ttbr0Check, At, Goto, Return, Idle, TypeOK, ThreadOf, New
<1>8. ASSUME NEW t \in Thread, Ttbr0Refuse(t)
      PROVE  \A u \in Thread : ThreadOf(u)'
  BY <1>8, <1>a, <1>b DEF Ttbr0Refuse, At, Goto, Return, Idle, TypeOK, ThreadOf, New
<1>9. ASSUME NEW t \in Thread, Ttbr0Enable(t)
      PROVE  \A u \in Thread : ThreadOf(u)'
  BY <1>9, <1>a, <1>b DEF Ttbr0Enable, At, Goto, Return, Idle, TypeOK, ThreadOf, New
<1>10. ASSUME NEW t \in Thread, Aperture(t)
      PROVE  \A u \in Thread : ThreadOf(u)'
  BY <1>10, <1>a, <1>b DEF Aperture, At, Goto, Return, Idle, TypeOK, ThreadOf, New
<1>11. ASSUME NEW t \in Thread, ApertureFail(t)
      PROVE  \A u \in Thread : ThreadOf(u)'
  BY <1>11, <1>a, <1>b DEF ApertureFail, At, Goto, Return, Idle, TypeOK, ThreadOf, New
<1>12. ASSUME NEW t \in Thread, NEW d \in Dev, GlobalSet(t, d)
      PROVE  \A u \in Thread : ThreadOf(u)'
  BY <1>12, <1>a, <1>b DEF GlobalSet, At, Goto, Return, Idle, TypeOK, ThreadOf, New
<1>13. ASSUME NEW t \in Thread, NEW d \in Dev, PerprocAlloc(t, d)
      PROVE  \A u \in Thread : ThreadOf(u)'
  BY <1>13, <1>a, <1>b DEF PerprocAlloc, At, Goto, Return, Idle, TypeOK, ThreadOf, New
<1>14. ASSUME NEW t \in Thread, NEW d \in Dev, MapBegin(t, d)
      PROVE  \A u \in Thread : ThreadOf(u)'
  BY <1>14, <1>a, <1>b DEF MapBegin, At, Goto, Return, Idle, TypeOK, ThreadOf, New
<1>15. ASSUME NEW t \in Thread, GlobalCapture(t)
      PROVE  \A u \in Thread : ThreadOf(u)'
  BY <1>15, <1>a, <1>b DEF GlobalCapture, At, Goto, Return, Idle, TypeOK, ThreadOf, New
<1>16. ASSUME NEW t \in Thread, GlobalInstall(t)
      PROVE  \A u \in Thread : ThreadOf(u)'
  BY <1>16, <1>a, <1>b DEF GlobalInstall, At, Goto, Return, Idle, TypeOK, ThreadOf, New
<1>17. ASSUME NEW t \in Thread, MapEnd(t)
      PROVE  \A u \in Thread : ThreadOf(u)'
  BY <1>17, <1>a, <1>b DEF MapEnd, At, Goto, Return, Idle, TypeOK, ThreadOf, New
<1>18. ASSUME NEW t \in Thread, NEW d \in Dev, NEW n \in given, PerprocSet(t, d, n)
      PROVE  \A u \in Thread : ThreadOf(u)'
  BY <1>18, <1>a, <1>b DEF PerprocSet, At, Goto, Return, Idle, TypeOK, ThreadOf, New
<1>19. ASSUME NEW t \in Thread, NEW n \in given, PerprocFree(t, n)
      PROVE  \A u \in Thread : ThreadOf(u)'
  BY <1>19, <1>a, <1>b DEF PerprocFree, At, Goto, Return, Idle, TypeOK, ThreadOf, New
<1>20. ASSUME NEW t \in Thread, Misuse(t)
      PROVE  \A u \in Thread : ThreadOf(u)'
  BY <1>20, <1>a, <1>b DEF Misuse, At, Goto, Return, Idle, TypeOK, ThreadOf, New
<1> QED
  BY <1>1, <1>2, <1>3, <1>4, <1>5, <1>6, <1>7, <1>8, <1>9, <1>10,
     <1>11, <1>12, <1>13, <1>14, <1>15, <1>16, <1>17, <1>18, <1>19, <1>20 DEF Next, Context, Process

\* Two calls have two tables.
LEMMA ApartKept ==
    ASSUME IInv, Next
    PROVE  OwnApart'
<1>a. TypeOK
  BY DEF IInv
<1>b. \A t \in Thread : ThreadOf(t) /\ OwnTable(t)
  BY DEF IInv
<1>c. Devs \in Nat /\ MaxTable \in Nat /\ tables \in Nat /\ Devs <= tables
  BY <1>a, TableAssumption DEF TypeOK
<1>d. TablesOf /\ OwnApart
  BY DEF IInv
<1>1. ASSUME NEW t \in Thread, NEW d \in Dev, Ttbr1Alloc(t, d)
      PROVE  OwnApart'
  BY <1>1, <1>a, <1>b, <1>c, <1>d DEF Ttbr1Alloc, At, Goto, Return, Idle, TypeOK, OwnApart, OwnTable, New, OwnPcs, Set0Pcs
<1>2. ASSUME NEW t \in Thread, NEW d \in Dev, Ttbr0Alloc(t, d)
      PROVE  OwnApart'
  BY <1>2, <1>a, <1>b, <1>c, <1>d DEF Ttbr0Alloc, At, Goto, Return, Idle, TypeOK, OwnApart, OwnTable, New, OwnPcs, Set0Pcs
<1>3. ASSUME NEW t \in Thread, NEW d \in Dev, Ttbr0AllocFail(t, d)
      PROVE  OwnApart'
  BY <1>3, <1>a, <1>b, <1>c, <1>d DEF Ttbr0AllocFail, At, Goto, Return, Idle, TypeOK, OwnApart, OwnTable, New, OwnPcs, Set0Pcs
<1>4. ASSUME NEW t \in Thread, Ttbr1Check(t)
      PROVE  OwnApart'
  BY <1>4, <1>a, <1>b, <1>c, <1>d DEF Ttbr1Check, At, Goto, Return, Idle, TypeOK, OwnApart, OwnTable, New, OwnPcs, Set0Pcs
<1>5. ASSUME NEW t \in Thread, Ttbr1Refuse(t)
      PROVE  OwnApart'
  BY <1>5, <1>a, <1>b, <1>c, <1>d DEF Ttbr1Refuse, At, Goto, Return, Idle, TypeOK, OwnApart, OwnTable, New, OwnPcs, Set0Pcs
<1>6. ASSUME NEW t \in Thread, Ttbr1Enable(t)
      PROVE  OwnApart'
  BY <1>6, <1>a, <1>b, <1>c, <1>d DEF Ttbr1Enable, At, Goto, Return, Idle, TypeOK, OwnApart, OwnTable, New, OwnPcs, Set0Pcs
<1>7. ASSUME NEW t \in Thread, Ttbr0Check(t)
      PROVE  OwnApart'
  BY <1>7, <1>a, <1>b, <1>c, <1>d DEF Ttbr0Check, At, Goto, Return, Idle, TypeOK, OwnApart, OwnTable, New, OwnPcs, Set0Pcs
<1>8. ASSUME NEW t \in Thread, Ttbr0Refuse(t)
      PROVE  OwnApart'
  BY <1>8, <1>a, <1>b, <1>c, <1>d DEF Ttbr0Refuse, At, Goto, Return, Idle, TypeOK, OwnApart, OwnTable, New, OwnPcs, Set0Pcs
<1>9. ASSUME NEW t \in Thread, Ttbr0Enable(t)
      PROVE  OwnApart'
  BY <1>9, <1>a, <1>b, <1>c, <1>d DEF Ttbr0Enable, At, Goto, Return, Idle, TypeOK, OwnApart, OwnTable, New, OwnPcs, Set0Pcs
<1>10. ASSUME NEW t \in Thread, Aperture(t)
      PROVE  OwnApart'
  BY <1>10, <1>a, <1>b, <1>c, <1>d DEF Aperture, At, Goto, Return, Idle, TypeOK, OwnApart, OwnTable, New, OwnPcs, Set0Pcs
<1>11. ASSUME NEW t \in Thread, ApertureFail(t)
      PROVE  OwnApart'
  BY <1>11, <1>a, <1>b, <1>c, <1>d DEF ApertureFail, At, Goto, Return, Idle, TypeOK, OwnApart, OwnTable, New, OwnPcs, Set0Pcs
<1>12. ASSUME NEW t \in Thread, NEW d \in Dev, GlobalSet(t, d)
      PROVE  OwnApart'
  BY <1>12, <1>a, <1>b, <1>c, <1>d DEF GlobalSet, At, Goto, Return, Idle, TypeOK, OwnApart, OwnTable, New, OwnPcs, Set0Pcs
<1>13. ASSUME NEW t \in Thread, NEW d \in Dev, PerprocAlloc(t, d)
      PROVE  OwnApart'
  BY <1>13, <1>a, <1>b, <1>c, <1>d DEF PerprocAlloc, At, Goto, Return, Idle, TypeOK, OwnApart, OwnTable, New, OwnPcs, Set0Pcs
<1>14. ASSUME NEW t \in Thread, NEW d \in Dev, MapBegin(t, d)
      PROVE  OwnApart'
  BY <1>14, <1>a, <1>b, <1>c, <1>d DEF MapBegin, At, Goto, Return, Idle, TypeOK, OwnApart, OwnTable, New, OwnPcs, Set0Pcs
<1>15. ASSUME NEW t \in Thread, GlobalCapture(t)
      PROVE  OwnApart'
  BY <1>15, <1>a, <1>b, <1>c, <1>d DEF GlobalCapture, At, Goto, Return, Idle, TypeOK, OwnApart, OwnTable, New, OwnPcs, Set0Pcs
<1>16. ASSUME NEW t \in Thread, GlobalInstall(t)
      PROVE  OwnApart'
  BY <1>16, <1>a, <1>b, <1>c, <1>d DEF GlobalInstall, At, Goto, Return, Idle, TypeOK, OwnApart, OwnTable, New, OwnPcs, Set0Pcs
<1>17. ASSUME NEW t \in Thread, MapEnd(t)
      PROVE  OwnApart'
  BY <1>17, <1>a, <1>b, <1>c, <1>d DEF MapEnd, At, Goto, Return, Idle, TypeOK, OwnApart, OwnTable, New, OwnPcs, Set0Pcs
<1>18. ASSUME NEW t \in Thread, NEW d \in Dev, NEW n \in given, PerprocSet(t, d, n)
      PROVE  OwnApart'
  BY <1>18, <1>a, <1>b, <1>c, <1>d DEF PerprocSet, At, Goto, Return, Idle, TypeOK, OwnApart, OwnTable, New, OwnPcs, Set0Pcs
<1>19. ASSUME NEW t \in Thread, NEW n \in given, PerprocFree(t, n)
      PROVE  OwnApart'
  BY <1>19, <1>a, <1>b, <1>c, <1>d DEF PerprocFree, At, Goto, Return, Idle, TypeOK, OwnApart, OwnTable, New, OwnPcs, Set0Pcs
<1>20. ASSUME NEW t \in Thread, Misuse(t)
      PROVE  OwnApart'
  BY <1>20, <1>a, <1>b, <1>c, <1>d DEF Misuse, At, Goto, Return, Idle, TypeOK, OwnApart, OwnTable, New, OwnPcs, Set0Pcs
<1> QED
  BY <1>1, <1>2, <1>3, <1>4, <1>5, <1>6, <1>7, <1>8, <1>9, <1>10,
     <1>11, <1>12, <1>13, <1>14, <1>15, <1>16, <1>17, <1>18, <1>19, <1>20 DEF Next, Context, Process

\* A call's table stays its own until the call gives it to the hardware or frees it.
LEMMA OwnKept ==
    ASSUME IInv, Next
    PROVE  \A u \in Thread : OwnTable(u)'
<1>a. TypeOK
  BY DEF IInv
<1>b. \A t \in Thread : ThreadOf(t) /\ OwnTable(t)
  BY DEF IInv
<1>c. Devs \in Nat /\ MaxTable \in Nat /\ tables \in Nat /\ Devs <= tables
  BY <1>a, TableAssumption DEF TypeOK
<1>d. TablesOf /\ OwnApart
  BY DEF IInv
<1>e. BanksOf
  BY DEF IInv
<1>f. UNCHANGED cb => Hw' = Hw
  BY DEF Hw
<1>g. Hw \subseteq 0 .. tables
  BY <1>a DEF Hw, TypeOK
<1>1. ASSUME NEW t \in Thread, NEW d \in Dev, Ttbr1Alloc(t, d)
      PROVE  \A u \in Thread : OwnTable(u)'
  <2> SUFFICES ASSUME NEW u \in Thread PROVE OwnTable(u)'
    OBVIOUS
  <2>2. CASE u = t
    BY <1>1, <1>a, <1>b, <1>c, <1>d, <1>f, <1>g, <2>2 DEF Ttbr1Alloc, At, Goto, Return, Idle, TypeOK, OwnTable, OwnPcs, Set0Pcs, New, TablesOf
  <2>3. CASE u # t
    BY <1>1, <1>a, <1>b, <1>c, <1>d, <1>f, <1>g, <2>3 DEF Ttbr1Alloc, At, Goto, Return, Idle, TypeOK, OwnTable, OwnPcs, Set0Pcs, New, TablesOf, OwnApart, ThreadOf
  <2> QED
    BY <2>2, <2>3
<1>2. ASSUME NEW t \in Thread, NEW d \in Dev, Ttbr0Alloc(t, d)
      PROVE  \A u \in Thread : OwnTable(u)'
  <2> SUFFICES ASSUME NEW u \in Thread PROVE OwnTable(u)'
    OBVIOUS
  <2>2. CASE u = t
    BY <1>2, <1>a, <1>b, <1>c, <1>d, <1>f, <1>g, <2>2 DEF Ttbr0Alloc, At, Goto, Return, Idle, TypeOK, OwnTable, OwnPcs, Set0Pcs, New, TablesOf
  <2>3. CASE u # t
    BY <1>2, <1>a, <1>b, <1>c, <1>d, <1>f, <1>g, <2>3 DEF Ttbr0Alloc, At, Goto, Return, Idle, TypeOK, OwnTable, OwnPcs, Set0Pcs, New, TablesOf, OwnApart, ThreadOf
  <2> QED
    BY <2>2, <2>3
<1>3. ASSUME NEW t \in Thread, NEW d \in Dev, Ttbr0AllocFail(t, d)
      PROVE  \A u \in Thread : OwnTable(u)'
  <2> SUFFICES ASSUME NEW u \in Thread PROVE OwnTable(u)'
    OBVIOUS
  <2> QED
    BY <1>3, <1>a, <1>b, <1>c, <1>d, <1>f, <1>g DEF Ttbr0AllocFail, TypeOK, OwnTable, OwnPcs, Set0Pcs, New, TablesOf
<1>4. ASSUME NEW t \in Thread, Ttbr1Check(t)
      PROVE  \A u \in Thread : OwnTable(u)'
  <2> SUFFICES ASSUME NEW u \in Thread PROVE OwnTable(u)'
    OBVIOUS
  <2>2. CASE u = t
    BY <1>4, <1>a, <1>b, <1>c, <1>d, <1>f, <1>g, <2>2 DEF Ttbr1Check, At, Goto, Return, Idle, TypeOK, OwnTable, OwnPcs, Set0Pcs, New, TablesOf
  <2>3. CASE u # t
    BY <1>4, <1>a, <1>b, <1>c, <1>d, <1>f, <1>g, <2>3 DEF Ttbr1Check, At, Goto, Return, Idle, TypeOK, OwnTable, OwnPcs, Set0Pcs, New, TablesOf, OwnApart, ThreadOf
  <2> QED
    BY <2>2, <2>3
<1>5. ASSUME NEW t \in Thread, Ttbr1Refuse(t)
      PROVE  \A u \in Thread : OwnTable(u)'
  <2> SUFFICES ASSUME NEW u \in Thread PROVE OwnTable(u)'
    OBVIOUS
  <2>2. CASE u = t
    BY <1>5, <1>a, <1>b, <1>c, <1>d, <1>f, <1>g, <2>2 DEF Ttbr1Refuse, At, Goto, Return, Idle, TypeOK, OwnTable, OwnPcs, Set0Pcs, New, TablesOf
  <2>3. CASE u # t
    BY <1>5, <1>a, <1>b, <1>c, <1>d, <1>f, <1>g, <2>3 DEF Ttbr1Refuse, At, Goto, Return, Idle, TypeOK, OwnTable, OwnPcs, Set0Pcs, New, TablesOf, OwnApart, ThreadOf
  <2> QED
    BY <2>2, <2>3
<1>6. ASSUME NEW t \in Thread, Ttbr1Enable(t)
      PROVE  \A u \in Thread : OwnTable(u)'
  <2> SUFFICES ASSUME NEW u \in Thread PROVE OwnTable(u)'
    OBVIOUS
  <2>1. Hw' \subseteq Hw \cup {th[t].table}
    BY <1>6, <1>a DEF Ttbr1Enable, Hw, TypeOK
  <2>2. CASE u = t
    BY <1>6, <1>a, <1>b, <1>c, <1>d, <2>1, <1>g, <2>2 DEF Ttbr1Enable, At, Goto, Return, Idle, TypeOK, OwnTable, OwnPcs, Set0Pcs, New, TablesOf
  <2>3. CASE u # t
    BY <1>6, <1>a, <1>b, <1>c, <1>d, <2>1, <1>g, <2>3 DEF Ttbr1Enable, At, Goto, Return, Idle, TypeOK, OwnTable, OwnPcs, Set0Pcs, New, TablesOf, OwnApart, ThreadOf
  <2> QED
    BY <2>2, <2>3
<1>7. ASSUME NEW t \in Thread, Ttbr0Check(t)
      PROVE  \A u \in Thread : OwnTable(u)'
  <2> SUFFICES ASSUME NEW u \in Thread PROVE OwnTable(u)'
    OBVIOUS
  <2>2. CASE u = t
    BY <1>7, <1>a, <1>b, <1>c, <1>d, <1>f, <1>g, <2>2 DEF Ttbr0Check, At, Goto, Return, Idle, TypeOK, OwnTable, OwnPcs, Set0Pcs, New, TablesOf
  <2>3. CASE u # t
    BY <1>7, <1>a, <1>b, <1>c, <1>d, <1>f, <1>g, <2>3 DEF Ttbr0Check, At, Goto, Return, Idle, TypeOK, OwnTable, OwnPcs, Set0Pcs, New, TablesOf, OwnApart, ThreadOf
  <2> QED
    BY <2>2, <2>3
<1>8. ASSUME NEW t \in Thread, Ttbr0Refuse(t)
      PROVE  \A u \in Thread : OwnTable(u)'
  <2> SUFFICES ASSUME NEW u \in Thread PROVE OwnTable(u)'
    OBVIOUS
  <2>2. CASE u = t
    BY <1>8, <1>a, <1>b, <1>c, <1>d, <1>f, <1>g, <2>2 DEF Ttbr0Refuse, At, Goto, Return, Idle, TypeOK, OwnTable, OwnPcs, Set0Pcs, New, TablesOf
  <2>3. CASE u # t
    BY <1>8, <1>a, <1>b, <1>c, <1>d, <1>f, <1>g, <2>3 DEF Ttbr0Refuse, At, Goto, Return, Idle, TypeOK, OwnTable, OwnPcs, Set0Pcs, New, TablesOf, OwnApart, ThreadOf
  <2> QED
    BY <2>2, <2>3
<1>9. ASSUME NEW t \in Thread, Ttbr0Enable(t)
      PROVE  \A u \in Thread : OwnTable(u)'
  <2> SUFFICES ASSUME NEW u \in Thread PROVE OwnTable(u)'
    OBVIOUS
  <2>1. Hw' \subseteq Hw \cup {th[t].table}
    BY <1>9, <1>a DEF Ttbr0Enable, Hw, TypeOK
  <2>2. CASE u = t
    BY <1>9, <1>a, <1>b, <1>c, <1>d, <2>1, <1>g, <2>2 DEF Ttbr0Enable, At, Goto, Return, Idle, TypeOK, OwnTable, OwnPcs, Set0Pcs, New, TablesOf
  <2>3. CASE u # t
    BY <1>9, <1>a, <1>b, <1>c, <1>d, <2>1, <1>g, <2>3 DEF Ttbr0Enable, At, Goto, Return, Idle, TypeOK, OwnTable, OwnPcs, Set0Pcs, New, TablesOf, OwnApart, ThreadOf
  <2> QED
    BY <2>2, <2>3
<1>10. ASSUME NEW t \in Thread, Aperture(t)
      PROVE  \A u \in Thread : OwnTable(u)'
  <2> SUFFICES ASSUME NEW u \in Thread PROVE OwnTable(u)'
    OBVIOUS
  <2>2. CASE u = t
    BY <1>10, <1>a, <1>b, <1>c, <1>d, <1>f, <1>g, <2>2 DEF Aperture, At, Goto, Return, Idle, TypeOK, OwnTable, OwnPcs, Set0Pcs, New, TablesOf
  <2>3. CASE u # t
    BY <1>10, <1>a, <1>b, <1>c, <1>d, <1>f, <1>g, <2>3 DEF Aperture, At, Goto, Return, Idle, TypeOK, OwnTable, OwnPcs, Set0Pcs, New, TablesOf, OwnApart, ThreadOf
  <2> QED
    BY <2>2, <2>3
<1>11. ASSUME NEW t \in Thread, ApertureFail(t)
      PROVE  \A u \in Thread : OwnTable(u)'
  <2> SUFFICES ASSUME NEW u \in Thread PROVE OwnTable(u)'
    OBVIOUS
  <2>2. CASE u = t
    BY <1>11, <1>a, <1>b, <1>c, <1>d, <1>f, <1>g, <2>2 DEF ApertureFail, At, Goto, Return, Idle, TypeOK, OwnTable, OwnPcs, Set0Pcs, New, TablesOf
  <2>3. CASE u # t
    BY <1>11, <1>a, <1>b, <1>c, <1>d, <1>f, <1>g, <2>3 DEF ApertureFail, At, Goto, Return, Idle, TypeOK, OwnTable, OwnPcs, Set0Pcs, New, TablesOf, OwnApart, ThreadOf
  <2> QED
    BY <2>2, <2>3
<1>12. ASSUME NEW t \in Thread, NEW d \in Dev, GlobalSet(t, d)
      PROVE  \A u \in Thread : OwnTable(u)'
  <2> SUFFICES ASSUME NEW u \in Thread PROVE OwnTable(u)'
    OBVIOUS
  <2>2. CASE u = t
    BY <1>12, <1>a, <1>b, <1>c, <1>d, <1>f, <1>g, <2>2 DEF GlobalSet, At, Goto, Return, Idle, TypeOK, OwnTable, OwnPcs, Set0Pcs, New, TablesOf
  <2>3. CASE u # t
    BY <1>12, <1>a, <1>b, <1>c, <1>d, <1>f, <1>g, <2>3 DEF GlobalSet, At, Goto, Return, Idle, TypeOK, OwnTable, OwnPcs, Set0Pcs, New, TablesOf, OwnApart, ThreadOf
  <2> QED
    BY <2>2, <2>3
<1>13. ASSUME NEW t \in Thread, NEW d \in Dev, PerprocAlloc(t, d)
      PROVE  \A u \in Thread : OwnTable(u)'
  <2> SUFFICES ASSUME NEW u \in Thread PROVE OwnTable(u)'
    OBVIOUS
  <2> QED
    BY <1>13, <1>a, <1>b, <1>c, <1>d, <1>f, <1>g DEF PerprocAlloc, TypeOK, OwnTable, OwnPcs, Set0Pcs, New, TablesOf
<1>14. ASSUME NEW t \in Thread, NEW d \in Dev, MapBegin(t, d)
      PROVE  \A u \in Thread : OwnTable(u)'
  <2> SUFFICES ASSUME NEW u \in Thread PROVE OwnTable(u)'
    OBVIOUS
  <2>2. CASE u = t
    BY <1>14, <1>a, <1>b, <1>c, <1>d, <1>f, <1>g, <2>2 DEF MapBegin, At, Goto, Return, Idle, TypeOK, OwnTable, OwnPcs, Set0Pcs, New, TablesOf
  <2>3. CASE u # t
    BY <1>14, <1>a, <1>b, <1>c, <1>d, <1>f, <1>g, <2>3 DEF MapBegin, At, Goto, Return, Idle, TypeOK, OwnTable, OwnPcs, Set0Pcs, New, TablesOf, OwnApart, ThreadOf
  <2> QED
    BY <2>2, <2>3
<1>15. ASSUME NEW t \in Thread, GlobalCapture(t)
      PROVE  \A u \in Thread : OwnTable(u)'
  <2> SUFFICES ASSUME NEW u \in Thread PROVE OwnTable(u)'
    OBVIOUS
  <2>2. CASE u = t
    BY <1>15, <1>a, <1>b, <1>c, <1>d, <1>f, <1>g, <2>2 DEF GlobalCapture, At, Goto, Return, Idle, TypeOK, OwnTable, OwnPcs, Set0Pcs, New, TablesOf
  <2>3. CASE u # t
    BY <1>15, <1>a, <1>b, <1>c, <1>d, <1>f, <1>g, <2>3 DEF GlobalCapture, At, Goto, Return, Idle, TypeOK, OwnTable, OwnPcs, Set0Pcs, New, TablesOf, OwnApart, ThreadOf
  <2> QED
    BY <2>2, <2>3
<1>16. ASSUME NEW t \in Thread, GlobalInstall(t)
      PROVE  \A u \in Thread : OwnTable(u)'
  <2> SUFFICES ASSUME NEW u \in Thread PROVE OwnTable(u)'
    OBVIOUS
  <2>2. CASE u = t
    BY <1>16, <1>a, <1>b, <1>c, <1>d, <1>f, <1>g, <2>2 DEF GlobalInstall, At, Goto, Return, Idle, TypeOK, OwnTable, OwnPcs, Set0Pcs, New, TablesOf
  <2>3. CASE u # t
    BY <1>16, <1>a, <1>b, <1>c, <1>d, <1>f, <1>g, <2>3 DEF GlobalInstall, At, Goto, Return, Idle, TypeOK, OwnTable, OwnPcs, Set0Pcs, New, TablesOf, OwnApart, ThreadOf
  <2> QED
    BY <2>2, <2>3
<1>17. ASSUME NEW t \in Thread, MapEnd(t)
      PROVE  \A u \in Thread : OwnTable(u)'
  <2> SUFFICES ASSUME NEW u \in Thread PROVE OwnTable(u)'
    OBVIOUS
  <2>2. CASE u = t
    BY <1>17, <1>a, <1>b, <1>c, <1>d, <1>f, <1>g, <2>2 DEF MapEnd, At, Goto, Return, Idle, TypeOK, OwnTable, OwnPcs, Set0Pcs, New, TablesOf
  <2>3. CASE u # t
    BY <1>17, <1>a, <1>b, <1>c, <1>d, <1>f, <1>g, <2>3 DEF MapEnd, At, Goto, Return, Idle, TypeOK, OwnTable, OwnPcs, Set0Pcs, New, TablesOf, OwnApart, ThreadOf
  <2> QED
    BY <2>2, <2>3
<1>18. ASSUME NEW t \in Thread, NEW d \in Dev, NEW n \in given, PerprocSet(t, d, n)
      PROVE  \A u \in Thread : OwnTable(u)'
  <2> SUFFICES ASSUME NEW u \in Thread PROVE OwnTable(u)'
    OBVIOUS
  <2> QED
    BY <1>18, <1>a, <1>b, <1>c, <1>d, <1>f, <1>g DEF PerprocSet, TypeOK, OwnTable, OwnPcs, Set0Pcs, New, TablesOf
<1>19. ASSUME NEW t \in Thread, NEW n \in given, PerprocFree(t, n)
      PROVE  \A u \in Thread : OwnTable(u)'
  <2> SUFFICES ASSUME NEW u \in Thread PROVE OwnTable(u)'
    OBVIOUS
  <2> QED
    BY <1>19, <1>a, <1>b, <1>c, <1>d, <1>f, <1>g DEF PerprocFree, TypeOK, OwnTable, OwnPcs, Set0Pcs, New, TablesOf
<1>20. ASSUME NEW t \in Thread, Misuse(t)
      PROVE  \A u \in Thread : OwnTable(u)'
  <2> SUFFICES ASSUME NEW u \in Thread PROVE OwnTable(u)'
    OBVIOUS
  <2>2. CASE u = t
    BY <1>20, <1>a, <1>b, <1>c, <1>d, <1>f, <1>g, <2>2 DEF Misuse, At, Goto, Return, Idle, TypeOK, OwnTable, OwnPcs, Set0Pcs, New, TablesOf
  <2>3. CASE u # t
    BY <1>20, <1>a, <1>b, <1>c, <1>d, <1>f, <1>g, <2>3 DEF Misuse, At, Goto, Return, Idle, TypeOK, OwnTable, OwnPcs, Set0Pcs, New, TablesOf, OwnApart, ThreadOf
  <2> QED
    BY <2>2, <2>3
<1> QED
  BY <1>1, <1>2, <1>3, <1>4, <1>5, <1>6, <1>7, <1>8, <1>9, <1>10,
     <1>11, <1>12, <1>13, <1>14, <1>15, <1>16, <1>17, <1>18, <1>19, <1>20 DEF Next, Context, Process

\* Tables given away or freed are never the hardware's.
LEMMA TablesKept ==
    ASSUME IInv, Next
    PROVE  TablesOf'
<1>a. TypeOK
  BY DEF IInv
<1>b. \A t \in Thread : ThreadOf(t) /\ OwnTable(t)
  BY DEF IInv
<1>c. Devs \in Nat /\ MaxTable \in Nat /\ tables \in Nat /\ Devs <= tables
  BY <1>a, TableAssumption DEF TypeOK
<1>d. TablesOf /\ OwnApart
  BY DEF IInv
<1>e. BanksOf
  BY DEF IInv
<1>f. UNCHANGED cb => Hw' = Hw
  BY DEF Hw
<1>g. Hw \subseteq 0 .. tables
  BY <1>a DEF Hw, TypeOK
<1>1. ASSUME NEW t \in Thread, NEW d \in Dev, Ttbr1Alloc(t, d)
      PROVE  TablesOf'
  <2>1. Devs + 1 .. tables \subseteq Devs + 1 .. tables + 1 /\ tables + 1 \in Devs + 1 .. tables + 1
    BY <1>c
  <2>2. given \cup freed \subseteq Devs + 1 .. tables /\ given \cap Hw = {} /\ (pgtable = 0 => given = {})
    BY <1>d DEF TablesOf
  <2>3. tables' = tables + 1 /\ freed' = freed /\ Hw' = Hw /\ given' = given
    BY <1>1, <1>f DEF Ttbr1Alloc, New
  <2>4. given' \cup freed' \subseteq Devs + 1 .. tables'
    BY <2>1, <2>2, <2>3
  <2>5. given' \cap Hw' = {}
    BY <1>c, <1>g, <2>2, <2>3
  <2>6. pgtable' = 0 => given' = {}
    BY <1>1, <2>2 DEF Ttbr1Alloc
  <2> QED
    BY <2>4, <2>5, <2>6 DEF TablesOf
<1>2. ASSUME NEW t \in Thread, NEW d \in Dev, Ttbr0Alloc(t, d)
      PROVE  TablesOf'
  <2>1. Devs + 1 .. tables \subseteq Devs + 1 .. tables + 1 /\ tables + 1 \in Devs + 1 .. tables + 1
    BY <1>c
  <2>2. given \cup freed \subseteq Devs + 1 .. tables /\ given \cap Hw = {} /\ (pgtable = 0 => given = {})
    BY <1>d DEF TablesOf
  <2>3. tables' = tables + 1 /\ freed' = freed /\ Hw' = Hw /\ given' = given
    BY <1>2, <1>f DEF Ttbr0Alloc, New
  <2>4. given' \cup freed' \subseteq Devs + 1 .. tables'
    BY <2>1, <2>2, <2>3
  <2>5. given' \cap Hw' = {}
    BY <1>c, <1>g, <2>2, <2>3
  <2>6. pgtable' = 0 => given' = {}
    BY <1>2, <1>a, <1>c, <2>2 DEF Ttbr0Alloc, TypeOK
  <2> QED
    BY <2>4, <2>5, <2>6 DEF TablesOf
<1>3. ASSUME NEW t \in Thread, NEW d \in Dev, Ttbr0AllocFail(t, d)
      PROVE  TablesOf'
  BY <1>3, <1>a, <1>b, <1>c, <1>d, <1>f, <1>g DEF Ttbr0AllocFail, TypeOK, OwnTable, OwnPcs, Set0Pcs, New, TablesOf
<1>4. ASSUME NEW t \in Thread, Ttbr1Check(t)
      PROVE  TablesOf'
  BY <1>4, <1>a, <1>b, <1>c, <1>d, <1>f, <1>g DEF Ttbr1Check, TypeOK, OwnTable, OwnPcs, Set0Pcs, New, TablesOf
<1>5. ASSUME NEW t \in Thread, Ttbr1Refuse(t)
      PROVE  TablesOf'
  BY <1>5, <1>a, <1>b, <1>c, <1>d, <1>f, <1>g DEF Ttbr1Refuse, TypeOK, OwnTable, OwnPcs, Set0Pcs, New, TablesOf
<1>6. ASSUME NEW t \in Thread, Ttbr1Enable(t)
      PROVE  TablesOf'
  <2>1. Hw' \subseteq Hw \cup {th[t].table}
    BY <1>6, <1>a DEF Ttbr1Enable, Hw, TypeOK
  <2> QED
    BY <1>6, <1>a, <1>b, <1>c, <1>d, <2>1, <1>g DEF Ttbr1Enable, TypeOK, OwnTable, OwnPcs, Set0Pcs, New, TablesOf
<1>7. ASSUME NEW t \in Thread, Ttbr0Check(t)
      PROVE  TablesOf'
  BY <1>7, <1>a, <1>b, <1>c, <1>d, <1>f, <1>g DEF Ttbr0Check, TypeOK, OwnTable, OwnPcs, Set0Pcs, New, TablesOf
<1>8. ASSUME NEW t \in Thread, Ttbr0Refuse(t)
      PROVE  TablesOf'
  BY <1>8, <1>a, <1>b, <1>c, <1>d, <1>f, <1>g DEF Ttbr0Refuse, TypeOK, OwnTable, OwnPcs, Set0Pcs, New, TablesOf
<1>9. ASSUME NEW t \in Thread, Ttbr0Enable(t)
      PROVE  TablesOf'
  <2>1. Hw' \subseteq Hw \cup {th[t].table}
    BY <1>9, <1>a DEF Ttbr0Enable, Hw, TypeOK
  <2> QED
    BY <1>9, <1>a, <1>b, <1>c, <1>d, <2>1, <1>g DEF Ttbr0Enable, TypeOK, OwnTable, OwnPcs, Set0Pcs, New, TablesOf
<1>10. ASSUME NEW t \in Thread, Aperture(t)
      PROVE  TablesOf'
  BY <1>10, <1>a, <1>b, <1>c, <1>d, <1>f, <1>g DEF Aperture, TypeOK, OwnTable, OwnPcs, Set0Pcs, New, TablesOf
<1>11. ASSUME NEW t \in Thread, ApertureFail(t)
      PROVE  TablesOf'
  BY <1>11, <1>a, <1>b, <1>c, <1>d, <1>f, <1>g DEF ApertureFail, TypeOK, OwnTable, OwnPcs, Set0Pcs, New, TablesOf
<1>12. ASSUME NEW t \in Thread, NEW d \in Dev, GlobalSet(t, d)
      PROVE  TablesOf'
  BY <1>12, <1>a, <1>b, <1>c, <1>d, <1>f, <1>g DEF GlobalSet, TypeOK, OwnTable, OwnPcs, Set0Pcs, New, TablesOf
<1>13. ASSUME NEW t \in Thread, NEW d \in Dev, PerprocAlloc(t, d)
      PROVE  TablesOf'
  <2>1. Devs + 1 .. tables \subseteq Devs + 1 .. tables + 1 /\ tables + 1 \in Devs + 1 .. tables + 1
    BY <1>c
  <2>2. given \cup freed \subseteq Devs + 1 .. tables /\ given \cap Hw = {} /\ (pgtable = 0 => given = {})
    BY <1>d DEF TablesOf
  <2>3. tables' = tables + 1 /\ freed' = freed /\ Hw' = Hw /\ (given' = given \cup {tables + 1} \/ given' = given)
    BY <1>13, <1>f DEF PerprocAlloc, New
  <2>4. given' \cup freed' \subseteq Devs + 1 .. tables'
    BY <2>1, <2>2, <2>3
  <2>5. given' \cap Hw' = {}
    BY <1>c, <1>g, <2>2, <2>3
  <2>6. pgtable' = 0 => given' = {}
    BY <1>13 DEF PerprocAlloc
  <2> QED
    BY <2>4, <2>5, <2>6 DEF TablesOf
<1>14. ASSUME NEW t \in Thread, NEW d \in Dev, MapBegin(t, d)
      PROVE  TablesOf'
  BY <1>14, <1>a, <1>b, <1>c, <1>d, <1>f, <1>g DEF MapBegin, TypeOK, OwnTable, OwnPcs, Set0Pcs, New, TablesOf
<1>15. ASSUME NEW t \in Thread, GlobalCapture(t)
      PROVE  TablesOf'
  <2>1. pgtable' # 0
    BY <1>15, <1>a, <1>b DEF GlobalCapture, TypeOK, ThreadOf
  <2>2. Hw' = Hw /\ UNCHANGED <<given, freed, tables>>
    BY <1>15, <1>f DEF GlobalCapture
  <2> QED
    BY <1>d, <2>1, <2>2 DEF TablesOf
<1>16. ASSUME NEW t \in Thread, GlobalInstall(t)
      PROVE  TablesOf'
  BY <1>16, <1>a, <1>b, <1>c, <1>d, <1>f, <1>g DEF GlobalInstall, TypeOK, OwnTable, OwnPcs, Set0Pcs, New, TablesOf
<1>17. ASSUME NEW t \in Thread, MapEnd(t)
      PROVE  TablesOf'
  BY <1>17, <1>a, <1>b, <1>c, <1>d, <1>f, <1>g DEF MapEnd, TypeOK, OwnTable, OwnPcs, Set0Pcs, New, TablesOf
<1>18. ASSUME NEW t \in Thread, NEW d \in Dev, NEW n \in given, PerprocSet(t, d, n)
      PROVE  TablesOf'
  BY <1>18, <1>a, <1>b, <1>c, <1>d, <1>f, <1>g DEF PerprocSet, TypeOK, OwnTable, OwnPcs, Set0Pcs, New, TablesOf
<1>19. ASSUME NEW t \in Thread, NEW n \in given, PerprocFree(t, n)
      PROVE  TablesOf'
  BY <1>19, <1>a, <1>b, <1>c, <1>d, <1>f, <1>g DEF PerprocFree, TypeOK, OwnTable, OwnPcs, Set0Pcs, New, TablesOf
<1>20. ASSUME NEW t \in Thread, Misuse(t)
      PROVE  TablesOf'
  BY <1>20, <1>a, <1>b, <1>c, <1>d, <1>f, <1>g DEF Misuse, TypeOK, OwnTable, OwnPcs, Set0Pcs, New, TablesOf
<1> QED
  BY <1>1, <1>2, <1>3, <1>4, <1>5, <1>6, <1>7, <1>8, <1>9, <1>10,
     <1>11, <1>12, <1>13, <1>14, <1>15, <1>16, <1>17, <1>18, <1>19, <1>20 DEF Next, Context, Process

\* No table of a context bank is freed before the firmware refuses its aperture.
LEMMA BanksKept ==
    ASSUME IInv, Next
    PROVE  BanksOf'
<1>a. TypeOK
  BY DEF IInv
<1>b. \A t \in Thread : ThreadOf(t) /\ OwnTable(t)
  BY DEF IInv
<1>c. Devs \in Nat /\ MaxTable \in Nat /\ tables \in Nat /\ Devs <= tables
  BY <1>a, TableAssumption DEF TypeOK
<1>d. TablesOf /\ OwnApart
  BY DEF IInv
<1>e. BanksOf
  BY DEF IInv
<1>f. UNCHANGED cb => Hw' = Hw
  BY DEF Hw
<1>g. Hw \subseteq 0 .. tables
  BY <1>a DEF Hw, TypeOK
<1>1. ASSUME NEW t \in Thread, NEW d \in Dev, Ttbr1Alloc(t, d)
      PROVE  BanksOf'
  BY <1>1, <1>a, <1>b, <1>c, <1>d, <1>e, <1>g DEF Ttbr1Alloc, TypeOK, OwnTable, OwnPcs, Set0Pcs, New, TablesOf, BanksOf, Hw
<1>2. ASSUME NEW t \in Thread, NEW d \in Dev, Ttbr0Alloc(t, d)
      PROVE  BanksOf'
  BY <1>2, <1>a, <1>b, <1>c, <1>d, <1>e, <1>g DEF Ttbr0Alloc, TypeOK, OwnTable, OwnPcs, Set0Pcs, New, TablesOf, BanksOf, Hw
<1>3. ASSUME NEW t \in Thread, NEW d \in Dev, Ttbr0AllocFail(t, d)
      PROVE  BanksOf'
  BY <1>3, <1>a, <1>b, <1>c, <1>d, <1>e, <1>g DEF Ttbr0AllocFail, TypeOK, OwnTable, OwnPcs, Set0Pcs, New, TablesOf, BanksOf, Hw
<1>4. ASSUME NEW t \in Thread, Ttbr1Check(t)
      PROVE  BanksOf'
  BY <1>4, <1>a, <1>b, <1>c, <1>d, <1>e, <1>g DEF Ttbr1Check, TypeOK, OwnTable, OwnPcs, Set0Pcs, New, TablesOf, BanksOf, Hw
<1>5. ASSUME NEW t \in Thread, Ttbr1Refuse(t)
      PROVE  BanksOf'
  BY <1>5, <1>a, <1>b, <1>c, <1>d, <1>e, <1>g DEF Ttbr1Refuse, TypeOK, OwnTable, OwnPcs, Set0Pcs, New, TablesOf, BanksOf, Hw
<1>6. ASSUME NEW t \in Thread, Ttbr1Enable(t)
      PROVE  BanksOf'
  BY <1>6, <1>a, <1>b, <1>c, <1>d, <1>e, <1>g DEF Ttbr1Enable, TypeOK, OwnTable, OwnPcs, Set0Pcs, New, TablesOf, BanksOf, Hw
<1>7. ASSUME NEW t \in Thread, Ttbr0Check(t)
      PROVE  BanksOf'
  BY <1>7, <1>a, <1>b, <1>c, <1>d, <1>e, <1>g DEF Ttbr0Check, TypeOK, OwnTable, OwnPcs, Set0Pcs, New, TablesOf, BanksOf, Hw
<1>8. ASSUME NEW t \in Thread, Ttbr0Refuse(t)
      PROVE  BanksOf'
  BY <1>8, <1>a, <1>b, <1>c, <1>d, <1>e, <1>g DEF Ttbr0Refuse, TypeOK, OwnTable, OwnPcs, Set0Pcs, New, TablesOf, BanksOf, Hw
<1>9. ASSUME NEW t \in Thread, Ttbr0Enable(t)
      PROVE  BanksOf'
  BY <1>9, <1>a, <1>b, <1>c, <1>d, <1>e, <1>g DEF Ttbr0Enable, TypeOK, OwnTable, OwnPcs, Set0Pcs, New, TablesOf, BanksOf, Hw
<1>10. ASSUME NEW t \in Thread, Aperture(t)
      PROVE  BanksOf'
  BY <1>10, <1>a, <1>b, <1>c, <1>d, <1>e, <1>g DEF Aperture, TypeOK, OwnTable, OwnPcs, Set0Pcs, New, TablesOf, BanksOf, Hw
<1>11. ASSUME NEW t \in Thread, ApertureFail(t)
      PROVE  BanksOf'
  BY <1>11, <1>a, <1>b, <1>c, <1>d, <1>e, <1>g DEF ApertureFail, TypeOK, OwnTable, OwnPcs, Set0Pcs, New, TablesOf, BanksOf, Hw
<1>12. ASSUME NEW t \in Thread, NEW d \in Dev, GlobalSet(t, d)
      PROVE  BanksOf'
  BY <1>12, <1>a, <1>b, <1>c, <1>d, <1>e, <1>g DEF GlobalSet, TypeOK, OwnTable, OwnPcs, Set0Pcs, New, TablesOf, BanksOf, Hw
<1>13. ASSUME NEW t \in Thread, NEW d \in Dev, PerprocAlloc(t, d)
      PROVE  BanksOf'
  BY <1>13, <1>a, <1>b, <1>c, <1>d, <1>e, <1>g DEF PerprocAlloc, TypeOK, OwnTable, OwnPcs, Set0Pcs, New, TablesOf, BanksOf, Hw
<1>14. ASSUME NEW t \in Thread, NEW d \in Dev, MapBegin(t, d)
      PROVE  BanksOf'
  BY <1>14, <1>a, <1>b, <1>c, <1>d, <1>e, <1>g DEF MapBegin, TypeOK, OwnTable, OwnPcs, Set0Pcs, New, TablesOf, BanksOf, Hw
<1>15. ASSUME NEW t \in Thread, GlobalCapture(t)
      PROVE  BanksOf'
  BY <1>15, <1>a, <1>b, <1>c, <1>d, <1>e, <1>g DEF GlobalCapture, TypeOK, OwnTable, OwnPcs, Set0Pcs, New, TablesOf, BanksOf, Hw
<1>16. ASSUME NEW t \in Thread, GlobalInstall(t)
      PROVE  BanksOf'
  BY <1>16, <1>a, <1>b, <1>c, <1>d, <1>e, <1>g DEF GlobalInstall, TypeOK, OwnTable, OwnPcs, Set0Pcs, New, TablesOf, BanksOf, Hw
<1>17. ASSUME NEW t \in Thread, MapEnd(t)
      PROVE  BanksOf'
  BY <1>17, <1>a, <1>b, <1>c, <1>d, <1>e, <1>g DEF MapEnd, TypeOK, OwnTable, OwnPcs, Set0Pcs, New, TablesOf, BanksOf, Hw
<1>18. ASSUME NEW t \in Thread, NEW d \in Dev, NEW n \in given, PerprocSet(t, d, n)
      PROVE  BanksOf'
  BY <1>18, <1>a, <1>b, <1>c, <1>d, <1>e, <1>g DEF PerprocSet, TypeOK, OwnTable, OwnPcs, Set0Pcs, New, TablesOf, BanksOf, Hw
<1>19. ASSUME NEW t \in Thread, NEW n \in given, PerprocFree(t, n)
      PROVE  BanksOf'
  BY <1>19, <1>a, <1>b, <1>c, <1>d, <1>e, <1>g DEF PerprocFree, TypeOK, OwnTable, OwnPcs, Set0Pcs, New, TablesOf, BanksOf, Hw
<1>20. ASSUME NEW t \in Thread, Misuse(t)
      PROVE  BanksOf'
  BY <1>20, <1>a, <1>b, <1>c, <1>d, <1>e, <1>g DEF Misuse, TypeOK, OwnTable, OwnPcs, Set0Pcs, New, TablesOf, BanksOf, Hw
<1> QED
  BY <1>1, <1>2, <1>3, <1>4, <1>5, <1>6, <1>7, <1>8, <1>9, <1>10,
     <1>11, <1>12, <1>13, <1>14, <1>15, <1>16, <1>17, <1>18, <1>19, <1>20 DEF Next, Context, Process

\* Careful callers configure one call after the other.
LEMMA SoleKept ==
    ASSUME IInv, Next
    PROVE  care' > 0 => \A u, v \in Thread : th'[u].pc \in SetPcs /\ th'[v].pc \in SetPcs => u = v
<1>a. TypeOK
  BY DEF IInv
<1>b. \A t \in Thread : ThreadOf(t) /\ OwnTable(t)
  BY DEF IInv
<1>c. Devs \in Nat /\ MaxTable \in Nat /\ tables \in Nat /\ Devs <= tables
  BY <1>a, TableAssumption DEF TypeOK
<1>d. TablesOf /\ OwnApart
  BY DEF IInv
<1>e. BanksOf /\ SerialInv
  BY DEF IInv
<1>1. ASSUME NEW t \in Thread, NEW d \in Dev, Ttbr1Alloc(t, d)
      PROVE  care' > 0 => \A u, v \in Thread : th'[u].pc \in SetPcs /\ th'[v].pc \in SetPcs => u = v
  BY <1>1, <1>a, <1>e DEF Ttbr1Alloc, Begin, At, Goto, Return, Idle, TypeOK, SerialInv, SetPcs
<1>2. ASSUME NEW t \in Thread, NEW d \in Dev, Ttbr0Alloc(t, d)
      PROVE  care' > 0 => \A u, v \in Thread : th'[u].pc \in SetPcs /\ th'[v].pc \in SetPcs => u = v
  BY <1>2, <1>a, <1>e DEF Ttbr0Alloc, Begin, At, Goto, Return, Idle, TypeOK, SerialInv, SetPcs
<1>3. ASSUME NEW t \in Thread, NEW d \in Dev, Ttbr0AllocFail(t, d)
      PROVE  care' > 0 => \A u, v \in Thread : th'[u].pc \in SetPcs /\ th'[v].pc \in SetPcs => u = v
  BY <1>3, <1>a, <1>e DEF Ttbr0AllocFail, Begin, At, Goto, Return, Idle, TypeOK, SerialInv, SetPcs
<1>4. ASSUME NEW t \in Thread, Ttbr1Check(t)
      PROVE  care' > 0 => \A u, v \in Thread : th'[u].pc \in SetPcs /\ th'[v].pc \in SetPcs => u = v
  BY <1>4, <1>a, <1>e DEF Ttbr1Check, Begin, At, Goto, Return, Idle, TypeOK, SerialInv, SetPcs
<1>5. ASSUME NEW t \in Thread, Ttbr1Refuse(t)
      PROVE  care' > 0 => \A u, v \in Thread : th'[u].pc \in SetPcs /\ th'[v].pc \in SetPcs => u = v
  BY <1>5, <1>a, <1>e DEF Ttbr1Refuse, Begin, At, Goto, Return, Idle, TypeOK, SerialInv, SetPcs
<1>6. ASSUME NEW t \in Thread, Ttbr1Enable(t)
      PROVE  care' > 0 => \A u, v \in Thread : th'[u].pc \in SetPcs /\ th'[v].pc \in SetPcs => u = v
  BY <1>6, <1>a, <1>e DEF Ttbr1Enable, Begin, At, Goto, Return, Idle, TypeOK, SerialInv, SetPcs
<1>7. ASSUME NEW t \in Thread, Ttbr0Check(t)
      PROVE  care' > 0 => \A u, v \in Thread : th'[u].pc \in SetPcs /\ th'[v].pc \in SetPcs => u = v
  BY <1>7, <1>a, <1>e DEF Ttbr0Check, Begin, At, Goto, Return, Idle, TypeOK, SerialInv, SetPcs
<1>8. ASSUME NEW t \in Thread, Ttbr0Refuse(t)
      PROVE  care' > 0 => \A u, v \in Thread : th'[u].pc \in SetPcs /\ th'[v].pc \in SetPcs => u = v
  BY <1>8, <1>a, <1>e DEF Ttbr0Refuse, Begin, At, Goto, Return, Idle, TypeOK, SerialInv, SetPcs
<1>9. ASSUME NEW t \in Thread, Ttbr0Enable(t)
      PROVE  care' > 0 => \A u, v \in Thread : th'[u].pc \in SetPcs /\ th'[v].pc \in SetPcs => u = v
  BY <1>9, <1>a, <1>e DEF Ttbr0Enable, Begin, At, Goto, Return, Idle, TypeOK, SerialInv, SetPcs
<1>10. ASSUME NEW t \in Thread, Aperture(t)
      PROVE  care' > 0 => \A u, v \in Thread : th'[u].pc \in SetPcs /\ th'[v].pc \in SetPcs => u = v
  BY <1>10, <1>a, <1>e DEF Aperture, Begin, At, Goto, Return, Idle, TypeOK, SerialInv, SetPcs
<1>11. ASSUME NEW t \in Thread, ApertureFail(t)
      PROVE  care' > 0 => \A u, v \in Thread : th'[u].pc \in SetPcs /\ th'[v].pc \in SetPcs => u = v
  BY <1>11, <1>a, <1>e DEF ApertureFail, Begin, At, Goto, Return, Idle, TypeOK, SerialInv, SetPcs
<1>12. ASSUME NEW t \in Thread, NEW d \in Dev, GlobalSet(t, d)
      PROVE  care' > 0 => \A u, v \in Thread : th'[u].pc \in SetPcs /\ th'[v].pc \in SetPcs => u = v
  BY <1>12, <1>a, <1>e DEF GlobalSet, Begin, At, Goto, Return, Idle, TypeOK, SerialInv, SetPcs
<1>13. ASSUME NEW t \in Thread, NEW d \in Dev, PerprocAlloc(t, d)
      PROVE  care' > 0 => \A u, v \in Thread : th'[u].pc \in SetPcs /\ th'[v].pc \in SetPcs => u = v
  BY <1>13, <1>a, <1>e DEF PerprocAlloc, Begin, At, Goto, Return, Idle, TypeOK, SerialInv, SetPcs
<1>14. ASSUME NEW t \in Thread, NEW d \in Dev, MapBegin(t, d)
      PROVE  care' > 0 => \A u, v \in Thread : th'[u].pc \in SetPcs /\ th'[v].pc \in SetPcs => u = v
  BY <1>14, <1>a, <1>e DEF MapBegin, Begin, At, Goto, Return, Idle, TypeOK, SerialInv, SetPcs
<1>15. ASSUME NEW t \in Thread, GlobalCapture(t)
      PROVE  care' > 0 => \A u, v \in Thread : th'[u].pc \in SetPcs /\ th'[v].pc \in SetPcs => u = v
  BY <1>15, <1>a, <1>e DEF GlobalCapture, Begin, At, Goto, Return, Idle, TypeOK, SerialInv, SetPcs
<1>16. ASSUME NEW t \in Thread, GlobalInstall(t)
      PROVE  care' > 0 => \A u, v \in Thread : th'[u].pc \in SetPcs /\ th'[v].pc \in SetPcs => u = v
  BY <1>16, <1>a, <1>e DEF GlobalInstall, Begin, At, Goto, Return, Idle, TypeOK, SerialInv, SetPcs
<1>17. ASSUME NEW t \in Thread, MapEnd(t)
      PROVE  care' > 0 => \A u, v \in Thread : th'[u].pc \in SetPcs /\ th'[v].pc \in SetPcs => u = v
  BY <1>17, <1>a, <1>e DEF MapEnd, Begin, At, Goto, Return, Idle, TypeOK, SerialInv, SetPcs
<1>18. ASSUME NEW t \in Thread, NEW d \in Dev, NEW n \in given, PerprocSet(t, d, n)
      PROVE  care' > 0 => \A u, v \in Thread : th'[u].pc \in SetPcs /\ th'[v].pc \in SetPcs => u = v
  BY <1>18, <1>a, <1>e DEF PerprocSet, Begin, At, Goto, Return, Idle, TypeOK, SerialInv, SetPcs
<1>19. ASSUME NEW t \in Thread, NEW n \in given, PerprocFree(t, n)
      PROVE  care' > 0 => \A u, v \in Thread : th'[u].pc \in SetPcs /\ th'[v].pc \in SetPcs => u = v
  BY <1>19, <1>a, <1>e DEF PerprocFree, Begin, At, Goto, Return, Idle, TypeOK, SerialInv, SetPcs
<1>20. ASSUME NEW t \in Thread, Misuse(t)
      PROVE  care' > 0 => \A u, v \in Thread : th'[u].pc \in SetPcs /\ th'[v].pc \in SetPcs => u = v
  BY <1>20, <1>a, <1>e DEF Misuse, Begin, At, Goto, Return, Idle, TypeOK, SerialInv, SetPcs
<1> QED
  BY <1>1, <1>2, <1>3, <1>4, <1>5, <1>6, <1>7, <1>8, <1>9, <1>10,
     <1>11, <1>12, <1>13, <1>14, <1>15, <1>16, <1>17, <1>18, <1>19, <1>20 DEF Next, Context, Process

\* ... so that what the test of a bank or of the global table found still holds.
LEMMA SerialOfKept ==
    ASSUME IInv, Next
    PROVE  care' > 0 => \A u \in Thread : SerialOf(u)'
<1>a. TypeOK
  BY DEF IInv
<1>b. \A t \in Thread : ThreadOf(t) /\ OwnTable(t)
  BY DEF IInv
<1>c. Devs \in Nat /\ MaxTable \in Nat /\ tables \in Nat /\ Devs <= tables
  BY <1>a, TableAssumption DEF TypeOK
<1>d. TablesOf /\ OwnApart
  BY DEF IInv
<1>e. BanksOf /\ SerialInv
  BY DEF IInv
<1>1. ASSUME NEW t \in Thread, NEW d \in Dev, Ttbr1Alloc(t, d)
      PROVE  care' > 0 => \A u \in Thread : SerialOf(u)'
  <2> SUFFICES ASSUME care > 0, NEW u \in Thread PROVE SerialOf(u)'
    BY <1>1 DEF Ttbr1Alloc
  <2>1. CASE u = t
    BY <1>1, <1>a, <1>b, <1>e, <2>1 DEF Ttbr1Alloc, At, Goto, Return, Idle, TypeOK, SerialInv, SerialOf, Hw, ThreadOf
  <2>2. CASE u # t
    <3>1. th'[u] = th[u] /\ SerialOf(u)
      BY <1>1, <1>a, <1>e, <2>2 DEF Ttbr1Alloc, At, Goto, Return, TypeOK, SerialInv
    <3>2. th[u].pc \notin SetPcs
      BY <1>1, <1>e, <2>2 DEF Ttbr1Alloc, Begin, SerialInv, SetPcs, Idle
    <3> QED
      BY <3>1, <3>2 DEF SerialOf, SetPcs
  <2> QED
    BY <2>1, <2>2
<1>2. ASSUME NEW t \in Thread, NEW d \in Dev, Ttbr0Alloc(t, d)
      PROVE  care' > 0 => \A u \in Thread : SerialOf(u)'
  <2> SUFFICES ASSUME care > 0, NEW u \in Thread PROVE SerialOf(u)'
    BY <1>2 DEF Ttbr0Alloc
  <2>1. CASE u = t
    BY <1>2, <1>a, <1>b, <1>e, <2>1 DEF Ttbr0Alloc, At, Goto, Return, Idle, TypeOK, SerialInv, SerialOf, Hw, ThreadOf
  <2>2. CASE u # t
    <3>1. th'[u] = th[u] /\ SerialOf(u)
      BY <1>2, <1>a, <1>e, <2>2 DEF Ttbr0Alloc, At, Goto, Return, TypeOK, SerialInv
    <3>2. th[u].pc \notin SetPcs
      BY <1>2, <1>e, <2>2 DEF Ttbr0Alloc, Begin, SerialInv, SetPcs, Idle
    <3> QED
      BY <3>1, <3>2 DEF SerialOf, SetPcs
  <2> QED
    BY <2>1, <2>2
<1>3. ASSUME NEW t \in Thread, NEW d \in Dev, Ttbr0AllocFail(t, d)
      PROVE  care' > 0 => \A u \in Thread : SerialOf(u)'
  <2> SUFFICES ASSUME care > 0, NEW u \in Thread PROVE SerialOf(u)'
    BY <1>3 DEF Ttbr0AllocFail
  <2>1. th'[u] = th[u] /\ SerialOf(u) /\ th[u].pc \notin SetPcs
    BY <1>3, <1>e DEF Ttbr0AllocFail, Begin, SerialInv, SetPcs, Idle
  <2> QED
    BY <2>1 DEF SerialOf, SetPcs
<1>4. ASSUME NEW t \in Thread, Ttbr1Check(t)
      PROVE  care' > 0 => \A u \in Thread : SerialOf(u)'
  <2> SUFFICES ASSUME care > 0, NEW u \in Thread PROVE SerialOf(u)'
    BY <1>4 DEF Ttbr1Check
  <2>1. CASE u = t
    BY <1>4, <1>a, <1>b, <1>e, <2>1 DEF Ttbr1Check, At, Goto, Return, Idle, TypeOK, SerialInv, SerialOf, Hw, ThreadOf
  <2>2. CASE u # t
    <3>1. th'[u] = th[u] /\ SerialOf(u)
      BY <1>4, <1>a, <1>e, <2>2 DEF Ttbr1Check, At, Goto, Return, TypeOK, SerialInv
    <3>2. th[u].pc \notin SetPcs
      BY <1>4, <1>e, <2>2 DEF Ttbr1Check, Begin, SerialInv, SetPcs, Idle
    <3> QED
      BY <3>1, <3>2 DEF SerialOf, SetPcs
  <2> QED
    BY <2>1, <2>2
<1>5. ASSUME NEW t \in Thread, Ttbr1Refuse(t)
      PROVE  care' > 0 => \A u \in Thread : SerialOf(u)'
  <2> SUFFICES ASSUME care > 0, NEW u \in Thread PROVE SerialOf(u)'
    BY <1>5 DEF Ttbr1Refuse
  <2>1. CASE u = t
    BY <1>5, <1>a, <1>b, <1>e, <2>1 DEF Ttbr1Refuse, At, Goto, Return, Idle, TypeOK, SerialInv, SerialOf, Hw, ThreadOf
  <2>2. CASE u # t
    <3>1. th'[u] = th[u] /\ SerialOf(u)
      BY <1>5, <1>a, <1>e, <2>2 DEF Ttbr1Refuse, At, Goto, Return, TypeOK, SerialInv
    <3>2. th[u].pc \notin SetPcs
      BY <1>5, <1>e, <2>2 DEF Ttbr1Refuse, Begin, SerialInv, SetPcs, Idle
    <3> QED
      BY <3>1, <3>2 DEF SerialOf, SetPcs
  <2> QED
    BY <2>1, <2>2
<1>6. ASSUME NEW t \in Thread, Ttbr1Enable(t)
      PROVE  care' > 0 => \A u \in Thread : SerialOf(u)'
  <2> SUFFICES ASSUME care > 0, NEW u \in Thread PROVE SerialOf(u)'
    BY <1>6 DEF Ttbr1Enable
  <2>1. CASE u = t
    BY <1>6, <1>a, <1>b, <1>e, <2>1 DEF Ttbr1Enable, At, Goto, Return, Idle, TypeOK, SerialInv, SerialOf, Hw, ThreadOf
  <2>2. CASE u # t
    <3>1. th'[u] = th[u] /\ SerialOf(u)
      BY <1>6, <1>a, <1>e, <2>2 DEF Ttbr1Enable, At, Goto, Return, TypeOK, SerialInv
    <3>2. th[u].pc \notin SetPcs
      BY <1>6, <1>e, <2>2 DEF Ttbr1Enable, Begin, SerialInv, SetPcs, Idle
    <3> QED
      BY <3>1, <3>2 DEF SerialOf, SetPcs
  <2> QED
    BY <2>1, <2>2
<1>7. ASSUME NEW t \in Thread, Ttbr0Check(t)
      PROVE  care' > 0 => \A u \in Thread : SerialOf(u)'
  <2> SUFFICES ASSUME care > 0, NEW u \in Thread PROVE SerialOf(u)'
    BY <1>7 DEF Ttbr0Check
  <2>1. CASE u = t
    BY <1>7, <1>a, <1>b, <1>e, <2>1 DEF Ttbr0Check, At, Goto, Return, Idle, TypeOK, SerialInv, SerialOf, Hw, ThreadOf
  <2>2. CASE u # t
    <3>1. th'[u] = th[u] /\ SerialOf(u)
      BY <1>7, <1>a, <1>e, <2>2 DEF Ttbr0Check, At, Goto, Return, TypeOK, SerialInv
    <3>2. th[u].pc \notin SetPcs
      BY <1>7, <1>e, <2>2 DEF Ttbr0Check, Begin, SerialInv, SetPcs, Idle
    <3> QED
      BY <3>1, <3>2 DEF SerialOf, SetPcs
  <2> QED
    BY <2>1, <2>2
<1>8. ASSUME NEW t \in Thread, Ttbr0Refuse(t)
      PROVE  care' > 0 => \A u \in Thread : SerialOf(u)'
  <2> SUFFICES ASSUME care > 0, NEW u \in Thread PROVE SerialOf(u)'
    BY <1>8 DEF Ttbr0Refuse
  <2>1. CASE u = t
    BY <1>8, <1>a, <1>b, <1>e, <2>1 DEF Ttbr0Refuse, At, Goto, Return, Idle, TypeOK, SerialInv, SerialOf, Hw, ThreadOf
  <2>2. CASE u # t
    <3>1. th'[u] = th[u] /\ SerialOf(u)
      BY <1>8, <1>a, <1>e, <2>2 DEF Ttbr0Refuse, At, Goto, Return, TypeOK, SerialInv
    <3>2. th[u].pc \notin SetPcs
      BY <1>8, <1>e, <2>2 DEF Ttbr0Refuse, Begin, SerialInv, SetPcs, Idle
    <3> QED
      BY <3>1, <3>2 DEF SerialOf, SetPcs
  <2> QED
    BY <2>1, <2>2
<1>9. ASSUME NEW t \in Thread, Ttbr0Enable(t)
      PROVE  care' > 0 => \A u \in Thread : SerialOf(u)'
  <2> SUFFICES ASSUME care > 0, NEW u \in Thread PROVE SerialOf(u)'
    BY <1>9 DEF Ttbr0Enable
  <2>1. CASE u = t
    BY <1>9, <1>a, <1>b, <1>e, <2>1 DEF Ttbr0Enable, At, Goto, Return, Idle, TypeOK, SerialInv, SerialOf, Hw, ThreadOf
  <2>2. CASE u # t
    <3>1. th'[u] = th[u] /\ SerialOf(u)
      BY <1>9, <1>a, <1>e, <2>2 DEF Ttbr0Enable, At, Goto, Return, TypeOK, SerialInv
    <3>2. th[u].pc \notin SetPcs
      BY <1>9, <1>e, <2>2 DEF Ttbr0Enable, Begin, SerialInv, SetPcs, Idle
    <3> QED
      BY <3>1, <3>2 DEF SerialOf, SetPcs
  <2> QED
    BY <2>1, <2>2
<1>10. ASSUME NEW t \in Thread, Aperture(t)
      PROVE  care' > 0 => \A u \in Thread : SerialOf(u)'
  <2> SUFFICES ASSUME care > 0, NEW u \in Thread PROVE SerialOf(u)'
    BY <1>10 DEF Aperture
  <2>1. CASE u = t
    BY <1>10, <1>a, <1>b, <1>e, <2>1 DEF Aperture, At, Goto, Return, Idle, TypeOK, SerialInv, SerialOf, Hw, ThreadOf
  <2>2. CASE u # t
    <3>1. th'[u] = th[u] /\ SerialOf(u)
      BY <1>10, <1>a, <1>e, <2>2 DEF Aperture, At, Goto, Return, TypeOK, SerialInv
    <3>2. th[u].pc \notin SetPcs
      BY <1>10, <1>e, <2>2 DEF Aperture, Begin, SerialInv, SetPcs, Idle
    <3> QED
      BY <3>1, <3>2 DEF SerialOf, SetPcs
  <2> QED
    BY <2>1, <2>2
<1>11. ASSUME NEW t \in Thread, ApertureFail(t)
      PROVE  care' > 0 => \A u \in Thread : SerialOf(u)'
  <2> SUFFICES ASSUME care > 0, NEW u \in Thread PROVE SerialOf(u)'
    BY <1>11 DEF ApertureFail
  <2>1. CASE u = t
    BY <1>11, <1>a, <1>b, <1>e, <2>1 DEF ApertureFail, At, Goto, Return, Idle, TypeOK, SerialInv, SerialOf, Hw, ThreadOf
  <2>2. CASE u # t
    <3>1. th'[u] = th[u] /\ SerialOf(u)
      BY <1>11, <1>a, <1>e, <2>2 DEF ApertureFail, At, Goto, Return, TypeOK, SerialInv
    <3>2. th[u].pc \notin SetPcs
      BY <1>11, <1>e, <2>2 DEF ApertureFail, Begin, SerialInv, SetPcs, Idle
    <3> QED
      BY <3>1, <3>2 DEF SerialOf, SetPcs
  <2> QED
    BY <2>1, <2>2
<1>12. ASSUME NEW t \in Thread, NEW d \in Dev, GlobalSet(t, d)
      PROVE  care' > 0 => \A u \in Thread : SerialOf(u)'
  <2> SUFFICES ASSUME care > 0, NEW u \in Thread PROVE SerialOf(u)'
    BY <1>12 DEF GlobalSet
  <2>1. CASE u = t
    BY <1>12, <1>a, <1>b, <1>e, <2>1 DEF GlobalSet, At, Goto, Return, Idle, TypeOK, SerialInv, SerialOf, Hw, ThreadOf
  <2>2. CASE u # t
    <3>1. th'[u] = th[u] /\ SerialOf(u)
      BY <1>12, <1>a, <1>e, <2>2 DEF GlobalSet, At, Goto, Return, TypeOK, SerialInv
    <3>2. th[u].pc \notin SetPcs
      BY <1>12, <1>e, <2>2 DEF GlobalSet, Begin, SerialInv, SetPcs, Idle
    <3> QED
      BY <3>1, <3>2 DEF SerialOf, SetPcs
  <2> QED
    BY <2>1, <2>2
<1>13. ASSUME NEW t \in Thread, NEW d \in Dev, PerprocAlloc(t, d)
      PROVE  care' > 0 => \A u \in Thread : SerialOf(u)'
  <2> SUFFICES ASSUME care > 0, NEW u \in Thread PROVE SerialOf(u)'
    BY <1>13 DEF PerprocAlloc
  <2>1. th'[u] = th[u] /\ SerialOf(u) /\ th[u].pc \notin SetPcs
    BY <1>13, <1>e DEF PerprocAlloc, Begin, SerialInv, SetPcs, Idle
  <2> QED
    BY <2>1 DEF SerialOf, SetPcs
<1>14. ASSUME NEW t \in Thread, NEW d \in Dev, MapBegin(t, d)
      PROVE  care' > 0 => \A u \in Thread : SerialOf(u)'
  <2> SUFFICES ASSUME care > 0, NEW u \in Thread PROVE SerialOf(u)'
    BY <1>14 DEF MapBegin
  <2>1. CASE u = t
    BY <1>14, <1>a, <1>b, <1>e, <2>1 DEF MapBegin, At, Goto, Return, Idle, TypeOK, SerialInv, SerialOf, Hw, ThreadOf
  <2>2. CASE u # t
    <3>1. th'[u] = th[u] /\ SerialOf(u)
      BY <1>14, <1>a, <1>e, <2>2 DEF MapBegin, At, Goto, Return, TypeOK, SerialInv
    <3>2. th[u].pc \notin SetPcs \/ UNCHANGED <<cb, pgtable, lost>>
      BY <1>14, <1>e, <2>2 DEF MapBegin, Begin, SerialInv, SetPcs, Idle
    <3> QED
      BY <3>1, <3>2 DEF SerialOf, SetPcs, Hw
  <2> QED
    BY <2>1, <2>2
<1>15. ASSUME NEW t \in Thread, GlobalCapture(t)
      PROVE  care' > 0 => \A u \in Thread : SerialOf(u)'
  <2> SUFFICES ASSUME care > 0, NEW u \in Thread PROVE SerialOf(u)'
    BY <1>15 DEF GlobalCapture
  <2>1. CASE u = t
    BY <1>15, <1>a, <1>b, <1>e, <2>1 DEF GlobalCapture, At, Goto, Return, Idle, TypeOK, SerialInv, SerialOf, Hw, ThreadOf
  <2>2. CASE u # t
    <3>1. th'[u] = th[u] /\ SerialOf(u)
      BY <1>15, <1>a, <1>e, <2>2 DEF GlobalCapture, At, Goto, Return, TypeOK, SerialInv
    <3>2. th[u].pc \notin SetPcs
      BY <1>15, <1>e, <2>2 DEF GlobalCapture, Begin, SerialInv, SetPcs, Idle
    <3> QED
      BY <3>1, <3>2 DEF SerialOf, SetPcs
  <2> QED
    BY <2>1, <2>2
<1>16. ASSUME NEW t \in Thread, GlobalInstall(t)
      PROVE  care' > 0 => \A u \in Thread : SerialOf(u)'
  <2> SUFFICES ASSUME care > 0, NEW u \in Thread PROVE SerialOf(u)'
    BY <1>16 DEF GlobalInstall
  <2>1. CASE u = t
    BY <1>16, <1>a, <1>b, <1>e, <2>1 DEF GlobalInstall, At, Goto, Return, Idle, TypeOK, SerialInv, SerialOf, Hw, ThreadOf
  <2>2. CASE u # t
    <3>1. th'[u] = th[u] /\ SerialOf(u)
      BY <1>16, <1>a, <1>e, <2>2 DEF GlobalInstall, At, Goto, Return, TypeOK, SerialInv
    <3>2. th[u].pc \notin SetPcs
      BY <1>16, <1>e, <2>2 DEF GlobalInstall, Begin, SerialInv, SetPcs, Idle
    <3> QED
      BY <3>1, <3>2 DEF SerialOf, SetPcs
  <2> QED
    BY <2>1, <2>2
<1>17. ASSUME NEW t \in Thread, MapEnd(t)
      PROVE  care' > 0 => \A u \in Thread : SerialOf(u)'
  <2> SUFFICES ASSUME care > 0, NEW u \in Thread PROVE SerialOf(u)'
    BY <1>17 DEF MapEnd
  <2>1. CASE u = t
    BY <1>17, <1>a, <1>b, <1>e, <2>1 DEF MapEnd, At, Goto, Return, Idle, TypeOK, SerialInv, SerialOf, Hw, ThreadOf
  <2>2. CASE u # t
    <3>1. th'[u] = th[u] /\ SerialOf(u)
      BY <1>17, <1>a, <1>e, <2>2 DEF MapEnd, At, Goto, Return, TypeOK, SerialInv
    <3>2. th[u].pc \notin SetPcs \/ UNCHANGED <<cb, pgtable, lost>>
      BY <1>17, <1>e, <2>2 DEF MapEnd, Begin, SerialInv, SetPcs, Idle
    <3> QED
      BY <3>1, <3>2 DEF SerialOf, SetPcs, Hw
  <2> QED
    BY <2>1, <2>2
<1>18. ASSUME NEW t \in Thread, NEW d \in Dev, NEW n \in given, PerprocSet(t, d, n)
      PROVE  care' > 0 => \A u \in Thread : SerialOf(u)'
  <2> SUFFICES ASSUME care > 0, NEW u \in Thread PROVE SerialOf(u)'
    BY <1>18 DEF PerprocSet
  <2>1. th'[u] = th[u] /\ SerialOf(u) /\ th[u].pc \notin SetPcs
    BY <1>18, <1>e DEF PerprocSet, Begin, SerialInv, SetPcs, Idle
  <2> QED
    BY <2>1 DEF SerialOf, SetPcs
<1>19. ASSUME NEW t \in Thread, NEW n \in given, PerprocFree(t, n)
      PROVE  care' > 0 => \A u \in Thread : SerialOf(u)'
  <2> SUFFICES ASSUME care > 0, NEW u \in Thread PROVE SerialOf(u)'
    BY <1>19 DEF PerprocFree
  <2>1. th'[u] = th[u] /\ SerialOf(u) /\ th[u].pc \notin SetPcs
    BY <1>19, <1>e DEF PerprocFree, Begin, SerialInv, SetPcs, Idle
  <2> QED
    BY <2>1 DEF SerialOf, SetPcs
<1>20. ASSUME NEW t \in Thread, Misuse(t)
      PROVE  care' > 0 => \A u \in Thread : SerialOf(u)'
  <2> SUFFICES ASSUME care > 0, NEW u \in Thread PROVE SerialOf(u)'
    BY <1>20 DEF Misuse
  <2>1. CASE u = t
    BY <1>20, <1>a, <1>b, <1>e, <2>1 DEF Misuse, At, Goto, Return, Idle, TypeOK, SerialInv, SerialOf, Hw, ThreadOf
  <2>2. CASE u # t
    <3>1. th'[u] = th[u] /\ SerialOf(u)
      BY <1>20, <1>a, <1>e, <2>2 DEF Misuse, At, Goto, Return, TypeOK, SerialInv
    <3>2. th[u].pc \notin SetPcs \/ UNCHANGED <<cb, pgtable, lost>>
      BY <1>20, <1>e, <2>2 DEF Misuse, Begin, SerialInv, SetPcs, Idle
    <3> QED
      BY <3>1, <3>2 DEF SerialOf, SetPcs, Hw
  <2> QED
    BY <2>1, <2>2
<1> QED
  BY <1>1, <1>2, <1>3, <1>4, <1>5, <1>6, <1>7, <1>8, <1>9, <1>10,
     <1>11, <1>12, <1>13, <1>14, <1>15, <1>16, <1>17, <1>18, <1>19, <1>20 DEF Next, Context, Process

\* A table that is known, spelled out.
KnownTable(n) ==
    \/ n \in freed \cup given \cup lost \cup Dev \/ n = pgtable
    \/ \E d \in Dev : cb[d].ttbr0 = n \/ cb[d].ttbr1 = n
    \/ \E t \in Thread : th[t].pc \in OwnPcs /\ th[t].table = n

\* Known is the set of these.
LEMMA KnownForm ==
    /\ \A n : n \in Known <=> KnownTable(n)
    /\ \A n : n \in Known' <=> KnownTable(n)'
  BY DEF Known, KnownTable, Hw

\* No table is lost by calls that come one after the other.
LEMMA KnownKept ==
    ASSUME IInv, Next
    PROVE  care' > 0 => 1 .. tables' \subseteq Known'
<1>a. TypeOK
  BY DEF IInv
<1>b. \A t \in Thread : ThreadOf(t) /\ OwnTable(t)
  BY DEF IInv
<1>c. Devs \in Nat /\ MaxTable \in Nat /\ tables \in Nat /\ Devs <= tables
  BY <1>a, TableAssumption DEF TypeOK
<1>d. TablesOf /\ OwnApart
  BY DEF IInv
<1>e. BanksOf /\ SerialInv
  BY DEF IInv
<1>1. ASSUME NEW t \in Thread, NEW d \in Dev, Ttbr1Alloc(t, d)
      PROVE  care' > 0 => 1 .. tables' \subseteq Known'
  <2> SUFFICES ASSUME care > 0, NEW n \in 1 .. tables' PROVE KnownTable(n)'
    BY <1>1, KnownForm DEF Ttbr1Alloc
  <2>1. KnownTable(n) \/ n = tables + 1
    BY <1>1, <1>c, <1>e, KnownForm DEF Ttbr1Alloc, SerialInv, New
  <2>2. n \in freed \cup given \cup lost \cup Dev \/ n = pgtable => KnownTable(n)'
    BY <1>1, <1>a, <1>b, <1>c, <1>e DEF Ttbr1Alloc, KnownTable, New, SerialInv, SerialOf
  <2>3. ASSUME NEW d0 \in Dev, cb[d0].ttbr0 = n \/ cb[d0].ttbr1 = n PROVE KnownTable(n)'
    BY <1>1, <2>3 DEF Ttbr1Alloc, KnownTable
  <2>4. ASSUME NEW u \in Thread, th[u].pc \in OwnPcs, th[u].table = n PROVE KnownTable(n)'
    <3>1. u # t
      BY <1>1, <2>4 DEF Ttbr1Alloc, Begin, Idle, OwnPcs, Set0Pcs
    <3>2. th'[u] = th[u]
      BY <1>1, <1>a, <3>1 DEF Ttbr1Alloc, At, Return, TypeOK
    <3> QED
      BY <2>4, <3>2 DEF KnownTable
  <2>5. n = tables + 1 => KnownTable(n)'
    BY <1>1, <1>a DEF Ttbr1Alloc, At, TypeOK, New, KnownTable, OwnPcs, Set0Pcs
  <2> QED
    BY <2>1, <2>2, <2>3, <2>4, <2>5 DEF KnownTable
<1>2. ASSUME NEW t \in Thread, NEW d \in Dev, Ttbr0Alloc(t, d)
      PROVE  care' > 0 => 1 .. tables' \subseteq Known'
  <2> SUFFICES ASSUME care > 0, NEW n \in 1 .. tables' PROVE KnownTable(n)'
    BY <1>2, KnownForm DEF Ttbr0Alloc
  <2>1. KnownTable(n) \/ n = tables + 1
    BY <1>2, <1>c, <1>e, KnownForm DEF Ttbr0Alloc, SerialInv, New
  <2>2. n \in freed \cup given \cup lost \cup Dev \/ n = pgtable => KnownTable(n)'
    BY <1>2, <1>a, <1>b, <1>c, <1>e DEF Ttbr0Alloc, KnownTable, New, SerialInv, SerialOf
  <2>3. ASSUME NEW d0 \in Dev, cb[d0].ttbr0 = n \/ cb[d0].ttbr1 = n PROVE KnownTable(n)'
    BY <1>2, <2>3 DEF Ttbr0Alloc, KnownTable
  <2>4. ASSUME NEW u \in Thread, th[u].pc \in OwnPcs, th[u].table = n PROVE KnownTable(n)'
    <3>1. u # t
      BY <1>2, <2>4 DEF Ttbr0Alloc, Begin, Idle, OwnPcs, Set0Pcs
    <3>2. th'[u] = th[u]
      BY <1>2, <1>a, <3>1 DEF Ttbr0Alloc, At, Return, TypeOK
    <3> QED
      BY <2>4, <3>2 DEF KnownTable
  <2>5. n = tables + 1 => KnownTable(n)'
    BY <1>2, <1>a DEF Ttbr0Alloc, At, TypeOK, New, KnownTable, OwnPcs, Set0Pcs
  <2> QED
    BY <2>1, <2>2, <2>3, <2>4, <2>5 DEF KnownTable
<1>3. ASSUME NEW t \in Thread, NEW d \in Dev, Ttbr0AllocFail(t, d)
      PROVE  care' > 0 => 1 .. tables' \subseteq Known'
  <2> SUFFICES ASSUME care > 0, NEW n \in 1 .. tables' PROVE KnownTable(n)'
    BY <1>3, KnownForm DEF Ttbr0AllocFail
  <2>1. KnownTable(n)
    BY <1>3, <1>c, <1>e, KnownForm DEF Ttbr0AllocFail, SerialInv, New
  <2>2. n \in freed \cup given \cup lost \cup Dev \/ n = pgtable => KnownTable(n)'
    BY <1>3, <1>a, <1>b, <1>c, <1>e DEF Ttbr0AllocFail, KnownTable, New, SerialInv, SerialOf
  <2>3. ASSUME NEW d0 \in Dev, cb[d0].ttbr0 = n \/ cb[d0].ttbr1 = n PROVE KnownTable(n)'
    BY <1>3, <2>3 DEF Ttbr0AllocFail, KnownTable
  <2>4. ASSUME NEW u \in Thread, th[u].pc \in OwnPcs, th[u].table = n PROVE KnownTable(n)'
    BY <1>3, <1>a, <2>4 DEF Ttbr0AllocFail, KnownTable, OwnPcs, Set0Pcs
  <2> QED
    BY <2>1, <2>2, <2>3, <2>4 DEF KnownTable
<1>4. ASSUME NEW t \in Thread, Ttbr1Check(t)
      PROVE  care' > 0 => 1 .. tables' \subseteq Known'
  <2> SUFFICES ASSUME care > 0, NEW n \in 1 .. tables' PROVE KnownTable(n)'
    BY <1>4, KnownForm DEF Ttbr1Check
  <2>1. KnownTable(n)
    BY <1>4, <1>c, <1>e, KnownForm DEF Ttbr1Check, SerialInv, New
  <2>2. n \in freed \cup given \cup lost \cup Dev \/ n = pgtable => KnownTable(n)'
    BY <1>4, <1>a, <1>b, <1>c, <1>e DEF Ttbr1Check, KnownTable, New, SerialInv, SerialOf
  <2>3. ASSUME NEW d0 \in Dev, cb[d0].ttbr0 = n \/ cb[d0].ttbr1 = n PROVE KnownTable(n)'
    BY <1>4, <2>3 DEF Ttbr1Check, KnownTable
  <2>4. ASSUME NEW u \in Thread, th[u].pc \in OwnPcs, th[u].table = n PROVE KnownTable(n)'
    BY <1>4, <1>a, <2>4 DEF Ttbr1Check, At, Goto, Return, Idle, TypeOK, KnownTable, OwnPcs, Set0Pcs
  <2> QED
    BY <2>1, <2>2, <2>3, <2>4 DEF KnownTable
<1>5. ASSUME NEW t \in Thread, Ttbr1Refuse(t)
      PROVE  care' > 0 => 1 .. tables' \subseteq Known'
  <2> SUFFICES ASSUME care > 0, NEW n \in 1 .. tables' PROVE KnownTable(n)'
    BY <1>5, KnownForm DEF Ttbr1Refuse
  <2>1. KnownTable(n)
    BY <1>5, <1>c, <1>e, KnownForm DEF Ttbr1Refuse, SerialInv, New
  <2>2. n \in freed \cup given \cup lost \cup Dev \/ n = pgtable => KnownTable(n)'
    BY <1>5, <1>a, <1>b, <1>c, <1>e DEF Ttbr1Refuse, KnownTable, New, SerialInv, SerialOf
  <2>3. ASSUME NEW d0 \in Dev, cb[d0].ttbr0 = n \/ cb[d0].ttbr1 = n PROVE KnownTable(n)'
    BY <1>5, <2>3 DEF Ttbr1Refuse, KnownTable
  <2>4. ASSUME NEW u \in Thread, th[u].pc \in OwnPcs, th[u].table = n PROVE KnownTable(n)'
    <3>1. CASE u = t
      BY <1>5, <1>a, <1>b, <1>c, <1>e, <2>4, <3>1 DEF Ttbr1Refuse, KnownTable, SerialInv, SerialOf, Hw, TypeOK, ThreadOf
    <3>2. CASE u # t
      <4>1. th'[u] = th[u]
        BY <1>5, <1>a, <3>2 DEF Ttbr1Refuse, Goto, Return, TypeOK
      <4> QED
        BY <2>4, <4>1 DEF KnownTable
    <3> QED
      BY <3>1, <3>2
  <2> QED
    BY <2>1, <2>2, <2>3, <2>4 DEF KnownTable
<1>6. ASSUME NEW t \in Thread, Ttbr1Enable(t)
      PROVE  care' > 0 => 1 .. tables' \subseteq Known'
  <2> SUFFICES ASSUME care > 0, NEW n \in 1 .. tables' PROVE KnownTable(n)'
    BY <1>6, KnownForm DEF Ttbr1Enable
  <2>1. KnownTable(n)
    BY <1>6, <1>c, <1>e, KnownForm DEF Ttbr1Enable, SerialInv, New
  <2>2. n \in freed \cup given \cup lost \cup Dev \/ n = pgtable => KnownTable(n)'
    BY <1>6, <1>a, <1>b, <1>c, <1>e DEF Ttbr1Enable, KnownTable, New, SerialInv, SerialOf
  <2>3. ASSUME NEW d0 \in Dev, cb[d0].ttbr0 = n \/ cb[d0].ttbr1 = n PROVE KnownTable(n)'
    <3>1. cb[th[t].dev].ttbr1 = 0 /\ th[t].dev \in Dev
      BY <1>6, <1>b, <1>e DEF Ttbr1Enable, BanksOf, SerialInv, SerialOf, ThreadOf
    <3>2. cb'[d0].ttbr0 = n \/ cb'[d0].ttbr1 = n
      BY <1>6, <1>a, <1>c, <2>3, <3>1 DEF Ttbr1Enable, TypeOK
    <3> QED
      BY <3>2 DEF KnownTable
  <2>4. ASSUME NEW u \in Thread, th[u].pc \in OwnPcs, th[u].table = n PROVE KnownTable(n)'
    <3>1. CASE u = t
      BY <1>6, <1>a, <1>b, <1>c, <1>e, <2>4, <3>1 DEF Ttbr1Enable, KnownTable, SerialInv, SerialOf, Hw, TypeOK, ThreadOf
    <3>2. CASE u # t
      <4>1. th'[u] = th[u]
        BY <1>6, <1>a, <3>2 DEF Ttbr1Enable, Goto, Return, TypeOK
      <4> QED
        BY <2>4, <4>1 DEF KnownTable
    <3> QED
      BY <3>1, <3>2
  <2> QED
    BY <2>1, <2>2, <2>3, <2>4 DEF KnownTable
<1>7. ASSUME NEW t \in Thread, Ttbr0Check(t)
      PROVE  care' > 0 => 1 .. tables' \subseteq Known'
  <2> SUFFICES ASSUME care > 0, NEW n \in 1 .. tables' PROVE KnownTable(n)'
    BY <1>7, KnownForm DEF Ttbr0Check
  <2>1. KnownTable(n)
    BY <1>7, <1>c, <1>e, KnownForm DEF Ttbr0Check, SerialInv, New
  <2>2. n \in freed \cup given \cup lost \cup Dev \/ n = pgtable => KnownTable(n)'
    BY <1>7, <1>a, <1>b, <1>c, <1>e DEF Ttbr0Check, KnownTable, New, SerialInv, SerialOf
  <2>3. ASSUME NEW d0 \in Dev, cb[d0].ttbr0 = n \/ cb[d0].ttbr1 = n PROVE KnownTable(n)'
    BY <1>7, <2>3 DEF Ttbr0Check, KnownTable
  <2>4. ASSUME NEW u \in Thread, th[u].pc \in OwnPcs, th[u].table = n PROVE KnownTable(n)'
    BY <1>7, <1>a, <2>4 DEF Ttbr0Check, At, Goto, Return, Idle, TypeOK, KnownTable, OwnPcs, Set0Pcs
  <2> QED
    BY <2>1, <2>2, <2>3, <2>4 DEF KnownTable
<1>8. ASSUME NEW t \in Thread, Ttbr0Refuse(t)
      PROVE  care' > 0 => 1 .. tables' \subseteq Known'
  <2> SUFFICES ASSUME care > 0, NEW n \in 1 .. tables' PROVE KnownTable(n)'
    BY <1>8, KnownForm DEF Ttbr0Refuse
  <2>1. KnownTable(n)
    BY <1>8, <1>c, <1>e, KnownForm DEF Ttbr0Refuse, SerialInv, New
  <2>2. n \in freed \cup given \cup lost \cup Dev \/ n = pgtable => KnownTable(n)'
    BY <1>8, <1>a, <1>b, <1>c, <1>e DEF Ttbr0Refuse, KnownTable, New, SerialInv, SerialOf
  <2>3. ASSUME NEW d0 \in Dev, cb[d0].ttbr0 = n \/ cb[d0].ttbr1 = n PROVE KnownTable(n)'
    BY <1>8, <2>3 DEF Ttbr0Refuse, KnownTable
  <2>4. ASSUME NEW u \in Thread, th[u].pc \in OwnPcs, th[u].table = n PROVE KnownTable(n)'
    BY <1>8, <1>a, <2>4 DEF Ttbr0Refuse, At, Goto, Return, Idle, TypeOK, KnownTable, OwnPcs, Set0Pcs
  <2> QED
    BY <2>1, <2>2, <2>3, <2>4 DEF KnownTable
<1>9. ASSUME NEW t \in Thread, Ttbr0Enable(t)
      PROVE  care' > 0 => 1 .. tables' \subseteq Known'
  <2> SUFFICES ASSUME care > 0, NEW n \in 1 .. tables' PROVE KnownTable(n)'
    BY <1>9, KnownForm DEF Ttbr0Enable
  <2>1. KnownTable(n)
    BY <1>9, <1>c, <1>e, KnownForm DEF Ttbr0Enable, SerialInv, New
  <2>2. n \in freed \cup given \cup lost \cup Dev \/ n = pgtable => KnownTable(n)'
    BY <1>9, <1>a, <1>b, <1>c, <1>e DEF Ttbr0Enable, KnownTable, New, SerialInv, SerialOf
  <2>3. ASSUME NEW d0 \in Dev, cb[d0].ttbr0 = n \/ cb[d0].ttbr1 = n PROVE KnownTable(n)'
    <3>1. cb[th[t].dev].ttbr0 = 0 /\ th[t].dev \in Dev
      BY <1>9, <1>b, <1>e DEF Ttbr0Enable, BanksOf, SerialInv, SerialOf, ThreadOf
    <3>2. cb'[d0].ttbr0 = n \/ cb'[d0].ttbr1 = n
      BY <1>9, <1>a, <1>c, <2>3, <3>1 DEF Ttbr0Enable, TypeOK
    <3> QED
      BY <3>2 DEF KnownTable
  <2>4. ASSUME NEW u \in Thread, th[u].pc \in OwnPcs, th[u].table = n PROVE KnownTable(n)'
    BY <1>9, <1>a, <2>4 DEF Ttbr0Enable, At, Goto, Return, Idle, TypeOK, KnownTable, OwnPcs, Set0Pcs
  <2> QED
    BY <2>1, <2>2, <2>3, <2>4 DEF KnownTable
<1>10. ASSUME NEW t \in Thread, Aperture(t)
      PROVE  care' > 0 => 1 .. tables' \subseteq Known'
  <2> SUFFICES ASSUME care > 0, NEW n \in 1 .. tables' PROVE KnownTable(n)'
    BY <1>10, KnownForm DEF Aperture
  <2>1. KnownTable(n)
    BY <1>10, <1>c, <1>e, KnownForm DEF Aperture, SerialInv, New
  <2>2. n \in freed \cup given \cup lost \cup Dev \/ n = pgtable => KnownTable(n)'
    BY <1>10, <1>a, <1>b, <1>c, <1>e DEF Aperture, KnownTable, New, SerialInv, SerialOf
  <2>3. ASSUME NEW d0 \in Dev, cb[d0].ttbr0 = n \/ cb[d0].ttbr1 = n PROVE KnownTable(n)'
    BY <1>10, <2>3 DEF Aperture, KnownTable
  <2>4. ASSUME NEW u \in Thread, th[u].pc \in OwnPcs, th[u].table = n PROVE KnownTable(n)'
    <3>1. CASE u = t
      BY <1>10, <1>a, <1>b, <1>c, <1>e, <2>4, <3>1 DEF Aperture, KnownTable, SerialInv, SerialOf, Hw, TypeOK, ThreadOf
    <3>2. CASE u # t
      <4>1. th'[u] = th[u]
        BY <1>10, <1>a, <3>2 DEF Aperture, Goto, Return, TypeOK
      <4> QED
        BY <2>4, <4>1 DEF KnownTable
    <3> QED
      BY <3>1, <3>2
  <2> QED
    BY <2>1, <2>2, <2>3, <2>4 DEF KnownTable
<1>11. ASSUME NEW t \in Thread, ApertureFail(t)
      PROVE  care' > 0 => 1 .. tables' \subseteq Known'
  <2> SUFFICES ASSUME care > 0, NEW n \in 1 .. tables' PROVE KnownTable(n)'
    BY <1>11, KnownForm DEF ApertureFail
  <2>1. KnownTable(n)
    BY <1>11, <1>c, <1>e, KnownForm DEF ApertureFail, SerialInv, New
  <2>2. n \in freed \cup given \cup lost \cup Dev \/ n = pgtable => KnownTable(n)'
    BY <1>11, <1>a, <1>b, <1>c, <1>e DEF ApertureFail, KnownTable, New, SerialInv, SerialOf
  <2>3. ASSUME NEW d0 \in Dev, cb[d0].ttbr0 = n \/ cb[d0].ttbr1 = n PROVE KnownTable(n)'
    BY <1>11, <2>3 DEF ApertureFail, KnownTable
  <2>4. ASSUME NEW u \in Thread, th[u].pc \in OwnPcs, th[u].table = n PROVE KnownTable(n)'
    <3>1. CASE u = t
      BY <1>11, <1>a, <1>b, <1>c, <1>e, <2>4, <3>1 DEF ApertureFail, KnownTable, SerialInv, SerialOf, Hw, TypeOK, ThreadOf
    <3>2. CASE u # t
      <4>1. th'[u] = th[u]
        BY <1>11, <1>a, <3>2 DEF ApertureFail, Goto, Return, TypeOK
      <4> QED
        BY <2>4, <4>1 DEF KnownTable
    <3> QED
      BY <3>1, <3>2
  <2> QED
    BY <2>1, <2>2, <2>3, <2>4 DEF KnownTable
<1>12. ASSUME NEW t \in Thread, NEW d \in Dev, GlobalSet(t, d)
      PROVE  care' > 0 => 1 .. tables' \subseteq Known'
  <2> SUFFICES ASSUME care > 0, NEW n \in 1 .. tables' PROVE KnownTable(n)'
    BY <1>12, KnownForm DEF GlobalSet
  <2>1. KnownTable(n)
    BY <1>12, <1>c, <1>e, KnownForm DEF GlobalSet, SerialInv, New
  <2>2. n \in freed \cup given \cup lost \cup Dev \/ n = pgtable => KnownTable(n)'
    BY <1>12, <1>a, <1>b, <1>c, <1>e DEF GlobalSet, KnownTable, New, SerialInv, SerialOf
  <2>3. ASSUME NEW d0 \in Dev, cb[d0].ttbr0 = n \/ cb[d0].ttbr1 = n PROVE KnownTable(n)'
    BY <1>12, <2>3 DEF GlobalSet, KnownTable
  <2>4. ASSUME NEW u \in Thread, th[u].pc \in OwnPcs, th[u].table = n PROVE KnownTable(n)'
    <3>1. u # t
      BY <1>12, <2>4 DEF GlobalSet, Begin, Idle, OwnPcs, Set0Pcs
    <3>2. th'[u] = th[u]
      BY <1>12, <1>a, <3>1 DEF GlobalSet, At, Return, TypeOK
    <3> QED
      BY <2>4, <3>2 DEF KnownTable
  <2> QED
    BY <2>1, <2>2, <2>3, <2>4 DEF KnownTable
<1>13. ASSUME NEW t \in Thread, NEW d \in Dev, PerprocAlloc(t, d)
      PROVE  care' > 0 => 1 .. tables' \subseteq Known'
  <2> SUFFICES ASSUME care > 0, NEW n \in 1 .. tables' PROVE KnownTable(n)'
    BY <1>13, KnownForm DEF PerprocAlloc
  <2>1. KnownTable(n) \/ n = tables + 1
    BY <1>13, <1>c, <1>e, KnownForm DEF PerprocAlloc, SerialInv, New
  <2>2. n \in freed \cup given \cup lost \cup Dev \/ n = pgtable => KnownTable(n)'
    BY <1>13, <1>a, <1>b, <1>c, <1>e DEF PerprocAlloc, KnownTable, New, SerialInv, SerialOf
  <2>3. ASSUME NEW d0 \in Dev, cb[d0].ttbr0 = n \/ cb[d0].ttbr1 = n PROVE KnownTable(n)'
    BY <1>13, <2>3 DEF PerprocAlloc, KnownTable
  <2>4. ASSUME NEW u \in Thread, th[u].pc \in OwnPcs, th[u].table = n PROVE KnownTable(n)'
    BY <1>13, <1>a, <2>4 DEF PerprocAlloc, KnownTable, OwnPcs, Set0Pcs
  <2>5. n = tables + 1 => KnownTable(n)'
    BY <1>13 DEF PerprocAlloc, New, KnownTable
  <2> QED
    BY <2>1, <2>2, <2>3, <2>4, <2>5 DEF KnownTable
<1>14. ASSUME NEW t \in Thread, NEW d \in Dev, MapBegin(t, d)
      PROVE  care' > 0 => 1 .. tables' \subseteq Known'
  <2> SUFFICES ASSUME care > 0, NEW n \in 1 .. tables' PROVE KnownTable(n)'
    BY <1>14, KnownForm DEF MapBegin
  <2>1. KnownTable(n)
    BY <1>14, <1>c, <1>e, KnownForm DEF MapBegin, SerialInv, New
  <2>2. n \in freed \cup given \cup lost \cup Dev \/ n = pgtable => KnownTable(n)'
    BY <1>14, <1>a, <1>b, <1>c, <1>e DEF MapBegin, KnownTable, New, SerialInv, SerialOf
  <2>3. ASSUME NEW d0 \in Dev, cb[d0].ttbr0 = n \/ cb[d0].ttbr1 = n PROVE KnownTable(n)'
    BY <1>14, <2>3 DEF MapBegin, KnownTable
  <2>4. ASSUME NEW u \in Thread, th[u].pc \in OwnPcs, th[u].table = n PROVE KnownTable(n)'
    BY <1>14, <1>a, <2>4 DEF MapBegin, At, Goto, Return, Idle, TypeOK, KnownTable, OwnPcs, Set0Pcs
  <2> QED
    BY <2>1, <2>2, <2>3, <2>4 DEF KnownTable
<1>15. ASSUME NEW t \in Thread, GlobalCapture(t)
      PROVE  care' > 0 => 1 .. tables' \subseteq Known'
  <2> SUFFICES ASSUME care > 0, NEW n \in 1 .. tables' PROVE KnownTable(n)'
    BY <1>15, KnownForm DEF GlobalCapture
  <2>1. KnownTable(n)
    BY <1>15, <1>c, <1>e, KnownForm DEF GlobalCapture, SerialInv, New
  <2>2. n \in freed \cup given \cup lost \cup Dev \/ n = pgtable => KnownTable(n)'
    BY <1>15, <1>a, <1>b, <1>c, <1>e DEF GlobalCapture, KnownTable, New, SerialInv, SerialOf
  <2>3. ASSUME NEW d0 \in Dev, cb[d0].ttbr0 = n \/ cb[d0].ttbr1 = n PROVE KnownTable(n)'
    BY <1>15, <2>3 DEF GlobalCapture, KnownTable
  <2>4. ASSUME NEW u \in Thread, th[u].pc \in OwnPcs, th[u].table = n PROVE KnownTable(n)'
    BY <1>15, <1>a, <2>4 DEF GlobalCapture, At, Goto, Return, Idle, TypeOK, KnownTable, OwnPcs, Set0Pcs
  <2> QED
    BY <2>1, <2>2, <2>3, <2>4 DEF KnownTable
<1>16. ASSUME NEW t \in Thread, GlobalInstall(t)
      PROVE  care' > 0 => 1 .. tables' \subseteq Known'
  <2> SUFFICES ASSUME care > 0, NEW n \in 1 .. tables' PROVE KnownTable(n)'
    BY <1>16, KnownForm DEF GlobalInstall
  <2>1. KnownTable(n)
    BY <1>16, <1>c, <1>e, KnownForm DEF GlobalInstall, SerialInv, New
  <2>2. n \in freed \cup given \cup lost \cup Dev \/ n = pgtable => KnownTable(n)'
    BY <1>16, <1>a, <1>b, <1>c, <1>e DEF GlobalInstall, KnownTable, New, SerialInv, SerialOf
  <2>3. ASSUME NEW d0 \in Dev, cb[d0].ttbr0 = n \/ cb[d0].ttbr1 = n PROVE KnownTable(n)'
    BY <1>16, <2>3 DEF GlobalInstall, KnownTable
  <2>4. ASSUME NEW u \in Thread, th[u].pc \in OwnPcs, th[u].table = n PROVE KnownTable(n)'
    BY <1>16, <1>a, <2>4 DEF GlobalInstall, At, Goto, Return, Idle, TypeOK, KnownTable, OwnPcs, Set0Pcs
  <2> QED
    BY <2>1, <2>2, <2>3, <2>4 DEF KnownTable
<1>17. ASSUME NEW t \in Thread, MapEnd(t)
      PROVE  care' > 0 => 1 .. tables' \subseteq Known'
  <2> SUFFICES ASSUME care > 0, NEW n \in 1 .. tables' PROVE KnownTable(n)'
    BY <1>17, KnownForm DEF MapEnd
  <2>1. KnownTable(n)
    BY <1>17, <1>c, <1>e, KnownForm DEF MapEnd, SerialInv, New
  <2>2. n \in freed \cup given \cup lost \cup Dev \/ n = pgtable => KnownTable(n)'
    BY <1>17, <1>a, <1>b, <1>c, <1>e DEF MapEnd, KnownTable, New, SerialInv, SerialOf
  <2>3. ASSUME NEW d0 \in Dev, cb[d0].ttbr0 = n \/ cb[d0].ttbr1 = n PROVE KnownTable(n)'
    BY <1>17, <2>3 DEF MapEnd, KnownTable
  <2>4. ASSUME NEW u \in Thread, th[u].pc \in OwnPcs, th[u].table = n PROVE KnownTable(n)'
    BY <1>17, <1>a, <2>4 DEF MapEnd, At, Goto, Return, Idle, TypeOK, KnownTable, OwnPcs, Set0Pcs
  <2> QED
    BY <2>1, <2>2, <2>3, <2>4 DEF KnownTable
<1>18. ASSUME NEW t \in Thread, NEW d \in Dev, NEW n \in given, PerprocSet(t, d, n)
      PROVE  care' > 0 => 1 .. tables' \subseteq Known'
  <2> SUFFICES ASSUME care > 0, NEW m \in 1 .. tables' PROVE KnownTable(m)'
    BY <1>18, KnownForm DEF PerprocSet
  <2>1. KnownTable(m)
    BY <1>18, <1>c, <1>e, KnownForm DEF PerprocSet, SerialInv, New
  <2>2. m \in freed \cup given \cup lost \cup Dev \/ m = pgtable => KnownTable(m)'
    BY <1>18, <1>a, <1>b, <1>c, <1>e DEF PerprocSet, KnownTable, New, SerialInv, SerialOf
  <2>3. ASSUME NEW d0 \in Dev, cb[d0].ttbr0 = m \/ cb[d0].ttbr1 = m PROVE KnownTable(m)'
    BY <1>18, <2>3 DEF PerprocSet, KnownTable
  <2>4. ASSUME NEW u \in Thread, th[u].pc \in OwnPcs, th[u].table = m PROVE KnownTable(m)'
    BY <1>18, <1>a, <2>4 DEF PerprocSet, KnownTable, OwnPcs, Set0Pcs
  <2> QED
    BY <2>1, <2>2, <2>3, <2>4 DEF KnownTable
<1>19. ASSUME NEW t \in Thread, NEW n \in given, PerprocFree(t, n)
      PROVE  care' > 0 => 1 .. tables' \subseteq Known'
  <2> SUFFICES ASSUME care > 0, NEW m \in 1 .. tables' PROVE KnownTable(m)'
    BY <1>19, KnownForm DEF PerprocFree
  <2>1. KnownTable(m)
    BY <1>19, <1>c, <1>e, KnownForm DEF PerprocFree, SerialInv, New
  <2>2. m \in freed \cup given \cup lost \cup Dev \/ m = pgtable => KnownTable(m)'
    BY <1>19, <1>a, <1>b, <1>c, <1>e DEF PerprocFree, KnownTable, New, SerialInv, SerialOf
  <2>3. ASSUME NEW d0 \in Dev, cb[d0].ttbr0 = m \/ cb[d0].ttbr1 = m PROVE KnownTable(m)'
    BY <1>19, <2>3 DEF PerprocFree, KnownTable
  <2>4. ASSUME NEW u \in Thread, th[u].pc \in OwnPcs, th[u].table = m PROVE KnownTable(m)'
    BY <1>19, <1>a, <2>4 DEF PerprocFree, KnownTable, OwnPcs, Set0Pcs
  <2> QED
    BY <2>1, <2>2, <2>3, <2>4 DEF KnownTable
<1>20. ASSUME NEW t \in Thread, Misuse(t)
      PROVE  care' > 0 => 1 .. tables' \subseteq Known'
  <2> SUFFICES ASSUME care > 0, NEW n \in 1 .. tables' PROVE KnownTable(n)'
    BY <1>20, KnownForm DEF Misuse
  <2>1. KnownTable(n)
    BY <1>20, <1>c, <1>e, KnownForm DEF Misuse, SerialInv, New
  <2>2. n \in freed \cup given \cup lost \cup Dev \/ n = pgtable => KnownTable(n)'
    BY <1>20, <1>a, <1>b, <1>c, <1>e DEF Misuse, KnownTable, New, SerialInv, SerialOf
  <2>3. ASSUME NEW d0 \in Dev, cb[d0].ttbr0 = n \/ cb[d0].ttbr1 = n PROVE KnownTable(n)'
    BY <1>20, <2>3 DEF Misuse, KnownTable
  <2>4. ASSUME NEW u \in Thread, th[u].pc \in OwnPcs, th[u].table = n PROVE KnownTable(n)'
    <3>1. u # t
      BY <1>20, <2>4 DEF Misuse, Begin, Idle, OwnPcs, Set0Pcs
    <3>2. th'[u] = th[u]
      BY <1>20, <1>a, <3>1 DEF Misuse, At, Return, TypeOK
    <3> QED
      BY <2>4, <3>2 DEF KnownTable
  <2> QED
    BY <2>1, <2>2, <2>3, <2>4 DEF KnownTable
<1> QED
  BY <1>1, <1>2, <1>3, <1>4, <1>5, <1>6, <1>7, <1>8, <1>9, <1>10,
     <1>11, <1>12, <1>13, <1>14, <1>15, <1>16, <1>17, <1>18, <1>19, <1>20 DEF Next, Context, Process

\* In the order the functions expect, TTBR1 is off until it is set and maps keep their tables.
LEMMA OrderKept ==
    ASSUME IInv, Next
    PROVE  OrderInv'
<1>a. TypeOK
  BY DEF IInv
<1>b. \A t \in Thread : ThreadOf(t) /\ OwnTable(t)
  BY DEF IInv
<1>c. Devs \in Nat /\ MaxTable \in Nat /\ tables \in Nat /\ Devs <= tables
  BY <1>a, TableAssumption DEF TypeOK
<1>d. TablesOf /\ OwnApart
  BY DEF IInv
<1>e. BanksOf /\ SerialInv /\ OrderInv /\ OpsLive
  BY DEF IInv
<1>1. ASSUME NEW t \in Thread, NEW d \in Dev, Ttbr1Alloc(t, d)
      PROVE  OrderInv'
  <2> SUFFICES ASSUME care = 2, NEW u \in Thread
               PROVE  /\ th'[u].pc = "ttbr1" => cb'[th'[u].dev].epd1
                      /\ th'[u].pc = "map" => th'[u].table \notin freed'
    BY <1>1 DEF Ttbr1Alloc, OrderInv
  <2>1. CASE u = t
    BY <1>1, <1>a, <1>b, <1>c, <1>e, <2>1 DEF Ttbr1Alloc, At, Goto, Return, Idle, TypeOK, OrderInv, OpsLive, ThreadOf
  <2>2. CASE u # t
    <3>1. th'[u] = th[u]
      BY <1>1, <1>a, <2>2 DEF Ttbr1Alloc, At, Goto, Return, TypeOK
    <3> QED
      BY <1>1, <1>e, <3>1 DEF Ttbr1Alloc, OrderInv
  <2> QED
    BY <2>1, <2>2
<1>2. ASSUME NEW t \in Thread, NEW d \in Dev, Ttbr0Alloc(t, d)
      PROVE  OrderInv'
  <2> SUFFICES ASSUME care = 2, NEW u \in Thread
               PROVE  /\ th'[u].pc = "ttbr1" => cb'[th'[u].dev].epd1
                      /\ th'[u].pc = "map" => th'[u].table \notin freed'
    BY <1>2 DEF Ttbr0Alloc, OrderInv
  <2>1. CASE u = t
    BY <1>2, <1>a, <1>b, <1>c, <1>e, <2>1 DEF Ttbr0Alloc, At, Goto, Return, Idle, TypeOK, OrderInv, OpsLive, ThreadOf
  <2>2. CASE u # t
    <3>1. th'[u] = th[u]
      BY <1>2, <1>a, <2>2 DEF Ttbr0Alloc, At, Goto, Return, TypeOK
    <3> QED
      BY <1>2, <1>e, <3>1 DEF Ttbr0Alloc, OrderInv
  <2> QED
    BY <2>1, <2>2
<1>3. ASSUME NEW t \in Thread, NEW d \in Dev, Ttbr0AllocFail(t, d)
      PROVE  OrderInv'
  BY <1>3, <1>e DEF Ttbr0AllocFail, OrderInv
<1>4. ASSUME NEW t \in Thread, Ttbr1Check(t)
      PROVE  OrderInv'
  <2> SUFFICES ASSUME care = 2, NEW u \in Thread
               PROVE  /\ th'[u].pc = "ttbr1" => cb'[th'[u].dev].epd1
                      /\ th'[u].pc = "map" => th'[u].table \notin freed'
    BY <1>4 DEF Ttbr1Check, OrderInv
  <2>1. CASE u = t
    BY <1>4, <1>a, <1>b, <1>c, <1>e, <2>1 DEF Ttbr1Check, At, Goto, Return, Idle, TypeOK, OrderInv, OpsLive, ThreadOf
  <2>2. CASE u # t
    <3>1. th'[u] = th[u]
      BY <1>4, <1>a, <2>2 DEF Ttbr1Check, At, Goto, Return, TypeOK
    <3> QED
      BY <1>4, <1>e, <3>1 DEF Ttbr1Check, OrderInv
  <2> QED
    BY <2>1, <2>2
<1>5. ASSUME NEW t \in Thread, Ttbr1Refuse(t)
      PROVE  OrderInv'
  <2>1. care # 2
    BY <1>5, <1>e DEF Ttbr1Refuse, OrderInv
  <2> QED
    BY <1>5, <2>1 DEF Ttbr1Refuse, OrderInv
<1>6. ASSUME NEW t \in Thread, Ttbr1Enable(t)
      PROVE  OrderInv'
  <2> SUFFICES ASSUME care = 2, NEW u \in Thread
               PROVE  /\ th'[u].pc = "ttbr1" => cb'[th'[u].dev].epd1
                      /\ th'[u].pc = "map" => th'[u].table \notin freed'
    BY <1>6 DEF Ttbr1Enable, OrderInv
  <2>1. CASE u = t
    BY <1>6, <1>a, <1>b, <1>c, <1>e, <2>1 DEF Ttbr1Enable, At, Goto, Return, Idle, TypeOK, OrderInv, OpsLive, ThreadOf
  <2>2. CASE u # t
    <3>1. th'[u] = th[u] /\ th[u].pc # "ttbr1"
      BY <1>6, <1>a, <1>e, <2>2 DEF Ttbr1Enable, Goto, Return, TypeOK, SerialInv, SetPcs
    <3> QED
      BY <1>6, <1>e, <3>1 DEF Ttbr1Enable, OrderInv
  <2> QED
    BY <2>1, <2>2
<1>7. ASSUME NEW t \in Thread, Ttbr0Check(t)
      PROVE  OrderInv'
  <2> SUFFICES ASSUME care = 2, NEW u \in Thread
               PROVE  /\ th'[u].pc = "ttbr1" => cb'[th'[u].dev].epd1
                      /\ th'[u].pc = "map" => th'[u].table \notin freed'
    BY <1>7 DEF Ttbr0Check, OrderInv
  <2>1. CASE u = t
    BY <1>7, <1>a, <1>b, <1>c, <1>e, <2>1 DEF Ttbr0Check, At, Goto, Return, Idle, TypeOK, OrderInv, OpsLive, ThreadOf
  <2>2. CASE u # t
    <3>1. th'[u] = th[u]
      BY <1>7, <1>a, <2>2 DEF Ttbr0Check, At, Goto, Return, TypeOK
    <3> QED
      BY <1>7, <1>e, <3>1 DEF Ttbr0Check, OrderInv
  <2> QED
    BY <2>1, <2>2
<1>8. ASSUME NEW t \in Thread, Ttbr0Refuse(t)
      PROVE  OrderInv'
  <2> SUFFICES ASSUME care = 2, NEW u \in Thread
               PROVE  /\ th'[u].pc = "ttbr1" => cb'[th'[u].dev].epd1
                      /\ th'[u].pc = "map" => th'[u].table \notin freed'
    BY <1>8 DEF Ttbr0Refuse, OrderInv
  <2>1. CASE u = t
    BY <1>8, <1>a, <1>b, <1>c, <1>e, <2>1 DEF Ttbr0Refuse, At, Goto, Return, Idle, TypeOK, OrderInv, OpsLive, ThreadOf
  <2>2. CASE u # t
    <3>1. th'[u] = th[u]
      BY <1>8, <1>a, <2>2 DEF Ttbr0Refuse, At, Goto, Return, TypeOK
    <3> QED
      BY <1>8, <1>e, <3>1 DEF Ttbr0Refuse, OrderInv
  <2> QED
    BY <2>1, <2>2
<1>9. ASSUME NEW t \in Thread, Ttbr0Enable(t)
      PROVE  OrderInv'
  <2> SUFFICES ASSUME care = 2, NEW u \in Thread
               PROVE  /\ th'[u].pc = "ttbr1" => cb'[th'[u].dev].epd1
                      /\ th'[u].pc = "map" => th'[u].table \notin freed'
    BY <1>9 DEF Ttbr0Enable, OrderInv
  <2>1. CASE u = t
    BY <1>9, <1>a, <1>b, <1>c, <1>e, <2>1 DEF Ttbr0Enable, At, Goto, Return, Idle, TypeOK, OrderInv, OpsLive, ThreadOf
  <2>2. CASE u # t
    <3>1. th'[u] = th[u] /\ th[u].pc # "ttbr1"
      BY <1>9, <1>a, <1>e, <2>2 DEF Ttbr0Enable, Goto, Return, TypeOK, SerialInv, SetPcs
    <3> QED
      BY <1>9, <1>e, <3>1 DEF Ttbr0Enable, OrderInv
  <2> QED
    BY <2>1, <2>2
<1>10. ASSUME NEW t \in Thread, Aperture(t)
      PROVE  OrderInv'
  <2> SUFFICES ASSUME care = 2, NEW u \in Thread
               PROVE  /\ th'[u].pc = "ttbr1" => cb'[th'[u].dev].epd1
                      /\ th'[u].pc = "map" => th'[u].table \notin freed'
    BY <1>10 DEF Aperture, OrderInv
  <2>1. CASE u = t
    BY <1>10, <1>a, <1>b, <1>c, <1>e, <2>1 DEF Aperture, At, Goto, Return, Idle, TypeOK, OrderInv, OpsLive, ThreadOf
  <2>2. CASE u # t
    <3>1. th'[u] = th[u]
      BY <1>10, <1>a, <2>2 DEF Aperture, At, Goto, Return, TypeOK
    <3> QED
      BY <1>10, <1>e, <3>1 DEF Aperture, OrderInv
  <2> QED
    BY <2>1, <2>2
<1>11. ASSUME NEW t \in Thread, ApertureFail(t)
      PROVE  OrderInv'
  <2> SUFFICES ASSUME care = 2, NEW u \in Thread
               PROVE  /\ th'[u].pc = "ttbr1" => cb'[th'[u].dev].epd1
                      /\ th'[u].pc = "map" => th'[u].table \notin freed'
    BY <1>11 DEF ApertureFail, OrderInv
  <2>1. CASE u = t
    BY <1>11, <1>a, <1>b, <1>c, <1>e, <2>1 DEF ApertureFail, At, Goto, Return, Idle, TypeOK, OrderInv, OpsLive, ThreadOf
  <2>2. CASE u # t
    <3>1. th'[u] = th[u] /\ th[u].table # th[t].table
      BY <1>11, <1>a, <1>b, <2>2 DEF ApertureFail, Return, TypeOK, OwnTable, Set0Pcs
    <3>2. th[u].pc # "ttbr1"
      BY <1>11, <1>e, <2>2 DEF ApertureFail, SerialInv, SetPcs
    <3> QED
      BY <1>11, <1>e, <3>1, <3>2 DEF ApertureFail, OrderInv
  <2> QED
    BY <2>1, <2>2
<1>12. ASSUME NEW t \in Thread, NEW d \in Dev, GlobalSet(t, d)
      PROVE  OrderInv'
  <2> SUFFICES ASSUME care = 2, NEW u \in Thread
               PROVE  /\ th'[u].pc = "ttbr1" => cb'[th'[u].dev].epd1
                      /\ th'[u].pc = "map" => th'[u].table \notin freed'
    BY <1>12 DEF GlobalSet, OrderInv
  <2>1. CASE u = t
    BY <1>12, <1>a, <1>b, <1>c, <1>e, <2>1 DEF GlobalSet, At, Goto, Return, Idle, TypeOK, OrderInv, OpsLive, ThreadOf
  <2>2. CASE u # t
    <3>1. th'[u] = th[u]
      BY <1>12, <1>a, <2>2 DEF GlobalSet, At, Goto, Return, TypeOK
    <3> QED
      BY <1>12, <1>e, <3>1 DEF GlobalSet, OrderInv
  <2> QED
    BY <2>1, <2>2
<1>13. ASSUME NEW t \in Thread, NEW d \in Dev, PerprocAlloc(t, d)
      PROVE  OrderInv'
  BY <1>13, <1>e DEF PerprocAlloc, OrderInv
<1>14. ASSUME NEW t \in Thread, NEW d \in Dev, MapBegin(t, d)
      PROVE  OrderInv'
  <2> SUFFICES ASSUME care = 2, NEW u \in Thread
               PROVE  /\ th'[u].pc = "ttbr1" => cb'[th'[u].dev].epd1
                      /\ th'[u].pc = "map" => th'[u].table \notin freed'
    BY <1>14 DEF MapBegin, OrderInv
  <2>1. CASE u = t
    BY <1>14, <1>a, <1>b, <1>c, <1>e, <2>1 DEF MapBegin, At, Goto, Return, Idle, TypeOK, OrderInv, OpsLive, ThreadOf
  <2>2. CASE u # t
    <3>1. th'[u] = th[u]
      BY <1>14, <1>a, <2>2 DEF MapBegin, At, Goto, Return, TypeOK
    <3> QED
      BY <1>14, <1>e, <3>1 DEF MapBegin, OrderInv
  <2> QED
    BY <2>1, <2>2
<1>15. ASSUME NEW t \in Thread, GlobalCapture(t)
      PROVE  OrderInv'
  <2> SUFFICES ASSUME care = 2, NEW u \in Thread
               PROVE  /\ th'[u].pc = "ttbr1" => cb'[th'[u].dev].epd1
                      /\ th'[u].pc = "map" => th'[u].table \notin freed'
    BY <1>15 DEF GlobalCapture, OrderInv
  <2>1. CASE u = t
    BY <1>15, <1>a, <1>b, <1>c, <1>e, <2>1 DEF GlobalCapture, At, Goto, Return, Idle, TypeOK, OrderInv, OpsLive, ThreadOf
  <2>2. CASE u # t
    <3>1. th'[u] = th[u]
      BY <1>15, <1>a, <2>2 DEF GlobalCapture, At, Goto, Return, TypeOK
    <3> QED
      BY <1>15, <1>e, <3>1 DEF GlobalCapture, OrderInv
  <2> QED
    BY <2>1, <2>2
<1>16. ASSUME NEW t \in Thread, GlobalInstall(t)
      PROVE  OrderInv'
  <2> SUFFICES ASSUME care = 2, NEW u \in Thread
               PROVE  /\ th'[u].pc = "ttbr1" => cb'[th'[u].dev].epd1
                      /\ th'[u].pc = "map" => th'[u].table \notin freed'
    BY <1>16 DEF GlobalInstall, OrderInv
  <2>1. CASE u = t
    BY <1>16, <1>a, <1>b, <1>c, <1>e, <2>1 DEF GlobalInstall, At, Goto, Return, Idle, TypeOK, OrderInv, OpsLive, ThreadOf
  <2>2. CASE u # t
    <3>1. th'[u] = th[u]
      BY <1>16, <1>a, <2>2 DEF GlobalInstall, At, Goto, Return, TypeOK
    <3> QED
      BY <1>16, <1>e, <3>1 DEF GlobalInstall, OrderInv
  <2> QED
    BY <2>1, <2>2
<1>17. ASSUME NEW t \in Thread, MapEnd(t)
      PROVE  OrderInv'
  <2> SUFFICES ASSUME care = 2, NEW u \in Thread
               PROVE  /\ th'[u].pc = "ttbr1" => cb'[th'[u].dev].epd1
                      /\ th'[u].pc = "map" => th'[u].table \notin freed'
    BY <1>17 DEF MapEnd, OrderInv
  <2>1. CASE u = t
    BY <1>17, <1>a, <1>b, <1>c, <1>e, <2>1 DEF MapEnd, At, Goto, Return, Idle, TypeOK, OrderInv, OpsLive, ThreadOf
  <2>2. CASE u # t
    <3>1. th'[u] = th[u]
      BY <1>17, <1>a, <2>2 DEF MapEnd, At, Goto, Return, TypeOK
    <3> QED
      BY <1>17, <1>e, <3>1 DEF MapEnd, OrderInv
  <2> QED
    BY <2>1, <2>2
<1>18. ASSUME NEW t \in Thread, NEW d \in Dev, NEW n \in given, PerprocSet(t, d, n)
      PROVE  OrderInv'
  BY <1>18, <1>e DEF PerprocSet, OrderInv
<1>19. ASSUME NEW t \in Thread, NEW n \in given, PerprocFree(t, n)
      PROVE  OrderInv'
  BY <1>19, <1>e DEF PerprocFree, OrderInv, Working
<1>20. ASSUME NEW t \in Thread, Misuse(t)
      PROVE  OrderInv'
  <2> SUFFICES ASSUME care = 2, NEW u \in Thread
               PROVE  /\ th'[u].pc = "ttbr1" => cb'[th'[u].dev].epd1
                      /\ th'[u].pc = "map" => th'[u].table \notin freed'
    BY <1>20 DEF Misuse, OrderInv
  <2>1. CASE u = t
    BY <1>20, <1>a, <1>b, <1>c, <1>e, <2>1 DEF Misuse, At, Goto, Return, Idle, TypeOK, OrderInv, OpsLive, ThreadOf
  <2>2. CASE u # t
    <3>1. th'[u] = th[u]
      BY <1>20, <1>a, <2>2 DEF Misuse, At, Goto, Return, TypeOK
    <3> QED
      BY <1>20, <1>e, <3>1 DEF Misuse, OrderInv
  <2> QED
    BY <2>1, <2>2
<1> QED
  BY <1>1, <1>2, <1>3, <1>4, <1>5, <1>6, <1>7, <1>8, <1>9, <1>10,
     <1>11, <1>12, <1>13, <1>14, <1>15, <1>16, <1>17, <1>18, <1>19, <1>20 DEF Next, Context, Process

\* ... and the global table and the tables of the domains are live.
LEMMA LiveKept ==
    ASSUME IInv, Next
    PROVE  OpsLive'
<1>a. TypeOK
  BY DEF IInv
<1>b. \A t \in Thread : ThreadOf(t) /\ OwnTable(t)
  BY DEF IInv
<1>c. Devs \in Nat /\ MaxTable \in Nat /\ tables \in Nat /\ Devs <= tables
  BY <1>a, TableAssumption DEF TypeOK
<1>d. TablesOf /\ OwnApart
  BY DEF IInv
<1>e. BanksOf /\ SerialInv /\ OrderInv /\ OpsLive
  BY DEF IInv
<1>1. ASSUME NEW t \in Thread, NEW d \in Dev, Ttbr1Alloc(t, d)
      PROVE  OpsLive'
  BY <1>1, <1>a, <1>b, <1>c, <1>d, <1>e DEF Ttbr1Alloc, TypeOK, OpsLive, TablesOf, New, ThreadOf
<1>2. ASSUME NEW t \in Thread, NEW d \in Dev, Ttbr0Alloc(t, d)
      PROVE  OpsLive'
  BY <1>2, <1>a, <1>b, <1>c, <1>d, <1>e DEF Ttbr0Alloc, TypeOK, OpsLive, TablesOf, New, ThreadOf
<1>3. ASSUME NEW t \in Thread, NEW d \in Dev, Ttbr0AllocFail(t, d)
      PROVE  OpsLive'
  BY <1>3, <1>a, <1>b, <1>c, <1>d, <1>e DEF Ttbr0AllocFail, TypeOK, OpsLive, TablesOf, New, ThreadOf
<1>4. ASSUME NEW t \in Thread, Ttbr1Check(t)
      PROVE  OpsLive'
  BY <1>4, <1>a, <1>b, <1>c, <1>d, <1>e DEF Ttbr1Check, TypeOK, OpsLive, TablesOf, New, ThreadOf
<1>5. ASSUME NEW t \in Thread, Ttbr1Refuse(t)
      PROVE  OpsLive'
  <2>1. care # 2
    BY <1>5, <1>e DEF Ttbr1Refuse, OrderInv
  <2> QED
    BY <1>5, <2>1 DEF Ttbr1Refuse, OpsLive
<1>6. ASSUME NEW t \in Thread, Ttbr1Enable(t)
      PROVE  OpsLive'
  BY <1>6, <1>a, <1>b, <1>c, <1>d, <1>e DEF Ttbr1Enable, TypeOK, OpsLive, TablesOf, New, ThreadOf
<1>7. ASSUME NEW t \in Thread, Ttbr0Check(t)
      PROVE  OpsLive'
  BY <1>7, <1>a, <1>b, <1>c, <1>d, <1>e DEF Ttbr0Check, TypeOK, OpsLive, TablesOf, New, ThreadOf
<1>8. ASSUME NEW t \in Thread, Ttbr0Refuse(t)
      PROVE  OpsLive'
  BY <1>8, <1>a, <1>b, <1>c, <1>d, <1>e DEF Ttbr0Refuse, TypeOK, OpsLive, TablesOf, New, ThreadOf
<1>9. ASSUME NEW t \in Thread, Ttbr0Enable(t)
      PROVE  OpsLive'
  BY <1>9, <1>a, <1>b, <1>c, <1>d, <1>e DEF Ttbr0Enable, TypeOK, OpsLive, TablesOf, New, ThreadOf
<1>10. ASSUME NEW t \in Thread, Aperture(t)
      PROVE  OpsLive'
  BY <1>10, <1>a, <1>b, <1>c, <1>d, <1>e DEF Aperture, TypeOK, OpsLive, TablesOf, New, ThreadOf
<1>11. ASSUME NEW t \in Thread, ApertureFail(t)
      PROVE  OpsLive'
  BY <1>11, <1>b, <1>e DEF ApertureFail, OpsLive, OwnTable, Set0Pcs
<1>12. ASSUME NEW t \in Thread, NEW d \in Dev, GlobalSet(t, d)
      PROVE  OpsLive'
  BY <1>12, <1>a, <1>b, <1>c, <1>d, <1>e DEF GlobalSet, TypeOK, OpsLive, TablesOf, New, ThreadOf
<1>13. ASSUME NEW t \in Thread, NEW d \in Dev, PerprocAlloc(t, d)
      PROVE  OpsLive'
  BY <1>13, <1>a, <1>b, <1>c, <1>d, <1>e DEF PerprocAlloc, TypeOK, OpsLive, TablesOf, New, ThreadOf
<1>14. ASSUME NEW t \in Thread, NEW d \in Dev, MapBegin(t, d)
      PROVE  OpsLive'
  BY <1>14, <1>a, <1>b, <1>c, <1>d, <1>e DEF MapBegin, TypeOK, OpsLive, TablesOf, New, ThreadOf
<1>15. ASSUME NEW t \in Thread, GlobalCapture(t)
      PROVE  OpsLive'
  <2> SUFFICES ASSUME care = 2 PROVE pgtable' \notin freed \cup given
    BY <1>15, <1>e DEF GlobalCapture, OpsLive
  <2>1. pgtable = 0
    BY <1>15, <1>e DEF GlobalCapture, SerialInv, SerialOf
  <2> QED
    BY <1>15, <1>b, <1>d, <1>e, <2>1 DEF GlobalCapture, OpsLive, TablesOf, ThreadOf
<1>16. ASSUME NEW t \in Thread, GlobalInstall(t)
      PROVE  OpsLive'
  BY <1>16, <1>a, <1>b, <1>c, <1>d, <1>e DEF GlobalInstall, TypeOK, OpsLive, TablesOf, New, ThreadOf
<1>17. ASSUME NEW t \in Thread, MapEnd(t)
      PROVE  OpsLive'
  BY <1>17, <1>a, <1>b, <1>c, <1>d, <1>e DEF MapEnd, TypeOK, OpsLive, TablesOf, New, ThreadOf
<1>18. ASSUME NEW t \in Thread, NEW d \in Dev, NEW n \in given, PerprocSet(t, d, n)
      PROVE  OpsLive'
  BY <1>18, <1>a, <1>b, <1>c, <1>d, <1>e DEF PerprocSet, TypeOK, OpsLive, TablesOf, New, ThreadOf
<1>19. ASSUME NEW t \in Thread, NEW n \in given, PerprocFree(t, n)
      PROVE  OpsLive'
  BY <1>19, <1>e DEF PerprocFree, OpsLive, Working
<1>20. ASSUME NEW t \in Thread, Misuse(t)
      PROVE  OpsLive'
  <2> SUFFICES ASSUME care = 2 PROVE FALSE
    BY <1>20 DEF Misuse, OpsLive
  <2>1. ({pgtable} \cup {ops[d] : d \in Dev}) \cap freed = {}
    BY <1>e DEF OpsLive
  <2>2. th[t].pc = "map" => th[t].table \notin freed
    BY <1>e DEF OrderInv
  <2>3. th[t].pc = "global" => pgtable # 0
    BY <1>b DEF ThreadOf
  <2> QED
    BY <1>20, <2>1, <2>2, <2>3 DEF Misuse
<1> QED
  BY <1>1, <1>2, <1>3, <1>4, <1>5, <1>6, <1>7, <1>8, <1>9, <1>10,
     <1>11, <1>12, <1>13, <1>14, <1>15, <1>16, <1>17, <1>18, <1>19, <1>20 DEF Next, Context, Process

-----------------------------------------------------------------------------
(* The theorems *)

\* Before the first call.
LEMMA Initially == Init => IInv
<1> SUFFICES ASSUME Init PROVE IInv
  OBVIOUS
<1>1. Devs \in Nat /\ MaxTable \in Nat /\ Devs >= 1 /\ MaxTable >= Devs
  BY TableAssumption
<1>2. \A t \in Thread : th[t].pc = "idle" /\ th[t].table = 0
  BY DEF Init, Idle
<1>3. \A d \in Dev :
          /\ cb[d].ttbr0 \in {0, d} /\ cb[d].ttbr1 \in {0, d}
          /\ cb[d].epd0 => cb[d].ttbr0 = 0
          /\ cb[d].epd1 => cb[d].ttbr1 = 0
  BY DEF Init
<1>4. TypeOK
  <2>1. th \in [Thread -> ThType]
    BY <1>1 DEF Init, Idle, ThType
  <2>2. cb \in [Dev -> CbType]
    BY DEF Init, CbType
  <2>3. ops \in [Dev -> 1 .. tables]
    BY <1>1 DEF Init, Dev
  <2>5. /\ care \in 0 .. 2 /\ tables = Devs /\ pgtable = 0 /\ bad = FALSE
        /\ freed = {} /\ given = {} /\ lost = {} /\ refused = {}
    BY DEF Init
  <2>4. tables \in Devs .. MaxTable
    BY <1>1, <2>5
  <2>6. pgtable \in 0 .. tables
    BY <1>1, <2>5
  <2>7. bad \in BOOLEAN
    BY <2>5, Zenon
  <2>8. /\ freed \subseteq 1 .. tables /\ given \subseteq 1 .. tables
        /\ lost \subseteq 1 .. tables /\ refused \subseteq 1 .. tables
    BY <2>5
  <2> QED
    BY <2>1, <2>2, <2>3, <2>4, <2>5, <2>6, <2>7, <2>8 DEF TypeOK, ThType, CbType
<1>5. \A t \in Thread : ThreadOf(t) /\ OwnTable(t) /\ SerialOf(t)
  BY <1>2 DEF ThreadOf, OwnTable, SerialOf, OwnPcs, Set0Pcs
<1>6. OwnApart /\ \A t \in Thread : th[t].pc \notin SetPcs
  BY <1>2 DEF OwnApart, OwnPcs, Set0Pcs, SetPcs
<1>7. TablesOf
  BY DEF Init, TablesOf
<1>8. BanksOf
  BY <1>3 DEF Init, BanksOf
<1>9. SerialInv
  <2>1. 1 .. tables \subseteq Known
    BY DEF Init, Known, Dev
  <2> QED
    BY <1>5, <1>6, <2>1 DEF SerialInv
<1>10. OrderInv
  BY <1>2 DEF OrderInv
<1>11. OpsLive
  BY DEF Init, OpsLive
<1> QED
  BY <1>4, <1>5, <1>6, <1>7, <1>8, <1>9, <1>10, <1>11 DEF IInv

\* No step breaks the invariant.
LEMMA Kept == IInv /\ [Next]_vars => IInv'
<1>1. ASSUME IInv, UNCHANGED vars PROVE IInv'
  <2>1. /\ UNCHANGED <<care, tables, freed, pgtable, ops, cb>>
        /\ UNCHANGED <<given, lost, refused, th, bad>>
    BY <1>1 DEF vars
  <2>2. Hw' = Hw /\ Known' = Known
    BY <2>1 DEF Hw, Known
  <2>3. \A t \in Thread : ThreadOf(t)' /\ OwnTable(t)' /\ (SerialOf(t)' <=> SerialOf(t))
    BY <1>1, <2>1, <2>2 DEF IInv, ThreadOf, OwnTable, SerialOf
  <2>4. TypeOK' /\ OwnApart' /\ TablesOf' /\ BanksOf'
    BY <1>1, <2>1, <2>2 DEF IInv, TypeOK, OwnApart, TablesOf, BanksOf
  <2>5. SerialInv' /\ OrderInv' /\ OpsLive'
    BY <1>1, <2>1, <2>2, <2>3 DEF IInv, SerialInv, OrderInv, OpsLive
  <2> QED
    BY <2>3, <2>4, <2>5 DEF IInv
<1>2. ASSUME IInv, Next PROVE IInv'
  <2>1. SerialInv'
    BY <1>2, SoleKept, SerialOfKept, KnownKept DEF SerialInv
  <2> QED
    BY <1>2, <2>1, TypesKept, ThreadsKept, OwnKept, ApartKept, TablesKept, BanksKept, OrderKept, LiveKept DEF IInv
<1> QED
  BY <1>1, <1>2

\* The inductive invariant of the page tables.
THEOREM Invariance == Spec => []IInv
  BY Initially, Kept, PTL DEF Spec

\* The hardware never walks a table that an ioctl has freed, unless the firmware refused
\* its aperture, and calls that come one after the other lose no table but by the two
\* errors the code ignores.
THEOREM TablesInvHolds == Spec => []TablesInv
<1>1. IInv => TablesInv
  <2> SUFFICES ASSUME IInv PROVE TablesInv
    OBVIOUS
  <2>1. TypeOK /\ HwLive
    BY DEF IInv, BanksOf, HwLive
  <2>2. TablesAccounted
    <3> SUFFICES ASSUME care > 0, NEW n \in 1 .. tables
                 PROVE  n \in freed \cup given \cup lost \cup Working \cup Dev \cup {pgtable}
                            \cup {cb[d].ttbr0 : d \in Dev} \cup {cb[d].ttbr1 : d \in Dev}
      BY DEF TablesAccounted
    <3>1. n \in Known
      BY DEF IInv, SerialInv
    <3> QED
      BY <3>1 DEF Known, Hw, Working
  <2> QED
    BY <2>1, <2>2 DEF TablesInv
<1> QED
  BY <1>1, Invariance, PTL

\* As long as user space keeps the order, kiumd maps through live tables, and no table of
\* a process becomes the global one.
THEOREM OpsLiveHolds == Spec => []OpsLive
<1>1. IInv => OpsLive
  BY DEF IInv
<1> QED
  BY <1>1, Invariance, PTL

=============================================================================
