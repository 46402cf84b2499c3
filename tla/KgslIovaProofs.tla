--------------------------- MODULE KgslIovaProofs ---------------------------
(***************************************************************************)
(* Device addresses of KGSL mappings, for bitmaps of every size: with one call   *)
(* on the device at a time KGSL buffers are mapped where get_map_offset reserved    *)
(* room for them and never onto one another, the bitmaps are exact, and the          *)
(* search refuses only when there is no room.                                         *)
(***************************************************************************)
EXTENDS KgslIova, WellFoundedInduction, TLAPS

CallType == [state : {"new", "busy", "live", "unmapping", "done", "nospace", "collided", "lost"},
             pt : Pt \cup {None}, bit : Page, size : 1 .. MaxSize, at : Addrs]

ThType == [pc : {"idle", "reserve", "cookie", "alloc", "map", "copy", "unmap"},
           call : Call \cup {None}, bit : Page]

\* What a thread does with its call.
ThreadOf(t) ==
    LET k == th[t].call IN
    /\ th[t].pc = "idle" <=> k = None
    /\ th[t].pc \in {"reserve", "cookie"} => call[k].pt \in Pt /\ th[t].bit = call[k].bit
    /\ th[t].pc \in {"reserve", "cookie", "alloc"} => call[k].at.pt = None
    /\ th[t].pc \in {"reserve", "cookie", "alloc", "map"} => call[k].state = "busy"
    /\ th[t].pc = "copy" => call[k].state = "live"
    /\ th[t].pc = "unmap" => call[k].state = "unmapping"

\* What a call has, and who is at it.
CallOf(k) ==
    /\ call[k].state = "new" => call[k].pt = None /\ call[k].at.pt = None
    /\ call[k].pt # None => call[k].bit + call[k].size <= Pages
    /\ call[k].state = "unmapping" => \E t \in Thread : th[t].pc = "unmap" /\ th[t].call = k

\* A call is in the hands of one thread.
OwnThread == \A t, u \in Thread : th[t].call = th[u].call /\ th[t].call # None => t = u

\* One call on the device at a time: a reserved run is free until it is set, and
\* nobody comes between the cookie and the address taken from it.
AtItsBit(k) == call[k].at = Addr(call[k].pt, call[k].bit)

StepOf(t) ==
    LET k == th[t].call IN
    /\ th[t].pc = "reserve" => Reserved(k) \cap bits[call[k].pt] = {}
    /\ th[t].pc = "alloc" /\ call[k].pt # None =>
          cookie = [type |-> "msi", at |-> Addr(call[k].pt, call[k].bit)]
    /\ th[t].pc = "map" /\ call[k].pt # None => AtItsBit(k)

OneAtATime == \A t, u \in Thread : th[t].pc # "idle" /\ th[u].pc # "idle" => t = u

\* The bits of a page table are the pages of the owners, each of them once.
BitsOwned ==
    \A pt \in Pt, p \in Page :
        p \in bits[pt] <=> \E k \in Owners : call[k].pt = pt /\ p \in Reserved(k)

OwnersApart ==
    \A k, o \in Owners : k # o /\ call[k].pt = call[o].pt => Reserved(k) \cap Reserved(o) = {}

SerialInv ==
    /\ OneAtATime
    /\ \A t \in Thread : StepOf(t)
    /\ BitsOwned /\ OwnersApart
    /\ AtReserved
    /\ Strays = {} => \A k \in Kgsl : call[k].state # "collided"

IInv ==
    /\ TypeOK
    /\ \A t \in Thread : ThreadOf(t)
    /\ \A k \in Call : CallOf(k)
    /\ OwnThread
    /\ Serial => SerialInv

-----------------------------------------------------------------------------
(* The search *)

\* Numbers have a least one.
LEMMA Least ==
    ASSUME NEW S, S \subseteq Nat, S # {}
    PROVE  \E x \in S : \A y \in S : x <= y
<1> DEFINE R == {ss \in Nat \X Nat : ss[1] < ss[2]}
<1>1. IsWellFoundedOn(R, Nat)
  BY NatLessThanWellFounded DEF OpToRel
<1>2. \A x, y \in S : y < x => <<y, x>> \in R
  OBVIOUS
<1> HIDE DEF R
<1>3. PICK x \in S : \A y \in S : ~(<<y, x>> \in R)
  BY <1>1, WFMin
<1>4. \A y \in S : ~(y < x)
  BY <1>2, <1>3
<1>5. \A y \in S : x \in Int /\ y \in Int
  OBVIOUS
<1> QED
  BY <1>4, <1>5

\* bitmap_find_next_zero_area from the start finds an area if there is one.
LEMMA SearchComplete ==
    ASSUME NEW set, NEW n \in 1 .. MaxSize, NextZeroArea(set, 0, n) = {},
           NEW i \in 0 .. Pages - n, Run(i, n) \cap set = {}
    PROVE  FALSE
<1> DEFINE Free == {j \in 0 .. Pages - n : Run(j, n) \cap set = {}}
<1>1. Free \subseteq Nat /\ Free # {}
  OBVIOUS
<1>2. PICK x \in Free : \A y \in Free : x <= y
  BY <1>1, Least
<1>3. x \in 0 .. Pages - n /\ Run(x, n) \cap set = {}
  OBVIOUS
<1>4. \A j \in 0 .. x - 1 : j \notin Free /\ j \in 0 .. Pages - n
  BY <1>2, <1>3, IovaAssumption
<1>5. \A j \in 0 .. x - 1 : Run(j, n) \cap set # {}
  BY <1>4
<1> QED
  BY <1>3, <1>5 DEF NextZeroArea

\* get_map_offset returns a free area of the bitmap, and fails only without one.
LEMMA MapOffsetFree ==
    ASSUME NEW set, NEW from \in Page, NEW n \in 1 .. MaxSize
    PROVE  LET found == MapOffset(set, from, n)
               free == {i \in 0 .. Pages - n : Run(i, n) \cap set = {}}
           IN  found \subseteq free /\ (found = {} => free = {})
<1> DEFINE found == MapOffset(set, from, n)
           free == {i \in 0 .. Pages - n : Run(i, n) \cap set = {}}
<1>1. NextZeroArea(set, from, n) \subseteq free /\ NextZeroArea(set, 0, n) \subseteq free
  BY IovaAssumption DEF NextZeroArea, Page
<1>2. found \subseteq free
  BY <1>1 DEF MapOffset
<1>3. found = {} => NextZeroArea(set, 0, n) = {}
  BY DEF MapOffset
<1>4. found = {} => free = {}
  BY <1>3, SearchComplete
<1> QED
  BY <1>2, <1>4

\* The area found lies in the bitmap.
LEMMA FoundInBitmap ==
    ASSUME NEW set, NEW from \in Page, NEW n \in 1 .. MaxSize, NEW b \in MapOffset(set, from, n)
    PROVE  b \in Page /\ b + n <= Pages /\ Run(b, n) \cap set = {}
<1>1. b \in {i \in 0 .. Pages - n : Run(i, n) \cap set = {}}
  BY MapOffsetFree
<1> QED
  BY <1>1, IovaAssumption DEF Page

-----------------------------------------------------------------------------

\* Nothing is set, and nobody has called.
LEMMA Initial == Init => IInv
<1> SUFFICES ASSUME Init PROVE IInv
  OBVIOUS
<1>1. 0 \in Page /\ 1 \in 1 .. MaxSize /\ Addr(None, 0) \in Addrs
  BY IovaAssumption DEF Page, Addr, Addrs
<1>2. NewCall \in CallType /\ NewCall.state = "new" /\ NewCall.pt = None /\ NewCall.at.pt = None
  BY <1>1 DEF NewCall, CallType, Addr
<1>3. Idle \in ThType /\ Idle.pc = "idle" /\ Idle.call = None
  BY <1>1 DEF Idle, ThType
<1>4. /\ \A k \in Call : call[k] = NewCall
      /\ \A t \in Thread : th[t] = Idle
      /\ \A pt \in Pt : bits[pt] = {}
      /\ call \in [Call -> CallType] /\ th \in [Thread -> ThType]
  BY <1>2, <1>3 DEF Init
<1>5. TypeOK
  BY <1>1, <1>4 DEF Init, TypeOK, CallType, ThType
<1>6. \A t \in Thread : ThreadOf(t)
  BY <1>3, <1>4 DEF ThreadOf
<1>7. (\A k \in Call : CallOf(k)) /\ OwnThread
  BY <1>2, <1>3, <1>4 DEF CallOf, OwnThread
<1>8. Kgsl = {} /\ Owners = {}
  BY <1>2, <1>4 DEF Kgsl, Owners
<1>9. SerialInv
  <2>1. OneAtATime /\ \A t \in Thread : StepOf(t)
    BY <1>3, <1>4 DEF OneAtATime, StepOf
  <2>2. BitsOwned /\ OwnersApart
    BY <1>4, <1>8 DEF BitsOwned, OwnersApart
  <2> QED
    BY <1>8, <2>1, <2>2 DEF SerialInv, AtReserved
<1> QED
  BY <1>5, <1>6, <1>7, <1>9 DEF IInv

-----------------------------------------------------------------------------
(* A step of thread t, which concerns call k and nothing else *)

Only(t, k) ==
    /\ th' \in [Thread -> ThType] /\ call' \in [Call -> CallType]
    /\ th[t].call \in {k, None} /\ th'[t].call \in {k, None}
    /\ \A u \in Thread \ {t} : th'[u] = th[u] /\ th[u].call # k
    /\ \A j \in Call \ {k} : call'[j] = call[j]

\* The parts that do not depend on one call at a time.
LEMMA MoveThreads ==
    ASSUME IInv, NEW t \in Thread, NEW k \in Call, Only(t, k), ThreadOf(t)', CallOf(k)'
    PROVE  /\ \A u \in Thread : ThreadOf(u)'
           /\ \A j \in Call : CallOf(j)'
           /\ OwnThread'
<1>1. ASSUME NEW u \in Thread, u # t PROVE ThreadOf(u)'
  <2>1. th'[u] = th[u] /\ th[u].call # k /\ ThreadOf(u) /\ th[u] \in ThType
    BY <1>1 DEF Only, IInv, TypeOK, ThType
  <2>2. CASE th[u].call = None
    BY <2>1, <2>2 DEF ThreadOf
  <2>3. CASE th[u].call # None
    <3>1. th[u].call \in Call \ {k}
      BY <2>1, <2>3 DEF ThType
    <3>2. call'[th[u].call] = call[th[u].call]
      BY <3>1 DEF Only
    <3> QED
      BY <2>1, <3>2 DEF ThreadOf
  <2> QED
    BY <2>2, <2>3
<1>2. ASSUME NEW j \in Call, j # k PROVE CallOf(j)'
  <2>1. call'[j] = call[j] /\ CallOf(j)
    BY <1>2 DEF Only, IInv
  <2>2. ASSUME NEW u \in Thread, th[u].pc = "unmap", th[u].call = j
        PROVE  th'[u].pc = "unmap" /\ th'[u].call = j
    <3>1. j # None
      BY IovaAssumption
    <3> QED
      BY <1>2, <2>2, <3>1 DEF Only
  <2> QED
    BY <2>1, <2>2 DEF CallOf
<1>3. OwnThread'
  BY IovaAssumption DEF IInv, OwnThread, Only
<1> QED
  BY <1>1, <1>2, <1>3

CookieType == [type : {"iova", "msi"}, at : Addrs]

\* All the parts together.
LEMMA MoveAll ==
    ASSUME IInv, NEW t \in Thread, NEW k \in Call, Only(t, k), ThreadOf(t)', CallOf(k)',
           bits' \in [Pt -> SUBSET Page], last' \in [Pt -> Page], cookie' \in CookieType,
           Serial => SerialInv'
    PROVE  IInv'
<1>1. TypeOK'
  BY DEF TypeOK, Only, CallType, ThType, CookieType
<1> QED
  BY <1>1, MoveThreads DEF IInv

\* The call a thread works on, and that nobody else does.
LEMMA Working ==
    ASSUME IInv, NEW t \in Thread, th[t].pc # "idle"
    PROVE  /\ th[t].call \in Call
           /\ \A u \in Thread \ {t} : th[u].call # th[t].call
<1>1. th[t] \in ThType /\ ThreadOf(t)
  BY DEF IInv, TypeOK, ThType
<1>2. th[t].call \in Call
  BY <1>1 DEF ThType, ThreadOf
<1> QED
  BY <1>2, IovaAssumption DEF IInv, OwnThread

\* A thread that is free has no call, and nobody is at a new one.
LEMMA Free ==
    ASSUME IInv, NEW t \in Thread
    PROVE  /\ th[t].pc = "idle" => th[t].call = None
           /\ \A k \in Call : call[k].state = "new" => th[t].call # k
<1>1. th[t] \in ThType /\ ThreadOf(t)
  BY DEF IInv, TypeOK, ThType
<1>2. ASSUME NEW k \in Call, th[t].call = k PROVE call[k].state # "new"
  <2>1. th[t].pc # "idle"
    BY <1>1, <1>2, IovaAssumption DEF ThreadOf
  <2>2. th[t].pc \in {"reserve", "cookie", "alloc", "map", "copy", "unmap"}
    BY <1>1, <2>1 DEF ThType
  <2> QED
    BY <1>1, <1>2, <2>2 DEF ThreadOf
<1> QED
  BY <1>1, <1>2 DEF ThreadOf

\* No other thread is inside.
Alone(t) == \A u \in Thread \ {t} : th[u].pc = "idle"

\* With one call at a time, whoever takes a step is alone.
LEMMA SerialAlone ==
    ASSUME IInv, Serial, NEW t \in Thread, CanStart(t) \/ th[t].pc # "idle"
    PROVE  Alone(t) /\ SerialInv
  BY DEF IInv, SerialInv, OneAtATime, CanStart, Alone

SetStates == {"live", "lost", "collided"}
SetPcs == {"cookie", "alloc", "map"}

\* A step does not change who owns what among the other calls.
LEMMA OthersOwn ==
    ASSUME IInv, NEW t \in Thread, NEW k \in Call, Only(t, k), NEW j \in Call, j # k
    PROVE  /\ j \in Owners' <=> j \in Owners
           /\ Reserved(j)' = Reserved(j) /\ call'[j] = call[j]
<1>1. call'[j] = call[j] /\ j # None
  BY IovaAssumption DEF Only
<1>2. \A u \in Thread : th'[u].call = j \/ th[u].call = j => th'[u] = th[u]
  BY <1>1 DEF Only
<1>3. (\E u \in Thread : th'[u].call = j /\ th'[u].pc \in SetPcs) <=>
         (\E u \in Thread : th[u].call = j /\ th[u].pc \in SetPcs)
  BY <1>2
<1> QED
  BY <1>1, <1>3 DEF Owners, Kgsl, Reserved, SetPcs

\* Whether the call of the step owns its range.
LEMMA SelfOwns ==
    ASSUME IInv, NEW t \in Thread, NEW k \in Call, Only(t, k)
    PROVE  /\ k \in Owners <=>
                 /\ call[k].pt # None
                 /\ call[k].state \in SetStates \/ (th[t].call = k /\ th[t].pc \in SetPcs)
           /\ k \in Owners' <=>
                 /\ call'[k].pt # None
                 /\ call'[k].state \in SetStates \/ (th'[t].call = k /\ th'[t].pc \in SetPcs)
<1>1. \A u \in Thread \ {t} : th[u].call # k /\ th'[u].call # k
  BY DEF Only
<1>2. (\E u \in Thread : th[u].call = k /\ th[u].pc \in SetPcs) <=>
         th[t].call = k /\ th[t].pc \in SetPcs
  BY <1>1
<1>3. (\E u \in Thread : th'[u].call = k /\ th'[u].pc \in SetPcs) <=>
         th'[t].call = k /\ th'[t].pc \in SetPcs
  BY <1>1
<1> QED
  BY <1>2, <1>3 DEF Owners, Kgsl, SetStates, SetPcs

\* The bitmaps and the owners stay as they are.
LEMMA KeepBits ==
    ASSUME IInv, SerialInv, NEW t \in Thread, NEW k \in Call, Only(t, k), bits' = bits,
           k \in Owners' <=> k \in Owners,
           k \in Owners => Reserved(k)' = Reserved(k) /\ call'[k].pt = call[k].pt
    PROVE  BitsOwned' /\ OwnersApart'
<1>1. \A j \in Call : (j \in Owners' <=> j \in Owners)
                      /\ (j \in Owners => Reserved(j)' = Reserved(j) /\ call'[j].pt = call[j].pt)
  BY OthersOwn
<1>2. Owners \subseteq Call /\ Owners' \subseteq Call
  BY DEF Owners, Kgsl
<1>3. BitsOwned'
  BY <1>1, <1>2 DEF SerialInv, BitsOwned
<1>4. OwnersApart'
  BY <1>1, <1>2 DEF SerialInv, OwnersApart
<1> QED
  BY <1>3, <1>4

\* The rest of what one call at a time gives.
LEMMA MoveSerial ==
    ASSUME IInv, SerialInv, NEW t \in Thread, NEW k \in Call, Only(t, k), Alone(t), StepOf(t)',
           BitsOwned', OwnersApart',
           call'[k].pt # None /\ call'[k].state \in {"live", "unmapping"} => AtItsBit(k)',
           call[k].pt = None /\ call[k].at.pt \in Pt => call'[k].pt = None /\ call'[k].at.pt \in Pt,
           call'[k].pt # None /\ call'[k].state = "collided" =>
               \/ Strays # {}
               \/ call[k].pt # None /\ call[k].state = "collided"
    PROVE  SerialInv'
<1>1. \A u \in Thread \ {t} : th'[u].pc = "idle"
  BY DEF Only, Alone
<1>2. OneAtATime' /\ \A u \in Thread : StepOf(u)'
  BY <1>1 DEF OneAtATime, StepOf
<1>3. AtReserved'
  BY DEF SerialInv, AtReserved, Kgsl, Present, Only, AtItsBit
<1>4. Strays \subseteq Strays'
  BY DEF Strays, Kgsl, Only
<1>5. Strays' = {} => \A j \in Kgsl' : call'[j].state # "collided"
  BY <1>4 DEF SerialInv, Kgsl, Only
<1> QED
  BY <1>2, <1>3, <1>5 DEF SerialInv

\* The address an allocation takes, and the cookie it leaves.
LEMMA CookieMoves ==
    ASSUME IInv, NEW n \in Int
    PROVE  /\ Advance(n) => cookie' \in CookieType
           /\ FreeIova(n) => cookie' \in CookieType
           /\ \A k \in Call : AllocAt(k) \in Addrs
<1>1. cookie \in CookieType /\ cookie.at \in Addrs
  BY DEF IInv, TypeOK, CookieType
<1>2. \A m \in Int : [cookie EXCEPT !.at.page = cookie.at.page + m] \in CookieType
  <2> SUFFICES ASSUME NEW m \in Int
               PROVE  [cookie EXCEPT !.at.page = cookie.at.page + m] \in CookieType
    OBVIOUS
  <2>1. cookie.at.page + m \in Int
    BY <1>1 DEF Addrs
  <2>2. [cookie.at EXCEPT !.page = cookie.at.page + m] \in Addrs
    BY <1>1, <2>1 DEF Addrs
  <2> QED
    BY <1>1, <2>2 DEF CookieType
<1>3. ASSUME NEW m \in Int, Advance(m) PROVE cookie' \in CookieType
  BY <1>1, <1>2, <1>3 DEF Advance
<1>4. -n \in Int
  OBVIOUS
<1>5. \A k \in Call : AllocAt(k) \in Addrs
  BY <1>1 DEF AllocAt, Addr, Addrs
<1> QED
  BY <1>3, <1>4, <1>5 DEF FreeIova

-----------------------------------------------------------------------------
(* The shapes of a step *)

CallStates == {"new", "busy", "live", "unmapping", "done", "nospace", "collided", "lost"}

\* A thread enters with a call that nobody is at.
LEMMA EnterOnly ==
    ASSUME IInv, NEW t \in Thread, th[t].pc = "idle", NEW k \in Call,
           \A u \in Thread : th[u].call # k,
           NEW r \in ThType, r.call \in {k, None}, th' = [th EXCEPT ![t] = r],
           NEW c \in CallType, call' = [call EXCEPT ![k] = c]
    PROVE  Only(t, k) /\ th'[t] = r /\ call'[k] = c /\ th[t].call = None
<1>1. th \in [Thread -> ThType] /\ call \in [Call -> CallType]
  BY DEF IInv, TypeOK, ThType, CallType
<1>2. th[t].call = None
  BY Free
<1> QED
  BY <1>1, <1>2 DEF Only

\* A call ends.
LEMMA FinishOnly ==
    ASSUME IInv, NEW t \in Thread, th[t].pc # "idle", NEW state \in CallStates, Finish(t, state)
    PROVE  LET k == th[t].call IN
           /\ k \in Call /\ Only(t, k) /\ th'[t].pc = "idle" /\ th'[t].call = None
           /\ call'[k].state = state
           /\ call'[k].pt = call[k].pt /\ call'[k].bit = call[k].bit
           /\ call'[k].size = call[k].size /\ call'[k].at = call[k].at
<1> DEFINE k == th[t].call
<1>1. th \in [Thread -> ThType] /\ call \in [Call -> CallType] /\ k \in Call
      /\ \A u \in Thread \ {t} : th[u].call # k
  BY Working DEF IInv, TypeOK, ThType, CallType
<1>2. Idle \in ThType /\ Idle.pc = "idle" /\ Idle.call = None
  BY IovaAssumption DEF Idle, ThType, Page
<1>3. th' = [th EXCEPT ![t] = Idle] /\ call' = [call EXCEPT ![k].state = state]
  BY DEF Finish
<1> HIDE DEF k
<1>4. [call[k] EXCEPT !.state = state] \in CallType
  BY <1>1 DEF CallType, CallStates
<1>5. /\ call' \in [Call -> CallType] /\ call'[k].state = state
      /\ call'[k].pt = call[k].pt /\ call'[k].bit = call[k].bit
      /\ call'[k].size = call[k].size /\ call'[k].at = call[k].at
      /\ \A j \in Call \ {k} : call'[j] = call[j]
  BY <1>1, <1>3, <1>4 DEF CallType
<1>6. th' \in [Thread -> ThType] /\ th'[t] = Idle /\ \A u \in Thread \ {t} : th'[u] = th[u]
  BY <1>1, <1>2, <1>3
<1>7. Only(t, k)
  BY <1>1, <1>2, <1>5, <1>6 DEF Only, k
<1> QED
  BY <1>1, <1>2, <1>5, <1>6, <1>7 DEF k

\* A thread goes on with its call.
LEMMA StepOnly ==
    ASSUME IInv, NEW t \in Thread, th[t].pc # "idle",
           NEW pc \in {"reserve", "cookie", "alloc", "map", "copy", "unmap"}, Step(t, pc),
           NEW c \in CallType, call' = [call EXCEPT ![th[t].call] = c]
    PROVE  LET k == th[t].call IN
           /\ k \in Call /\ Only(t, k) /\ call'[k] = c
           /\ th'[t].pc = pc /\ th'[t].call = k /\ th'[t].bit = th[t].bit
<1> DEFINE k == th[t].call
<1>1. th \in [Thread -> ThType] /\ call \in [Call -> CallType] /\ k \in Call
      /\ \A u \in Thread \ {t} : th[u].call # k
  BY Working DEF IInv, TypeOK, ThType, CallType
<1>2. th' = [th EXCEPT ![t].pc = pc] /\ call' = [call EXCEPT ![k] = c]
  BY DEF Step
<1>3. [th[t] EXCEPT !.pc = pc] \in ThType
  BY <1>1 DEF ThType
<1>4. /\ th' \in [Thread -> ThType] /\ th'[t].pc = pc /\ th'[t].call = k /\ th'[t].bit = th[t].bit
      /\ \A u \in Thread \ {t} : th'[u] = th[u]
  BY <1>1, <1>2, <1>3 DEF ThType
<1>5. call' \in [Call -> CallType] /\ call'[k] = c /\ \A j \in Call \ {k} : call'[j] = call[j]
  BY <1>1, <1>2
<1>6. Only(t, k)
  BY <1>1, <1>4, <1>5 DEF Only
<1> QED
  BY <1>1, <1>4, <1>5, <1>6

-----------------------------------------------------------------------------
(* The steps *)

\* get_map_offset finds a range.
LEMMA FindStep ==
    ASSUME IInv, NEW t \in Thread, NEW k \in Call, NEW pt \in Pt, NEW n \in 1 .. MaxSize,
           MapFind(t, k, pt, n)
    PROVE  IInv'
<1>1. /\ CanStart(t) /\ th[t].pc = "idle" /\ call[k].state = "new"
      /\ UNCHANGED <<bits, last, cookie>>
  BY DEF MapFind, CanStart
<1>2. PICK b \in MapOffset(bits[pt], last[pt], n) :
         /\ call' = [call EXCEPT ![k] = [state |-> "busy", pt |-> pt, bit |-> b, size |-> n,
                                         at |-> Addr(None, 0)]]
         /\ th' = [th EXCEPT ![t] = [pc |-> "reserve", call |-> k, bit |-> b]]
  BY DEF MapFind
<1>3. last[pt] \in Page /\ bits \in [Pt -> SUBSET Page] /\ last \in [Pt -> Page]
      /\ cookie \in CookieType
  BY DEF IInv, TypeOK, CookieType
<1>4. b \in Page /\ b + n <= Pages /\ Run(b, n) \cap bits[pt] = {}
  BY <1>2, <1>3, FoundInBitmap
<1>5. PICK r \in ThType, c \in CallType :
         /\ r.call = k /\ r.pc = "reserve" /\ r.bit = b
         /\ c.state = "busy" /\ c.pt = pt /\ c.bit = b /\ c.size = n /\ c.at = Addr(None, 0)
         /\ th' = [th EXCEPT ![t] = r] /\ call' = [call EXCEPT ![k] = c]
  <2>1. [pc |-> "reserve", call |-> k, bit |-> b] \in ThType
    BY <1>4 DEF ThType
  <2>2. [state |-> "busy", pt |-> pt, bit |-> b, size |-> n, at |-> Addr(None, 0)] \in CallType
    BY <1>4 DEF CallType, Addr, Addrs
  <2> QED
    BY <1>2, <2>1, <2>2
<1>6. \A u \in Thread : th[u].call # k
  BY <1>1, Free
<1>7. Only(t, k) /\ th'[t] = r /\ call'[k] = c /\ th[t].call = None
  <2>1. r.call \in {k, None} /\ th' = [th EXCEPT ![t] = r] /\ call' = [call EXCEPT ![k] = c]
    BY <1>5
  <2> QED
    BY <1>1, <1>6, <2>1, EnterOnly
<1>8. k # None /\ pt # None
  BY IovaAssumption
<1>9. ThreadOf(t)' /\ CallOf(k)'
  BY <1>4, <1>5, <1>7, <1>8 DEF ThreadOf, CallOf, Addr
<1>10. ASSUME Serial PROVE SerialInv'
  <2>1. Alone(t) /\ SerialInv
    BY <1>1, <1>10, SerialAlone
  <2>2. call[k].pt = None /\ call[k].at.pt = None
    BY <1>1 DEF IInv, CallOf
  <2>3. StepOf(t)'
    BY <1>1, <1>4, <1>5, <1>7 DEF StepOf, Reserved
  <2>4. k \notin Owners /\ k \notin Owners'
    BY <1>5, <1>7, <2>2, SelfOwns DEF SetStates, SetPcs
  <2>5. BitsOwned' /\ OwnersApart'
    BY <1>1, <1>7, <2>1, <2>4, KeepBits
  <2> QED
    BY <1>5, <1>7, <2>1, <2>2, <2>3, <2>5, MoveSerial, IovaAssumption
<1> QED
  BY <1>1, <1>3, <1>7, <1>9, <1>10, MoveAll

\* A call that is refused, or that asks for no KGSL page table.
LEMMA StartStep ==
    ASSUME IInv, NEW t \in Thread, NEW k \in Call,
           \/ \E pt \in Pt, n \in 1 .. MaxSize : MapNoSpace(t, k, pt, n)
           \/ \E n \in 1 .. MaxSize : MapPlain(t, k, n)
    PROVE  IInv'
<1>1. /\ CanStart(t) /\ th[t].pc = "idle" /\ call[k].state = "new"
      /\ UNCHANGED <<bits, last, cookie>>
  BY DEF MapNoSpace, MapPlain, CanStart
<1>2. call[k] \in CallType /\ bits \in [Pt -> SUBSET Page] /\ last \in [Pt -> Page]
      /\ cookie \in CookieType /\ th \in [Thread -> ThType] /\ call \in [Call -> CallType]
      /\ call[k].pt = None /\ call[k].at.pt = None
  BY <1>1 DEF IInv, TypeOK, CookieType, CallType, ThType, CallOf
<1>3. \A u \in Thread : th[u].call # k
  BY <1>1, Free
<1>4. PICK r \in ThType, c \in CallType :
         /\ r.call \in {k, None} /\ th' = [th EXCEPT ![t] = r] /\ call' = [call EXCEPT ![k] = c]
         /\ c.pt = None /\ c.at.pt = None
         /\ \/ r.pc = "idle" /\ r.call = None /\ c.state = "nospace"
            \/ r.pc = "alloc" /\ r.call = k /\ c.state = "busy"
  <2>1. ASSUME NEW pt \in Pt, NEW n \in 1 .. MaxSize, MapNoSpace(t, k, pt, n)
        PROVE  \E r \in ThType, c \in CallType :
                  /\ r.call \in {k, None} /\ th' = [th EXCEPT ![t] = r]
                  /\ call' = [call EXCEPT ![k] = c] /\ c.pt = None /\ c.at.pt = None
                  /\ r.pc = "idle" /\ r.call = None /\ c.state = "nospace"
    <3> DEFINE c == [call[k] EXCEPT !.state = "nospace"]
    <3>1. call' = [call EXCEPT ![k] = c] /\ th' = [th EXCEPT ![t] = th[t]]
      BY <1>2, <2>1 DEF MapNoSpace
    <3>2. c \in CallType /\ c.state = "nospace" /\ c.pt = None /\ c.at.pt = None
      BY <1>2 DEF CallType
    <3>3. th[t] \in ThType /\ th[t].call = None
      BY <1>1, <1>2, Free
    <3> HIDE DEF c
    <3> QED
      BY <1>1, <3>1, <3>2, <3>3
  <2>2. ASSUME NEW n \in 1 .. MaxSize, MapPlain(t, k, n)
        PROVE  \E r \in ThType, c \in CallType :
                  /\ r.call \in {k, None} /\ th' = [th EXCEPT ![t] = r]
                  /\ call' = [call EXCEPT ![k] = c] /\ c.pt = None /\ c.at.pt = None
                  /\ r.pc = "alloc" /\ r.call = k /\ c.state = "busy"
    <3> DEFINE c == [call[k] EXCEPT !.state = "busy", !.size = n]
               r == [pc |-> "alloc", call |-> k, bit |-> 0]
    <3>1. call' = [call EXCEPT ![k] = c] /\ th' = [th EXCEPT ![t] = r]
      BY <1>2, <2>2 DEF MapPlain
    <3>2. c \in CallType /\ c.state = "busy" /\ c.pt = None /\ c.at.pt = None
      BY <1>2 DEF CallType
    <3>3. r \in ThType /\ r.call = k /\ r.pc = "alloc"
      BY IovaAssumption DEF ThType, Page
    <3> HIDE DEF c, r
    <3> QED
      BY <3>1, <3>2, <3>3
  <2> QED
    BY <2>1, <2>2
<1>5. Only(t, k) /\ th'[t] = r /\ call'[k] = c /\ th[t].call = None
  BY <1>1, <1>3, <1>4, EnterOnly
<1>6. ThreadOf(t)' /\ CallOf(k)'
  BY <1>4, <1>5, IovaAssumption DEF ThreadOf, CallOf
<1>7. ASSUME Serial PROVE SerialInv'
  <2>1. Alone(t) /\ SerialInv
    BY <1>1, <1>7, SerialAlone
  <2>2. StepOf(t)'
    BY <1>4, <1>5 DEF StepOf
  <2>3. k \notin Owners /\ k \notin Owners'
    BY <1>2, <1>4, <1>5, SelfOwns
  <2>4. BitsOwned' /\ OwnersApart'
    BY <1>1, <1>5, <2>1, <2>3, KeepBits
  <2> QED
    BY <1>2, <1>4, <1>5, <2>1, <2>2, <2>4, MoveSerial, IovaAssumption
<1> QED
  BY <1>1, <1>2, <1>5, <1>6, <1>7, MoveAll

\* What a thread inside a call knows of it.
LEMMA Inside ==
    ASSUME IInv, NEW t \in Thread, th[t].pc # "idle", NEW k \in Call, th[t].call = k
    PROVE  /\ k # None /\ call[k] \in CallType /\ th[t] \in ThType
           /\ ThreadOf(t) /\ CallOf(k)
           /\ call \in [Call -> CallType] /\ th \in [Thread -> ThType]
           /\ bits \in [Pt -> SUBSET Page] /\ last \in [Pt -> Page] /\ cookie \in CookieType
           /\ Serial => SerialInv /\ Alone(t) /\ StepOf(t)
<1>1. call \in [Call -> CallType] /\ th \in [Thread -> ThType] /\ bits \in [Pt -> SUBSET Page]
      /\ last \in [Pt -> Page] /\ cookie \in CookieType
  BY DEF IInv, TypeOK, CallType, ThType, CookieType
<1>3. Serial => SerialInv /\ Alone(t)
  BY SerialAlone
<1>4. Serial => StepOf(t)
  BY <1>3 DEF SerialInv
<1> QED
  BY <1>1, <1>3, <1>4, IovaAssumption DEF IInv

\* bitmap_set: the range that was free is owned now.
LEMMA ReserveStep ==
    ASSUME IInv, NEW t \in Thread, NEW k \in Call, th[t].call = k, MapReserve(t)
    PROVE  IInv'
<1>1. /\ th[t].pc = "reserve" /\ Step(t, "cookie") /\ call' = call /\ cookie' = cookie
      /\ bits' = [bits EXCEPT ![call[k].pt] = @ \cup (th[t].bit .. (th[t].bit + call[k].size) - 1)]
      /\ last' = [last EXCEPT ![call[k].pt] = (th[t].bit + call[k].size) % Pages]
  BY DEF MapReserve
<1>2. /\ k # None /\ call[k] \in CallType /\ th[t] \in ThType
      /\ ThreadOf(t) /\ CallOf(k)
      /\ call \in [Call -> CallType]
      /\ bits \in [Pt -> SUBSET Page] /\ last \in [Pt -> Page] /\ cookie \in CookieType
      /\ Serial => SerialInv /\ Alone(t) /\ StepOf(t)
  BY <1>1, Inside
<1>3. /\ call[k].pt \in Pt /\ call[k].pt # None /\ th[t].bit = call[k].bit
      /\ call[k].state = "busy" /\ call[k].at.pt = None
  BY <1>1, <1>2, IovaAssumption DEF ThreadOf
<1>4. /\ call[k].bit \in Nat /\ call[k].size \in Nat /\ call[k].bit + call[k].size <= Pages
  BY <1>2, <1>3, IovaAssumption DEF CallOf, CallType, Page
<1>5. bits' = [bits EXCEPT ![call[k].pt] = @ \cup Reserved(k)] /\ Reserved(k) \subseteq Page
  <2>1. Reserved(k) = call[k].bit .. (call[k].bit + call[k].size) - 1
    BY <1>4 DEF Reserved, Run
  <2>2. Reserved(k) \subseteq Page
    BY <1>4, <2>1, IovaAssumption DEF Page
  <2>3. Reserved(k) = th[t].bit .. (th[t].bit + call[k].size) - 1
    BY <1>3, <2>1
  <2> QED
    BY <1>1, <2>2, <2>3
<1>6. bits' \in [Pt -> SUBSET Page] /\ last' \in [Pt -> Page]
  <2>1. (call[k].bit + call[k].size) % Pages \in Page
    BY <1>4, IovaAssumption DEF Page
  <2> QED
    BY <1>1, <1>2, <1>3, <1>5, <2>1
<1>7. call' = [call EXCEPT ![k] = call[k]]
  BY <1>1, <1>2
<1>8. /\ Only(t, k) /\ call'[k] = call[k] /\ th'[t].pc = "cookie" /\ th'[t].call = k
      /\ th'[t].bit = th[t].bit
  BY <1>1, <1>2, <1>7, StepOnly
<1>9. Reserved(k)' = Reserved(k)
  BY <1>8 DEF Reserved
<1>10. ThreadOf(t)' /\ CallOf(k)'
  BY <1>2, <1>3, <1>4, <1>8 DEF ThreadOf, CallOf
<1>11. ASSUME Serial PROVE SerialInv'
  <2>1. StepOf(t)'
    BY <1>8 DEF StepOf
  <2>2. k \notin Owners /\ k \in Owners'
    BY <1>1, <1>3, <1>8, SelfOwns DEF SetStates, SetPcs
  <2>3. Reserved(k) \cap bits[call[k].pt] = {}
    BY <1>1, <1>2, <1>11 DEF StepOf
  <2>4. \A j \in Call : j # k =>
           (j \in Owners' <=> j \in Owners) /\ Reserved(j)' = Reserved(j) /\ call'[j] = call[j]
    BY <1>2, <1>8, OthersOwn
  <2>5. Owners \subseteq Call /\ Owners' \subseteq Call
    BY DEF Owners, Kgsl
  <2>6. BitsOwned'
    <3> SUFFICES ASSUME NEW pt \in Pt, NEW p \in Page
                 PROVE  p \in bits'[pt] <=>
                           \E o \in Owners' : call'[o].pt = pt /\ p \in Reserved(o)'
      BY DEF BitsOwned
    <3>1. p \in bits[pt] <=> \E o \in Owners : call[o].pt = pt /\ p \in Reserved(o)
      BY <1>2, <1>11 DEF SerialInv, BitsOwned
    <3>2. p \in bits'[pt] <=> p \in bits[pt] \/ (pt = call[k].pt /\ p \in Reserved(k))
      BY <1>2, <1>5
    <3>3. (\E o \in Owners' : call'[o].pt = pt /\ p \in Reserved(o)') <=>
             \/ \E o \in Owners : call[o].pt = pt /\ p \in Reserved(o)
             \/ call[k].pt = pt /\ p \in Reserved(k)
      BY <1>2, <1>8, <1>9, <2>2, <2>4, <2>5
    <3> QED
      BY <3>1, <3>2, <3>3
  <2>7. OwnersApart'
    <3>1. ASSUME NEW o \in Owners, call[o].pt = call[k].pt PROVE Reserved(o) \cap Reserved(k) = {}
      <4>1. Reserved(o) \cap Page \subseteq bits[call[k].pt]
        BY <1>2, <1>3, <1>11, <3>1 DEF SerialInv, BitsOwned
      <4> QED
        BY <1>5, <2>3, <4>1
    <3> QED
      BY <1>2, <1>8, <1>9, <1>11, <2>2, <2>4, <2>5, <3>1 DEF SerialInv, OwnersApart
  <2> QED
    BY <1>2, <1>3, <1>8, <1>11, <2>1, <2>6, <2>7, MoveSerial
<1> QED
  BY <1>1, <1>2, <1>6, <1>8, <1>10, <1>11, MoveAll

\* set_map_iova
LEMMA CookieStep ==
    ASSUME IInv, NEW t \in Thread, NEW k \in Call, th[t].call = k, MapCookie(t)
    PROVE  IInv'
<1>1. /\ th[t].pc = "cookie" /\ Step(t, "alloc") /\ UNCHANGED <<bits, last, call>>
      /\ cookie' = [type |-> "msi", at |-> Addr(call[k].pt, th[t].bit)]
  BY DEF MapCookie
<1>2. /\ k # None /\ call[k] \in CallType /\ th[t] \in ThType
      /\ ThreadOf(t) /\ CallOf(k)
      /\ call \in [Call -> CallType]
      /\ bits \in [Pt -> SUBSET Page] /\ last \in [Pt -> Page]
      /\ Serial => SerialInv /\ Alone(t) /\ StepOf(t)
  BY <1>1, Inside
<1>3. /\ call[k].pt \in Pt /\ call[k].pt # None /\ th[t].bit = call[k].bit
      /\ call[k].state = "busy" /\ call[k].at.pt = None
  BY <1>1, <1>2, IovaAssumption DEF ThreadOf
<1>4. cookie' \in CookieType
  BY <1>1, <1>2, <1>3, IovaAssumption DEF CookieType, Addr, Addrs, ThType, Page
<1>5. call' = [call EXCEPT ![k] = call[k]]
  BY <1>1, <1>2
<1>6. /\ Only(t, k) /\ call'[k] = call[k] /\ th'[t].pc = "alloc" /\ th'[t].call = k
  BY <1>1, <1>2, <1>5, StepOnly
<1>7. Reserved(k)' = Reserved(k)
  BY <1>6 DEF Reserved
<1>8. ThreadOf(t)' /\ CallOf(k)'
  BY <1>2, <1>3, <1>6 DEF ThreadOf, CallOf
<1>9. ASSUME Serial PROVE SerialInv'
  <2>1. StepOf(t)'
    BY <1>1, <1>3, <1>6 DEF StepOf
  <2>2. k \in Owners /\ k \in Owners'
    BY <1>1, <1>3, <1>6, SelfOwns DEF SetStates, SetPcs
  <2>3. BitsOwned' /\ OwnersApart'
    BY <1>1, <1>2, <1>6, <1>7, <1>9, <2>2, KeepBits
  <2> QED
    BY <1>2, <1>3, <1>6, <1>9, <2>1, <2>3, MoveSerial
<1> QED
  BY <1>1, <1>2, <1>4, <1>6, <1>8, <1>9, MoveAll

\* A call fails after bitmap_set, and its bits stay set.
LEMMA FailStep ==
    ASSUME IInv, NEW t \in Thread, NEW k \in Call, th[t].call = k, MapFail(t) \/ MapUndo(t)
    PROVE  IInv'
<1>1. /\ th[t].pc \in {"cookie", "alloc", "copy"} /\ Finish(t, "lost") /\ UNCHANGED <<bits, last>>
      /\ cookie' = cookie \/ FreeIova(call[k].size)
  BY DEF MapFail, MapUndo
<1>2. /\ k # None /\ call[k] \in CallType /\ th[t] \in ThType
      /\ ThreadOf(t) /\ CallOf(k)
      /\ bits \in [Pt -> SUBSET Page] /\ last \in [Pt -> Page] /\ cookie \in CookieType
      /\ Serial => SerialInv /\ Alone(t) /\ StepOf(t)
  BY <1>1, Inside
<1>3. call[k].state \in {"busy", "live"} /\ (th[t].pc = "copy" => call[k].state = "live")
  BY <1>1, <1>2 DEF ThreadOf
<1>4. cookie' \in CookieType
  <2>1. call[k].size \in Int
    BY <1>2, IovaAssumption DEF CallType
  <2> QED
    BY <1>1, <1>2, <2>1, CookieMoves
<1>5. /\ Only(t, k) /\ th'[t].pc = "idle" /\ th'[t].call = None /\ call'[k].state = "lost"
      /\ call'[k].pt = call[k].pt /\ call'[k].bit = call[k].bit
      /\ call'[k].size = call[k].size /\ call'[k].at = call[k].at
  <2>1. "lost" \in CallStates /\ th[t].pc # "idle"
    BY <1>1 DEF CallStates
  <2> QED
    BY <1>1, <2>1, FinishOnly
<1>6. Reserved(k)' = Reserved(k)
  BY <1>5 DEF Reserved
<1>7. ThreadOf(t)' /\ CallOf(k)'
  BY <1>2, <1>5 DEF ThreadOf, CallOf
<1>8. ASSUME Serial PROVE SerialInv'
  <2>1. StepOf(t)'
    BY <1>5 DEF StepOf
  <2>2. k \in Owners' <=> k \in Owners
    BY <1>1, <1>2, <1>3, <1>5, SelfOwns DEF SetStates, SetPcs
  <2>3. BitsOwned' /\ OwnersApart'
    BY <1>1, <1>2, <1>5, <1>6, <1>8, <2>2, KeepBits
  <2> QED
    BY <1>2, <1>5, <1>8, <2>1, <2>3, MoveSerial
<1> QED
  BY <1>1, <1>2, <1>4, <1>5, <1>7, <1>8, MoveAll

\* The DMA layer takes an address, from the cookie if it has been set.
LEMMA AllocStep ==
    ASSUME IInv, NEW t \in Thread, NEW k \in Call, th[t].call = k, MapAlloc(t)
    PROVE  IInv'
<1>1. /\ th[t].pc = "alloc" /\ Step(t, "map") /\ UNCHANGED <<bits, last>>
      /\ Advance(call[k].size) /\ call' = [call EXCEPT ![k].at = AllocAt(k)]
  BY DEF MapAlloc
<1>2. /\ k # None /\ call[k] \in CallType /\ th[t] \in ThType
      /\ ThreadOf(t) /\ CallOf(k)
      /\ call \in [Call -> CallType]
      /\ bits \in [Pt -> SUBSET Page] /\ last \in [Pt -> Page]
      /\ Serial => SerialInv /\ Alone(t) /\ StepOf(t)
  BY <1>1, Inside
<1>3. call[k].state = "busy" /\ call[k].at.pt = None
  BY <1>1, <1>2 DEF ThreadOf
<1>4. call[k].size \in Int /\ cookie' \in CookieType /\ AllocAt(k) \in Addrs
  <2>1. call[k].size \in Int
    BY <1>2, IovaAssumption DEF CallType
  <2> QED
    BY <1>1, <2>1, CookieMoves
<1>5. PICK c \in CallType :
         /\ call' = [call EXCEPT ![k] = c]
         /\ c.state = "busy" /\ c.pt = call[k].pt /\ c.bit = call[k].bit
         /\ c.size = call[k].size /\ c.at = AllocAt(k)
  <2> DEFINE c == [call[k] EXCEPT !.at = AllocAt(k)]
  <2>1. call' = [call EXCEPT ![k] = c]
    BY <1>1
  <2>2. /\ c \in CallType /\ c.state = "busy" /\ c.pt = call[k].pt /\ c.bit = call[k].bit
        /\ c.size = call[k].size /\ c.at = AllocAt(k)
    BY <1>2, <1>3, <1>4 DEF CallType
  <2> HIDE DEF c
  <2> QED
    BY <2>1, <2>2
<1>6. Only(t, k) /\ call'[k] = c /\ th'[t].pc = "map" /\ th'[t].call = k
  BY <1>1, <1>5, StepOnly
<1>7. Reserved(k)' = Reserved(k)
  BY <1>5, <1>6 DEF Reserved
<1>8. ThreadOf(t)' /\ CallOf(k)'
  BY <1>2, <1>5, <1>6 DEF ThreadOf, CallOf
<1>9. ASSUME Serial PROVE SerialInv'
  <2>1. StepOf(t)'
    <3>1. call[k].pt # None => AllocAt(k) = Addr(call[k].pt, call[k].bit)
      BY <1>1, <1>2, <1>9 DEF StepOf, AllocAt
    <3> QED
      BY <1>5, <1>6, <3>1 DEF StepOf, AtItsBit
  <2>2. k \in Owners' <=> k \in Owners
    BY <1>1, <1>3, <1>5, <1>6, SelfOwns DEF SetStates, SetPcs
  <2>3. BitsOwned' /\ OwnersApart'
    BY <1>1, <1>2, <1>5, <1>6, <1>7, <1>9, <2>2, KeepBits
  <2> QED
    BY <1>2, <1>3, <1>5, <1>6, <1>9, <2>1, <2>3, MoveSerial, IovaAssumption
<1> QED
  BY <1>1, <1>2, <1>4, <1>6, <1>8, <1>9, MoveAll

\* The pages are mapped.
LEMMA TableStep ==
    ASSUME IInv, NEW t \in Thread, NEW k \in Call, th[t].call = k, MapTable(t)
    PROVE  IInv'
<1>1. /\ th[t].pc = "map" /\ Step(t, "copy") /\ UNCHANGED <<bits, last, cookie>>
      /\ call' = [call EXCEPT ![k].state = "live"]
  BY DEF MapTable
<1>2. /\ k # None /\ call[k] \in CallType /\ th[t] \in ThType
      /\ ThreadOf(t) /\ CallOf(k)
      /\ call \in [Call -> CallType]
      /\ bits \in [Pt -> SUBSET Page] /\ last \in [Pt -> Page] /\ cookie \in CookieType
      /\ Serial => SerialInv /\ Alone(t) /\ StepOf(t)
  BY <1>1, Inside
<1>3. call[k].state = "busy"
  BY <1>1, <1>2 DEF ThreadOf
<1>4. PICK c \in CallType :
         /\ call' = [call EXCEPT ![k] = c]
         /\ c.state = "live" /\ c.pt = call[k].pt /\ c.bit = call[k].bit
         /\ c.size = call[k].size /\ c.at = call[k].at
  <2> DEFINE c == [call[k] EXCEPT !.state = "live"]
  <2>1. call' = [call EXCEPT ![k] = c]
    BY <1>1
  <2>2. /\ c \in CallType /\ c.state = "live" /\ c.pt = call[k].pt /\ c.bit = call[k].bit
        /\ c.size = call[k].size /\ c.at = call[k].at
    BY <1>2 DEF CallType
  <2> HIDE DEF c
  <2> QED
    BY <2>1, <2>2
<1>5. Only(t, k) /\ call'[k] = c /\ th'[t].pc = "copy" /\ th'[t].call = k
  BY <1>1, <1>4, StepOnly
<1>6. Reserved(k)' = Reserved(k)
  BY <1>4, <1>5 DEF Reserved
<1>7. ThreadOf(t)' /\ CallOf(k)'
  BY <1>2, <1>4, <1>5 DEF ThreadOf, CallOf
<1>8. ASSUME Serial PROVE SerialInv'
  <2>1. StepOf(t)'
    BY <1>5 DEF StepOf
  <2>2. k \in Owners' <=> k \in Owners
    BY <1>1, <1>3, <1>4, <1>5, SelfOwns DEF SetStates, SetPcs
  <2>3. BitsOwned' /\ OwnersApart'
    BY <1>1, <1>2, <1>4, <1>5, <1>6, <1>8, <2>2, KeepBits
  <2>4. call'[k].pt # None => AtItsBit(k)'
    BY <1>1, <1>2, <1>4, <1>5, <1>8 DEF StepOf, AtItsBit
  <2> QED
    BY <1>2, <1>4, <1>5, <1>8, <2>1, <2>3, <2>4, MoveSerial
<1> QED
  BY <1>1, <1>2, <1>5, <1>7, <1>8, MoveAll

\* With one call at a time a KGSL call collides with ordinary mappings only.
LEMMA CollidesWithStray ==
    ASSUME IInv, Serial, NEW t \in Thread, th[t].pc = "map", NEW k \in Call, th[t].call = k,
           call[k].pt # None, Collides(k)
    PROVE  Strays # {}
<1>1. SerialInv /\ Alone(t) /\ StepOf(t) /\ call[k] \in CallType /\ call[k].pt \in Pt
  BY Inside DEF CallType
<1>2. AtItsBit(k)
  BY <1>1 DEF StepOf
<1>3. PICK o \in Present : Mapped(o) \cap Mapped(k) # {}
  BY DEF Collides
<1>4. PICK a : a \in Mapped(o) /\ a \in Mapped(k)
  BY <1>3
<1>5. /\ o \in Call /\ call[o].state \in {"live", "unmapping"} /\ call[o] \in CallType
      /\ call[o].at \in Addrs
  BY DEF Present, IInv, TypeOK, CallType
<1>6. PICK p \in call[k].at.page .. call[k].at.page + call[k].size - 1 :
         a = Addr(call[k].at.pt, p)
  BY <1>4 DEF Mapped, Range
<1>7. PICK q \in call[o].at.page .. call[o].at.page + call[o].size - 1 :
         a = Addr(call[o].at.pt, q)
  BY <1>4 DEF Mapped, Range
<1>8. call[o].at.pt = call[k].at.pt /\ p = q
  BY <1>6, <1>7 DEF Addr
<1>9. call[k].at.pt = call[k].pt /\ call[k].at.page = call[k].bit
  BY <1>2 DEF AtItsBit, Addr
<1>10. CASE call[o].pt = None
  BY <1>1, <1>5, <1>8, <1>9, <1>10 DEF Strays, Kgsl
<1>11. CASE call[o].pt # None
  <2>1. call[o].state = "live"
    <3> SUFFICES ASSUME call[o].state = "unmapping" PROVE FALSE
      BY <1>5
    <3>1. PICK u \in Thread : th[u].pc = "unmap"
      BY <1>5 DEF IInv, CallOf
    <3> QED
      BY <1>1, <3>1 DEF Alone
  <2>2. o \in Owners /\ k \in Owners
    BY <1>1, <1>5, <1>11, <2>1 DEF Owners, Kgsl
  <2>3. o # k
    BY <1>1, <2>1, Inside DEF ThreadOf
  <2>4. call[o].at = Addr(call[o].pt, call[o].bit)
    BY <1>1, <1>5, <1>11 DEF SerialInv, AtReserved, Kgsl, Present
  <2>5. call[o].at.pt = call[o].pt /\ call[o].at.page = call[o].bit
    BY <2>4 DEF Addr
  <2>6. p \in Reserved(k) /\ p \in Reserved(o)
    BY <1>6, <1>7, <1>8, <1>9, <2>5 DEF Reserved, Run
  <2> QED
    BY <1>1, <1>8, <1>9, <2>2, <2>3, <2>5, <2>6 DEF SerialInv, OwnersApart
<1> QED
  BY <1>10, <1>11

\* iommu_map refuses: the address goes back.
LEMMA CollideStep ==
    ASSUME IInv, NEW t \in Thread, NEW k \in Call, th[t].call = k, MapCollide(t)
    PROVE  IInv'
<1>1. /\ th[t].pc = "map" /\ Collides(k) /\ FreeIova(call[k].size)
      /\ Finish(t, "collided") /\ UNCHANGED <<bits, last>>
  BY DEF MapCollide
<1>2. /\ k # None /\ call[k] \in CallType /\ th[t] \in ThType
      /\ ThreadOf(t) /\ CallOf(k)
      /\ bits \in [Pt -> SUBSET Page] /\ last \in [Pt -> Page]
      /\ Serial => SerialInv /\ Alone(t) /\ StepOf(t)
  BY <1>1, Inside
<1>3. cookie' \in CookieType
  <2>1. call[k].size \in Int
    BY <1>2, IovaAssumption DEF CallType
  <2> QED
    BY <1>1, <2>1, CookieMoves
<1>4. /\ Only(t, k) /\ th'[t].pc = "idle" /\ th'[t].call = None /\ call'[k].state = "collided"
      /\ call'[k].pt = call[k].pt /\ call'[k].bit = call[k].bit
      /\ call'[k].size = call[k].size /\ call'[k].at = call[k].at
  <2>1. "collided" \in CallStates /\ th[t].pc # "idle"
    BY <1>1 DEF CallStates
  <2> QED
    BY <1>1, <2>1, FinishOnly
<1>5. Reserved(k)' = Reserved(k)
  BY <1>4 DEF Reserved
<1>6. ThreadOf(t)' /\ CallOf(k)'
  BY <1>2, <1>4 DEF ThreadOf, CallOf
<1>7. ASSUME Serial PROVE SerialInv'
  <2>1. StepOf(t)'
    BY <1>4 DEF StepOf
  <2>2. k \in Owners' <=> k \in Owners
    BY <1>1, <1>4, SelfOwns DEF SetStates, SetPcs
  <2>3. BitsOwned' /\ OwnersApart'
    BY <1>1, <1>2, <1>4, <1>5, <1>7, <2>2, KeepBits
  <2>4. call[k].pt # None => Strays # {}
    BY <1>1, <1>7, CollidesWithStray
  <2> QED
    BY <1>2, <1>4, <1>7, <2>1, <2>3, <2>4, MoveSerial
<1> QED
  BY <1>1, <1>2, <1>3, <1>4, <1>6, <1>7, MoveAll

\* The map call returns.
LEMMA ReturnStep ==
    ASSUME IInv, NEW t \in Thread, NEW k \in Call, th[t].call = k, MapReturn(t)
    PROVE  IInv'
<1>1. th[t].pc = "copy" /\ th' = [th EXCEPT ![t] = Idle] /\ UNCHANGED <<bits, last, cookie, call>>
  BY DEF MapReturn
<1>2. /\ k # None /\ call[k] \in CallType /\ th[t] \in ThType
      /\ ThreadOf(t) /\ CallOf(k)
      /\ bits \in [Pt -> SUBSET Page] /\ last \in [Pt -> Page] /\ cookie \in CookieType
      /\ Serial => SerialInv /\ Alone(t) /\ StepOf(t)
  BY <1>1, Inside
<1>3. call[k].state = "live"
  BY <1>1, <1>2 DEF ThreadOf
<1>4. Finish(t, "live")
  <2>1. [call[k] EXCEPT !.state = "live"] = call[k] /\ call \in [Call -> CallType]
    BY <1>2, <1>3 DEF CallType, IInv, TypeOK
  <2>2. call' = [call EXCEPT ![k].state = "live"]
    BY <1>1, <2>1
  <2> QED
    BY <1>1, <2>2 DEF Finish
<1>5. /\ Only(t, k) /\ th'[t].pc = "idle" /\ th'[t].call = None /\ call'[k] = call[k]
  <2>1. "live" \in CallStates /\ th[t].pc # "idle"
    BY <1>1 DEF CallStates
  <2>2. Only(t, k) /\ th'[t].pc = "idle" /\ th'[t].call = None
    BY <1>4, <2>1, FinishOnly
  <2> QED
    BY <1>1, <2>2
<1>6. Reserved(k)' = Reserved(k)
  BY <1>5 DEF Reserved
<1>7. ThreadOf(t)' /\ CallOf(k)'
  BY <1>2, <1>3, <1>5 DEF ThreadOf, CallOf
<1>8. ASSUME Serial PROVE SerialInv'
  <2>1. StepOf(t)'
    BY <1>5 DEF StepOf
  <2>2. k \in Owners' <=> k \in Owners
    BY <1>1, <1>3, <1>5, SelfOwns DEF SetStates, SetPcs
  <2>3. BitsOwned' /\ OwnersApart'
    BY <1>1, <1>2, <1>5, <1>6, <1>8, <2>2, KeepBits
  <2>4. call[k].pt # None => AtItsBit(k)
    BY <1>2, <1>3, <1>8 DEF SerialInv, AtReserved, Kgsl, Present, AtItsBit
  <2>5. call'[k].pt # None => AtItsBit(k)'
    BY <1>5, <2>4 DEF AtItsBit
  <2> QED
    BY <1>2, <1>3, <1>5, <1>8, <2>1, <2>3, <2>5, MoveSerial
<1> QED
  BY <1>1, <1>2, <1>5, <1>7, <1>8, MoveAll

\* The pages are unmapped, and the address goes back.
LEMMA UnmapStep ==
    ASSUME IInv, NEW t \in Thread, NEW k \in Call, th[t].call = k, UnmapTable(t)
    PROVE  IInv'
<1>1. /\ th[t].pc = "unmap" /\ FreeIova(call[k].size) /\ Finish(t, "done")
      /\ UNCHANGED <<bits, last>>
  BY DEF UnmapTable
<1>2. /\ k # None /\ call[k] \in CallType /\ th[t] \in ThType
      /\ ThreadOf(t) /\ CallOf(k)
      /\ bits \in [Pt -> SUBSET Page] /\ last \in [Pt -> Page]
      /\ Serial => SerialInv /\ Alone(t) /\ StepOf(t)
  BY <1>1, Inside
<1>3. call[k].state = "unmapping" /\ cookie' \in CookieType
  <2>1. call[k].size \in Int
    BY <1>2, IovaAssumption DEF CallType
  <2> QED
    BY <1>1, <1>2, <2>1, CookieMoves DEF ThreadOf
<1>4. /\ Only(t, k) /\ th'[t].pc = "idle" /\ th'[t].call = None /\ call'[k].state = "done"
      /\ call'[k].pt = call[k].pt /\ call'[k].bit = call[k].bit
      /\ call'[k].size = call[k].size /\ call'[k].at = call[k].at
  <2>1. "done" \in CallStates /\ th[t].pc # "idle"
    BY <1>1 DEF CallStates
  <2> QED
    BY <1>1, <2>1, FinishOnly
<1>5. ThreadOf(t)' /\ CallOf(k)'
  BY <1>2, <1>4 DEF ThreadOf, CallOf
<1>6. ASSUME Serial PROVE SerialInv'
  <2>1. StepOf(t)'
    BY <1>4 DEF StepOf
  <2>2. k \notin Owners' /\ k \notin Owners
    BY <1>1, <1>3, <1>4, SelfOwns DEF SetStates, SetPcs
  <2>3. BitsOwned' /\ OwnersApart'
    BY <1>1, <1>2, <1>4, <1>6, <2>2, KeepBits
  <2> QED
    BY <1>2, <1>4, <1>6, <2>1, <2>3, MoveSerial
<1> QED
  BY <1>1, <1>2, <1>3, <1>4, <1>5, <1>6, MoveAll

\* clear_map_iova: the range of the call is free again.
LEMMA ClearStep ==
    ASSUME IInv, NEW t \in Thread, NEW k \in Call, UnmapClear(t, k)
    PROVE  IInv'
<1>1. /\ CanStart(t) /\ th[t].pc = "idle" /\ call[k].state = "live"
      /\ \A u \in Thread : th[u].call # k
      /\ UNCHANGED <<last, cookie>>
      /\ call' = [call EXCEPT ![k].state = "unmapping"]
      /\ th' = [th EXCEPT ![t] = [pc |-> "unmap", call |-> k, bit |-> 0]]
  BY DEF UnmapClear, CanStart
<1>2. \/ /\ call[k].at.pt = call[k].pt /\ call[k].at.pt \in Pt
         /\ bits' = [bits EXCEPT ![call[k].at.pt] =
                        bits[call[k].at.pt] \ Run(call[k].at.page, call[k].size)]
      \/ /\ ~(call[k].at.pt = call[k].pt /\ call[k].at.pt \in Pt)
         /\ bits' = bits
  BY DEF UnmapClear
<1>3. /\ k # None /\ call[k] \in CallType /\ CallOf(k) /\ call \in [Call -> CallType]
      /\ bits \in [Pt -> SUBSET Page] /\ last \in [Pt -> Page] /\ cookie \in CookieType
      /\ th \in [Thread -> ThType]
  BY IovaAssumption DEF IInv, TypeOK, CallType, ThType, CookieType
<1>4. PICK r \in ThType, c \in CallType :
         /\ th' = [th EXCEPT ![t] = r] /\ call' = [call EXCEPT ![k] = c]
         /\ r.pc = "unmap" /\ r.call = k
         /\ c.state = "unmapping" /\ c.pt = call[k].pt /\ c.bit = call[k].bit
         /\ c.size = call[k].size /\ c.at = call[k].at
  <2> DEFINE r == [pc |-> "unmap", call |-> k, bit |-> 0]
             c == [call[k] EXCEPT !.state = "unmapping"]
  <2>1. th' = [th EXCEPT ![t] = r] /\ call' = [call EXCEPT ![k] = c]
    BY <1>1
  <2>2. r \in ThType /\ r.pc = "unmap" /\ r.call = k
    BY IovaAssumption DEF ThType, Page
  <2>3. /\ c \in CallType /\ c.state = "unmapping" /\ c.pt = call[k].pt /\ c.bit = call[k].bit
        /\ c.size = call[k].size /\ c.at = call[k].at
    BY <1>3 DEF CallType
  <2> HIDE DEF r, c
  <2> QED
    BY <2>1, <2>2, <2>3
<1>5. Only(t, k) /\ th'[t] = r /\ call'[k] = c /\ th[t].call = None
  <2>1. r.call \in {k, None} /\ th' = [th EXCEPT ![t] = r] /\ call' = [call EXCEPT ![k] = c]
    BY <1>4
  <2>2. th[t].pc = "idle" /\ \A u \in Thread : th[u].call # k
    BY <1>1
  <2> QED
    BY <2>1, <2>2, EnterOnly
<1>6. bits' \in [Pt -> SUBSET Page]
  BY <1>2, <1>3
<1>7. Reserved(k)' = Reserved(k)
  BY <1>4, <1>5 DEF Reserved
<1>8. ThreadOf(t)' /\ CallOf(k)'
  BY <1>3, <1>4, <1>5 DEF ThreadOf, CallOf
<1>9. ASSUME Serial PROVE SerialInv'
  <2>1. Alone(t) /\ SerialInv
    BY <1>1, <1>9, SerialAlone
  <2>2. StepOf(t)'
    BY <1>4, <1>5 DEF StepOf
  <2>3. call[k].pt # None => AtItsBit(k)
    BY <1>1, <2>1 DEF SerialInv, AtReserved, Kgsl, Present, AtItsBit
  <2>4. k \notin Owners' /\ (k \in Owners <=> call[k].pt # None)
    BY <1>1, <1>4, <1>5, SelfOwns DEF SetStates, SetPcs
  <2>5. CASE call[k].pt = None
    <3>1. bits' = bits /\ k \notin Owners
      BY <1>2, <2>4, <2>5, IovaAssumption
    <3> QED
      BY <1>3, <1>4, <1>5, <2>1, <2>2, <2>4, <2>5, <3>1, KeepBits, MoveSerial
  <2>6. CASE call[k].pt # None
    <3>1. call[k].pt \in Pt /\ call[k].at.pt = call[k].pt /\ call[k].at.page = call[k].bit
      BY <1>3, <2>3, <2>6 DEF AtItsBit, Addr, CallType
    <3>2. bits' = [bits EXCEPT ![call[k].pt] = bits[call[k].pt] \ Reserved(k)]
      BY <1>2, <3>1 DEF Reserved
    <3>3. \A j \in Call : j # k =>
             (j \in Owners' <=> j \in Owners) /\ Reserved(j)' = Reserved(j) /\ call'[j] = call[j]
      BY <1>5, OthersOwn
    <3>4. Owners \subseteq Call /\ Owners' \subseteq Call /\ k \in Owners
      BY <2>4, <2>6 DEF Owners, Kgsl
    <3>5. BitsOwned'
      <4> SUFFICES ASSUME NEW pt \in Pt, NEW p \in Page
                   PROVE  p \in bits'[pt] <=>
                             \E o \in Owners' : call'[o].pt = pt /\ p \in Reserved(o)'
        BY DEF BitsOwned
      <4>1. p \in bits[pt] <=> \E o \in Owners : call[o].pt = pt /\ p \in Reserved(o)
        BY <2>1 DEF SerialInv, BitsOwned
      <4>2. p \in bits'[pt] <=> p \in bits[pt] /\ ~(pt = call[k].pt /\ p \in Reserved(k))
        BY <1>3, <3>2
      <4>3. ASSUME NEW o \in Owners, o # k, call[o].pt = call[k].pt, p \in Reserved(o)
            PROVE  p \notin Reserved(k)
        BY <2>1, <3>4, <4>3 DEF SerialInv, OwnersApart
      <4>4. (\E o \in Owners' : call'[o].pt = pt /\ p \in Reserved(o)') <=>
               \E o \in Owners \ {k} : call[o].pt = pt /\ p \in Reserved(o)
        BY <2>4, <3>3, <3>4
      <4> QED
        BY <3>4, <4>1, <4>2, <4>3, <4>4
    <3>6. OwnersApart'
      BY <2>1, <2>4, <3>3, <3>4 DEF SerialInv, OwnersApart
    <3>7. AtItsBit(k)'
      BY <1>4, <1>5, <2>3, <2>6 DEF AtItsBit
    <3> QED
      BY <1>3, <1>4, <1>5, <2>1, <2>2, <2>6, <3>5, <3>6, <3>7, MoveSerial
  <2> QED
    BY <2>5, <2>6
<1> QED
  BY <1>1, <1>3, <1>5, <1>6, <1>8, <1>9, MoveAll

\* A change of the cookie that concerns no call, or none at all.
LEMMA CookieAlone ==
    ASSUME IInv, UNCHANGED <<bits, last, call, th>>,
           \/ cookie' = cookie
           \/ cookie' \in CookieType /\ \E t \in Thread : CanStart(t)
    PROVE  IInv'
<1>1. TypeOK'
  BY DEF IInv, TypeOK, CookieType
<1>2. (\A t \in Thread : ThreadOf(t)') /\ (\A k \in Call : CallOf(k)') /\ OwnThread'
  BY DEF IInv, ThreadOf, CallOf, OwnThread
<1>3. ASSUME Serial PROVE SerialInv'
  <2>1. SerialInv
    BY <1>3 DEF IInv
  <2>2. \A t \in Thread : StepOf(t)'
    <3>1. CASE cookie' = cookie
      BY <2>1, <3>1 DEF SerialInv, StepOf, Reserved, AtItsBit
    <3>2. CASE \E t \in Thread : CanStart(t)
      BY <1>3, <3>2 DEF CanStart, StepOf
    <3> QED
      BY <3>1, <3>2
  <2>3. Owners' = Owners /\ Kgsl' = Kgsl /\ Present' = Present /\ Strays' = Strays
    BY DEF Owners, Kgsl, Present, Strays
  <2>4. \A k \in Call : Reserved(k)' = Reserved(k)
    BY DEF Reserved
  <2>5. Owners \subseteq Call
    BY DEF Owners, Kgsl
  <2>6. BitsOwned' /\ OwnersApart'
    BY <2>1, <2>3, <2>4, <2>5 DEF SerialInv, BitsOwned, OwnersApart
  <2>7. OneAtATime' /\ AtReserved'
    BY <2>1, <2>3 DEF SerialInv, OneAtATime, AtReserved
  <2> QED
    BY <2>1, <2>2, <2>3, <2>6, <2>7 DEF SerialInv
<1> QED
  BY <1>1, <1>2, <1>3 DEF IInv

\* kiumd_iova_ctrl
LEMMA CtrlStep ==
    ASSUME IInv, NEW t \in Thread,
           (\E pt \in Pt, p \in Page : IovaSet(t, pt, p)) \/ IovaClear(t)
    PROVE  IInv'
<1>1. UNCHANGED <<bits, last, call, th>> /\ CanStart(t)
  BY DEF IovaSet, IovaClear
<1>2. cookie' \in CookieType
  BY IovaAssumption DEF IovaSet, IovaClear, CookieType, Addr, Addrs, Page
<1> QED
  BY <1>1, <1>2, CookieAlone

\* Every step keeps the invariant.
LEMMA StepKeeps == IInv /\ [Next]_vars => IInv'
<1> SUFFICES ASSUME IInv, [Next]_vars PROVE IInv'
  OBVIOUS
<1>1. CASE UNCHANGED vars
  BY <1>1, CookieAlone DEF vars
<1>2. ASSUME NEW t \in Thread, NEW k \in Call, NEW pt \in Pt, NEW n \in 1 .. MaxSize,
             MapFind(t, k, pt, n) \/ MapNoSpace(t, k, pt, n)
      PROVE  IInv'
  BY <1>2, FindStep, StartStep
<1>3. ASSUME NEW t \in Thread, NEW k \in Call, NEW n \in 1 .. MaxSize, MapPlain(t, k, n)
      PROVE  IInv'
  BY <1>3, StartStep
<1>4. ASSUME NEW t \in Thread,
             \/ MapReserve(t) \/ MapCookie(t) \/ MapFail(t) \/ MapAlloc(t) \/ MapTable(t)
             \/ MapCollide(t) \/ MapReturn(t) \/ MapUndo(t) \/ UnmapTable(t)
      PROVE  IInv'
  <2>1. th[t].pc # "idle"
    BY <1>4 DEF MapReserve, MapCookie, MapFail, MapAlloc, MapTable, MapCollide, MapReturn, MapUndo,
                UnmapTable
  <2>2. PICK k \in Call : th[t].call = k
    BY <2>1, Working
  <2> QED
    BY <1>4, <2>2, ReserveStep, CookieStep, FailStep, AllocStep, TableStep, CollideStep,
       ReturnStep, UnmapStep
<1>5. ASSUME NEW t \in Thread, NEW k \in Call, UnmapClear(t, k)
      PROVE  IInv'
  BY <1>5, ClearStep
<1>6. ASSUME NEW t \in Thread, (\E pt \in Pt, p \in Page : IovaSet(t, pt, p)) \/ IovaClear(t)
      PROVE  IInv'
  BY <1>6, CtrlStep
<1> QED
  BY <1>1, <1>2, <1>3, <1>4, <1>5, <1>6 DEF Next

\* The invariant holds in every behaviour.
THEOREM Invariance == Spec => []IInv
<1> QED
  BY Initial, StepKeeps, PTL DEF Spec

(* get_map_offset, set_map_iova and the DMA layer: with one call at a time a       *)
(* KGSL buffer is mapped at the range reserved for it, whatever the device is used    *)
(* for in between, and KGSL calls do not run into one another, although unmap gives    *)
(* the range back before the pages are unmapped.                                        *)
THEOREM KgslPlacedHolds == Spec => []KgslPlaced
<1>1. IInv => KgslPlaced
  BY DEF IInv, SerialInv, KgslPlaced, SerialAtReserved, NoCollision
<1> QED
  BY <1>1, Invariance, PTL

(* bitmap_set and bitmap_clear keep the bitmaps exact as long as calls come one     *)
(* by one: the set bits are the ranges of mappings, of calls on the way, and of        *)
(* calls that failed after bitmap_set.  get_map_offset returns a free range and says    *)
(* -ENOSPC only when there is none, whoever races with it.                              *)
THEOREM BitmapInvHolds == Spec => []BitmapInv
<1>1. IInv => BitmapInv
  <2> SUFFICES ASSUME IInv PROVE BitmapInv
    OBVIOUS
  <2>1. TypeOK
    BY DEF IInv
  <2>2. BitsAccounted
    <3> SUFFICES ASSUME Serial, NEW pt \in Pt
                 PROVE  bits[pt] = UNION {Reserved(k) : k \in {o \in Owners : call[o].pt = pt}}
      BY DEF BitsAccounted
    <3>1. BitsOwned /\ bits[pt] \subseteq Page
      BY <2>1 DEF IInv, SerialInv, TypeOK
    <3>2. \A k \in Owners : Reserved(k) \subseteq Page
      <4> SUFFICES ASSUME NEW k \in Owners PROVE Reserved(k) \subseteq Page
        OBVIOUS
      <4>1. k \in Call /\ call[k].pt # None
        BY DEF Owners, Kgsl
      <4>2. call[k].bit + call[k].size <= Pages /\ call[k] \in CallType
        BY <4>1 DEF IInv, CallOf, TypeOK, CallType
      <4> QED
        BY <4>2, IovaAssumption DEF CallType, Page, Reserved, Run
    <3>3. ASSUME NEW p
          PROVE  p \in bits[pt] <=>
                    p \in UNION {Reserved(k) : k \in {o \in Owners : call[o].pt = pt}}
      BY <3>1, <3>2 DEF BitsOwned
    <3> QED
      BY <3>3
  <2>3. OffsetComplete
    <3> SUFFICES ASSUME NEW pt \in Pt, NEW n \in 1 .. MaxSize
                 PROVE  LET found == MapOffset(bits[pt], last[pt], n)
                            free == {i \in 0 .. Pages - n : Run(i, n) \cap bits[pt] = {}}
                        IN  found \subseteq free /\ (found = {} => free = {})
      BY DEF OffsetComplete
    <3>1. last[pt] \in Page
      BY <2>1 DEF TypeOK
    <3> QED
      BY <3>1, MapOffsetFree
  <2> QED
    BY <2>1, <2>2, <2>3 DEF BitmapInv
<1> QED
  BY <1>1, Invariance, PTL

=============================================================================
