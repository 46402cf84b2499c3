-------------------------------- MODULE Uscmi --------------------------------
(***************************************************************************)
(* Power requests of user space (drivers/qcom_uscmi.c).  A request tests the *)
(* status of the power domain and then changes the usage count of the device *)
(* in it.  Requests take no lock, a performance request takes and drops a     *)
(* count of its own, and the domain may have another consumer.  The device of   *)
(* user space is there before probe has taken its count.                        *)
(***************************************************************************)
EXTENDS Integers

CONSTANTS
    PdThread,   \* threads that issue ioctls
    MaxCount    \* bound on the usage count

ASSUME PdAssumption == MaxCount \in Nat \ {0}

VARIABLES
    pdUp,       \* probe has called pm_runtime_forbid
    pdMulti,    \* uscmi->pd_list is there: several domains, none held by probe
    pdCount,    \* usage count of the device in the domain
    pdHeld,     \* the domain is on without a count: refused to go off, or not yet run
    pdOther,    \* another consumer keeps the domain on
    pdCall,     \* what a thread does inside the ioctl
    pdLast,     \* history: the last power request that had an effect, and what it met
    pdOverlap   \* history: two requests were inside at once

pdVars == <<pdUp, pdMulti, pdCount, pdHeld, pdOther, pdCall, pdLast, pdOverlap>>

PdIdle == [op |-> "none", pc |-> "idle"]

\* A device is active while its count is positive; the domain is on while a
\* device in it is (external: runtime PM and genpd).
DomainOn == pdCount > 0 \/ pdHeld \/ pdOther

\* After misc_register.  The only domain was turned on when the device got it, and
\* stays on until runtime PM is enabled and idle (external).
PdInit ==
    /\ pdUp = FALSE /\ pdMulti \in BOOLEAN
    /\ pdCount = 0
    /\ pdHeld = ~pdMulti
    /\ pdOther \in BOOLEAN
    /\ pdCall = [t \in PdThread |-> PdIdle]
    /\ pdLast = "none"
    /\ pdOverlap = FALSE

\* The end of probe: pm_runtime_forbid takes a count, of the only domain there is.
PdForbid ==
    /\ ~pdUp
    /\ pdUp' = TRUE
    /\ IF pdMulti
       THEN UNCHANGED <<pdCount, pdHeld, pdLast>>
       ELSE pdCount' = pdCount + 1 /\ pdHeld' = FALSE /\ pdLast' = "on"
    /\ UNCHANGED <<pdMulti, pdOther, pdCall, pdOverlap>>

-----------------------------------------------------------------------------

PdOther ==
    /\ pdOther' = ~pdOther
    /\ UNCHANGED <<pdUp, pdMulti, pdCount, pdHeld, pdCall, pdLast, pdOverlap>>

\* A domain that refused to go off does so later.
PdSettle ==
    /\ pdUp /\ pdHeld
    /\ pdHeld' = FALSE
    /\ UNCHANGED <<pdUp, pdMulti, pdCount, pdOther, pdCall, pdLast, pdOverlap>>

PdEnter(t, state) ==
    /\ pdCall[t].pc = "idle"
    /\ pdCall' = [pdCall EXCEPT ![t] = state]
    /\ pdOverlap' = (pdOverlap \/ \E u \in PdThread : pdCall[u].pc # "idle")

PdLeave(t) == pdCall' = [pdCall EXCEPT ![t] = PdIdle]

\* pm_runtime_put_sync: a count of zero is left alone and is an error; with the
\* last count gone the device is suspended, unless that is refused.
PutSync(ok) ==
    /\ ok \/ pdCount = 1
    /\ pdCount' = IF pdCount > 0 THEN pdCount - 1 ELSE 0
    /\ pdHeld' = IF pdCount = 1 THEN ~ok ELSE pdHeld

(* Faulty variant, breaks PdInv: the count is changed whatever the status. *)
NeededAlways(op) == TRUE

\* Whether the test of the domain's status asks for a change of the count.
Needed(op) == (op = "off") = DomainOn

\* do_power_operation, a request that finds nothing to do, and succeeds.  A
\* domain that is on for somebody else only is not taken.
PdNothing(t, op) ==
    /\ ~Needed(op)
    /\ PdEnter(t, PdIdle)
    /\ pdLast' = IF op = "on" /\ pdCount = 0 THEN "borrowed" ELSE op
    /\ UNCHANGED <<pdUp, pdMulti, pdCount, pdHeld, pdOther>>

PdTest(t, op) ==
    /\ Needed(op)
    /\ PdEnter(t, [op |-> op, pc |-> "change"])
    /\ UNCHANGED <<pdUp, pdMulti, pdCount, pdHeld, pdOther, pdLast>>

\* A put that is refused fails the request with the count gone.
PdPut(t, ok) ==
    /\ pdCall[t] = [op |-> "off", pc |-> "change"]
    /\ PutSync(ok)
    /\ pdLast' = IF pdCount = 0 THEN pdLast ELSE IF ok THEN "off" ELSE "refused"
    /\ PdLeave(t)
    /\ UNCHANGED <<pdUp, pdMulti, pdOther, pdOverlap>>

PdGet(t) ==
    /\ pdCall[t] = [op |-> "on", pc |-> "change"]
    /\ pdCount < MaxCount
    /\ pdCount' = pdCount + 1
    /\ pdHeld' = FALSE
    /\ pdLast' = "on"
    /\ PdLeave(t)
    /\ UNCHANGED <<pdUp, pdMulti, pdOther, pdOverlap>>

\* pm_runtime_resume_and_get drops the count again when the resume fails.
PdGetFail(t) ==
    /\ pdCall[t].op \in {"on", "level"} /\ pdCall[t].pc = "change"
    /\ pdCount = 0 /\ ~pdHeld
    /\ PdLeave(t)
    /\ UNCHANGED <<pdUp, pdMulti, pdCount, pdHeld, pdOther, pdLast, pdOverlap>>

\* do_performance_operation, with the level set: one of several domains is
\* resumed for the level to take effect, and put.
PdLevel(t) ==
    /\ pdMulti
    /\ PdEnter(t, [op |-> "level", pc |-> "change"])
    /\ UNCHANGED <<pdUp, pdMulti, pdCount, pdHeld, pdOther, pdLast>>

PdLevelGet(t) ==
    /\ pdCall[t] = [op |-> "level", pc |-> "change"]
    /\ pdCount < MaxCount
    /\ pdCount' = pdCount + 1
    /\ pdHeld' = FALSE
    /\ pdCall' = [pdCall EXCEPT ![t].pc = "put"]
    /\ UNCHANGED <<pdUp, pdMulti, pdOther, pdLast, pdOverlap>>

PdLevelPut(t, ok) ==
    /\ pdCall[t].pc = "put"
    /\ PutSync(ok)
    /\ PdLeave(t)
    /\ UNCHANGED <<pdUp, pdMulti, pdOther, pdLast, pdOverlap>>

PdNext ==
    \/ PdForbid \/ PdOther \/ PdSettle
    \/ \E t \in PdThread :
          \/ \E op \in {"on", "off"} : PdNothing(t, op) \/ PdTest(t, op)
          \/ \E ok \in BOOLEAN : PdPut(t, ok) \/ PdLevelPut(t, ok)
          \/ PdGet(t) \/ PdGetFail(t) \/ PdLevel(t) \/ PdLevelGet(t)

PdSpec == PdInit /\ [][PdNext]_pdVars

-----------------------------------------------------------------------------

PdTypeOK ==
    /\ {pdUp, pdMulti, pdHeld, pdOther, pdOverlap} \subseteq BOOLEAN
    /\ pdCount \in 0 .. MaxCount
    /\ pdCall \in [PdThread -> [op : {"none", "on", "off", "level"},
                                pc : {"idle", "change", "put"}]]
    /\ pdLast \in {"none", "on", "off", "borrowed", "refused"}

(* As long as requests came one after the other, the count follows the last   *)
(* one that had an effect, probe's own count being the first: one after PWR_ON    *)
(* and none after PWR_OFF, whether or not the domain then refused to go off,        *)
(* however often they are repeated, whatever performance requests are in between     *)
(* and even if they came before the end of probe.  Only a PWR_ON that found the       *)
(* domain on without a count of ours keeps nothing: the domain may then go off.        *)
PdInv ==
    /\ PdTypeOK
    /\ ~pdOverlap =>
          pdCount = (IF pdLast = "on" THEN 1 ELSE 0)
                        + (IF \E t \in PdThread : pdCall[t].pc = "put" THEN 1 ELSE 0)

=============================================================================
