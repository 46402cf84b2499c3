------------------------------- MODULE ScmUser -------------------------------
(***************************************************************************)
(* Secure calls on behalf of user space (drivers/scm_user_intf.c).  One of    *)
(* them takes a dma-buf descriptor, which the driver turns into an address:    *)
(* it takes a reference, maps the buffer for a moment, puts the reference and    *)
(* makes the call.  Threads of the process may close descriptors meanwhile.     *)
(***************************************************************************)
EXTENDS Integers, FiniteSets

CONSTANTS
    ScmBuf,      \* dma-bufs
    ScmThread,   \* threads that issue the ioctl
    MaxKept,     \* bound on the references of a buffer that are never put
    ScmNone      \* no buffer

ASSUME ScmAssumption ==
    /\ IsFiniteSet(ScmThread) /\ ScmNone \notin ScmBuf
    /\ MaxKept \in Nat \ {0}

VARIABLES
    scmProbe,     \* "no", "registered" after misc_register, "done" with __scm_dev set
    scmScattered, \* buffers of more than one segment, or mapped at address 0
    scmOpen,      \* buffers whose descriptor is open; each has one
    scmRef,       \* file references of each buffer
    scmGone,      \* buffers that have been released
    scmCall,      \* what a thread does inside the ioctl
    scmKept,      \* history: references the driver did not give back
    scmClosed,    \* history: descriptors closed while a call was using them
    scmStale,     \* the secure world was given the address of a released buffer
    scmBad        \* an error pointer or a null pointer was followed

scmVars == <<scmProbe, scmScattered, scmOpen, scmRef, scmGone, scmCall, scmKept,
             scmClosed, scmStale, scmBad>>

ScmIdle == [pc |-> "idle", buf |-> ScmNone]

ScmInit ==
    /\ scmProbe = "no"
    /\ scmScattered \in SUBSET ScmBuf
    /\ scmOpen = {} /\ scmGone = {} /\ scmClosed = {} /\ scmStale = {}
    /\ scmRef = [b \in ScmBuf |-> 0]
    /\ scmCall = [t \in ScmThread |-> ScmIdle]
    /\ scmKept = [b \in ScmBuf |-> 0]
    /\ scmBad = FALSE

Inside(b) == {t \in ScmThread : scmCall[t].buf = b}

\* dma_buf_put: the last reference releases the buffer.
ScmBufPut(b) ==
    /\ scmRef' = [scmRef EXCEPT ![b] = @ - 1]
    /\ scmGone' = IF scmRef[b] = 1 THEN scmGone \cup {b} ELSE scmGone

-----------------------------------------------------------------------------

\* The device is there before __scm_dev is set.
ScmProbe ==
    /\ \/ scmProbe = "no" /\ scmProbe' = "registered"
       \/ scmProbe = "registered" /\ scmProbe' = "done"
    /\ UNCHANGED <<scmScattered, scmOpen, scmRef, scmGone, scmCall, scmKept, scmClosed,
                   scmStale, scmBad>>

ScmExport(b) ==
    /\ scmRef[b] = 0 /\ b \notin scmGone
    /\ scmOpen' = scmOpen \cup {b}
    /\ scmRef' = [scmRef EXCEPT ![b] = 1]
    /\ UNCHANGED <<scmProbe, scmScattered, scmGone, scmCall, scmKept, scmClosed,
                   scmStale, scmBad>>

ScmCloseFd(b) ==
    /\ b \in scmOpen
    /\ scmOpen' = scmOpen \ {b}
    /\ ScmBufPut(b)
    /\ scmClosed' = IF Inside(b) # {} THEN scmClosed \cup {b} ELSE scmClosed
    /\ UNCHANGED <<scmProbe, scmScattered, scmCall, scmKept, scmStale, scmBad>>

\* translate_fd_to_pa takes its reference; a descriptor that is not open ends
\* the call.
ScmGet(t, b) ==
    /\ scmProbe # "no"
    /\ scmCall[t].pc = "idle"
    /\ b \in scmOpen
    /\ scmKept[b] < MaxKept
    /\ scmRef' = [scmRef EXCEPT ![b] = @ + 1]
    /\ scmCall' = [scmCall EXCEPT ![t] = [pc |-> "map", buf |-> b]]
    /\ UNCHANGED <<scmProbe, scmScattered, scmOpen, scmGone, scmKept, scmClosed,
                   scmStale, scmBad>>

\* get_pa_from_dmabuf_fd: attached, mapped, unmapped and detached again.
ScmMap(t) ==
    /\ scmCall[t].pc = "map"
    /\ scmCall[t].buf \notin scmScattered
    /\ scmProbe = "done"
    /\ scmCall' = [scmCall EXCEPT ![t].pc = "put"]
    /\ UNCHANGED <<scmProbe, scmScattered, scmOpen, scmRef, scmGone, scmKept, scmClosed,
                   scmStale, scmBad>>

\* More than one segment, or address 0: -EINVAL, and the reference is not put.
ScmMapScattered(t) ==
    /\ scmCall[t].pc = "map"
    /\ scmCall[t].buf \in scmScattered
    /\ scmProbe = "done"
    /\ scmKept' = [scmKept EXCEPT ![scmCall[t].buf] = @ + 1]
    /\ scmCall' = [scmCall EXCEPT ![t] = ScmIdle]
    /\ UNCHANGED <<scmProbe, scmScattered, scmOpen, scmRef, scmGone, scmClosed,
                   scmStale, scmBad>>

\* dma_buf_attach or dma_buf_map_attachment fails: the way out tests for NULL
\* and passes the error pointer on.  Before __scm_dev is set there is no device.
ScmMapFail(t) ==
    /\ scmCall[t].pc = "map"
    /\ scmBad' = TRUE
    /\ UNCHANGED <<scmProbe, scmScattered, scmOpen, scmRef, scmGone, scmCall, scmKept,
                   scmClosed, scmStale>>

(* Faulty variant, breaks ScmRefs: the reference is not put before the call. *)
ScmPutNone(t) ==
    /\ scmCall[t].pc = "put"
    /\ scmCall' = [scmCall EXCEPT ![t].pc = "call"]
    /\ UNCHANGED <<scmProbe, scmScattered, scmOpen, scmRef, scmGone, scmKept, scmClosed,
                   scmStale, scmBad>>

ScmPut(t) ==
    /\ scmCall[t].pc = "put"
    /\ ScmBufPut(scmCall[t].buf)
    /\ scmCall' = [scmCall EXCEPT ![t].pc = "call"]
    /\ UNCHANGED <<scmProbe, scmScattered, scmOpen, scmKept, scmClosed, scmStale, scmBad>>

\* The secure world works on the address.
ScmSecureCall(t) ==
    /\ scmCall[t].pc = "call"
    /\ scmStale' = scmStale \cup ({scmCall[t].buf} \cap scmGone)
    /\ scmCall' = [scmCall EXCEPT ![t] = ScmIdle]
    /\ UNCHANGED <<scmProbe, scmScattered, scmOpen, scmRef, scmGone, scmKept, scmClosed, scmBad>>

ScmNext ==
    /\ ~scmBad
    /\ \/ ScmProbe
       \/ \E b \in ScmBuf : ScmExport(b) \/ ScmCloseFd(b)
       \/ \E t \in ScmThread :
             \/ \E b \in ScmBuf : ScmGet(t, b)
             \/ ScmMap(t) \/ ScmMapScattered(t) \/ ScmMapFail(t)
             \/ ScmPut(t) \/ ScmSecureCall(t)

ScmSpec == ScmInit /\ [][ScmNext]_scmVars

-----------------------------------------------------------------------------

ScmTypeOK ==
    /\ scmProbe \in {"no", "registered", "done"}
    /\ {scmScattered, scmOpen, scmGone, scmClosed, scmStale} \subseteq SUBSET ScmBuf
    /\ scmRef \in [ScmBuf -> Nat] /\ scmKept \in [ScmBuf -> Nat]
    /\ scmCall \in [ScmThread -> [pc : {"idle", "map", "put", "call"},
                                  buf : ScmBuf \cup {ScmNone}]]
    /\ scmBad \in BOOLEAN

(* The references of a buffer are those of its descriptor and of the calls     *)
(* that translate it, and the ones a scattered buffer was not given back.  With   *)
(* nobody using it a contiguous buffer is released.  The secure world gets the    *)
(* address of a released buffer only when the process closed the descriptor        *)
(* during the call: the driver itself holds nothing then.                         *)
ScmRefs ==
    /\ ScmTypeOK
    /\ \A b \in ScmBuf :
          scmRef[b] = Cardinality({b} \cap scmOpen) + scmKept[b]
                          + Cardinality({t \in Inside(b) : scmCall[t].pc \in {"map", "put"}})
    /\ scmStale \subseteq scmClosed
    /\ \A b \in ScmBuf \ scmScattered : scmKept[b] = 0

=============================================================================
