------------------------------ MODULE Profiler ------------------------------
(***************************************************************************)
(* The DDR bandwidth profiler (drivers/profiler.c).  One file at a time may  *)
(* have the device open; its threads start, read and stop a profiling        *)
(* session of the secure world.  The layout of a request is chosen by the    *)
(* global bw_profiling_disabled, which every ioctl writes and then reads      *)
(* three times without a lock.                                               *)
(***************************************************************************)
EXTENDS Integers, FiniteSets

CONSTANTS
    BwFile,     \* opens of the device, each used once
    BwThread,   \* threads that issue ioctls
    BwNone      \* no file

ASSUME BwAssumption == IsFiniteSet(BwFile) /\ IsFiniteSet(BwThread) /\ BwNone \notin BwFile

VARIABLES
    bwProbe,    \* "no", "added" after cdev_add, "done" once pdev is assigned
    bwLock,     \* profiler->lock is held
    bwClk,      \* what the driver has added to the enable count of qdss_clk
    bwFile,     \* bwFile[f]: "new", "open", "stopping" in release, "closed"
    bwDisabled, \* bw_profiling_disabled
    bwCall,     \* what a thread does inside the ioctl
    bwShm,      \* shared buffers for replies that are allocated
    bwRunning,  \* the file whose session the secure world profiles
    bwUnclocked,\* history: files whose open could not enable the clock
    bwMissed,   \* history: files whose release could not send the stop command
    bwOverlap,  \* history: a file was opened before the stop of an earlier one
    bwCut,      \* history: a release stopped the session of another file
    bwStarved,  \* history: the second allocation of a GET failed
    bwFault     \* a buffer freed twice, or profiler->pdev used before it is set

bwVars == <<bwProbe, bwLock, bwClk, bwFile, bwDisabled, bwCall, bwShm,
            bwRunning, bwUnclocked, bwMissed, bwOverlap, bwCut, bwStarved, bwFault>>

Commands == {"start", "get", "stop"}

BwIdle == [pc |-> "idle", file |-> BwNone, mode |-> FALSE, cmd |-> "start",
           layout |-> FALSE, shm |-> "none", crossed |-> FALSE]

BwInit ==
    /\ bwProbe = "no" /\ bwLock = FALSE /\ bwClk = 0
    /\ bwFile = [f \in BwFile |-> "new"]
    /\ bwDisabled = FALSE
    /\ bwCall = [t \in BwThread |-> BwIdle]
    /\ bwShm = 0
    /\ bwRunning = BwNone
    /\ bwUnclocked = {} /\ bwMissed = {}
    /\ bwOverlap = FALSE /\ bwCut = FALSE /\ bwStarved = FALSE /\ bwFault = FALSE

Stopping == {f \in BwFile : bwFile[f] = "stopping"}

-----------------------------------------------------------------------------
(* probe, open, release *)

\* bwprofiler_probe makes the device visible before it stores pdev.
BwProbe ==
    /\ \/ bwProbe = "no" /\ bwProbe' = "added"
       \/ bwProbe = "added" /\ bwProbe' = "done"
    /\ UNCHANGED <<bwLock, bwClk, bwFile, bwDisabled, bwCall, bwShm, bwRunning,
                   bwUnclocked, bwMissed, bwOverlap, bwCut, bwStarved, bwFault>>

\* BwInv: the result of mutex_trylock is not looked at.
TakeLockAlways == TRUE

TakeLock == ~bwLock

\* The clock may refuse; clk_prepare_enable's result is not looked at.
BwOpen(f, enabled) ==
    /\ bwProbe # "no"
    /\ bwFile[f] = "new"
    /\ TakeLock
    /\ bwLock' = TRUE
    /\ IF enabled
       THEN bwClk' = bwClk + 1 /\ UNCHANGED bwUnclocked
       ELSE bwUnclocked' = bwUnclocked \cup {f} /\ UNCHANGED bwClk
    /\ bwFile' = [bwFile EXCEPT ![f] = "open"]
    /\ bwOverlap' = (bwOverlap \/ Stopping # {})
    /\ UNCHANGED <<bwProbe, bwDisabled, bwCall, bwShm, bwRunning,
                   bwMissed, bwCut, bwStarved, bwFault>>

\* BwSessionStops: the stop command is sent only after another session began.
BwReleaseNoStop(f) ==
    /\ bwFile[f] = "open"
    /\ \A t \in BwThread : bwCall[t].file # f
    /\ bwClk' = bwClk - 1
    /\ bwLock' = FALSE
    /\ bwFile' = [bwFile EXCEPT ![f] = "closed"]
    /\ UNCHANGED <<bwProbe, bwDisabled, bwCall, bwShm, bwRunning, bwUnclocked,
                   bwMissed, bwOverlap, bwCut, bwStarved, bwFault>>

\* profiler_release gives up clock and lock first, the clock also when open did not
\* get it: it then takes the enable of another user.
BwRelease(f) ==
    /\ bwFile[f] = "open"
    /\ \A t \in BwThread : bwCall[t].file # f
    /\ bwClk' = bwClk - 1
    /\ bwLock' = FALSE
    /\ bwFile' = [bwFile EXCEPT ![f] = "stopping"]
    /\ UNCHANGED <<bwProbe, bwDisabled, bwCall, bwShm, bwRunning, bwUnclocked,
                   bwMissed, bwOverlap, bwCut, bwStarved, bwFault>>

\* Then it sends the stop command, for which two allocations must succeed.
BwReleaseStop(f, sent) ==
    /\ bwFile[f] = "stopping"
    /\ bwFile' = [bwFile EXCEPT ![f] = "closed"]
    /\ IF sent
       THEN /\ bwRunning' = BwNone
            /\ bwCut' = (bwCut \/ bwRunning \notin {f, BwNone} \cup bwMissed)
            /\ UNCHANGED bwMissed
       ELSE /\ bwMissed' = bwMissed \cup {f}
            /\ UNCHANGED <<bwRunning, bwCut>>
    /\ UNCHANGED <<bwProbe, bwLock, bwClk, bwDisabled, bwCall, bwShm, bwUnclocked,
                   bwOverlap, bwStarved, bwFault>>

-----------------------------------------------------------------------------
(* profiler_ioctl and profiler_get_bw_info *)

\* BwOwnLayout: GET_BW_INFO does not clear the flag.
ModeFlagSticky(mode) == bwDisabled \/ mode

\* The two GET_BW_INFO ioctls differ in the value they store in the flag.
ModeFlag(mode) == mode

BwIoctl(t, f, mode, cmd) ==
    /\ bwFile[f] = "open"
    /\ bwCall[t].pc = "idle"
    /\ bwDisabled' = ModeFlag(mode)
    /\ bwCall' = [u \in BwThread |->
          IF u = t THEN [BwIdle EXCEPT !.pc = "copy", !.file = f, !.mode = mode, !.cmd = cmd]
          ELSE IF bwCall[u].pc # "idle" /\ bwCall[u].mode # mode
          THEN [bwCall[u] EXCEPT !.crossed = TRUE]
          ELSE bwCall[u]]
    /\ UNCHANGED <<bwProbe, bwLock, bwClk, bwFile, bwShm, bwRunning, bwUnclocked,
                   bwMissed, bwOverlap, bwCut, bwStarved, bwFault>>

\* First read of the flag: which structure the request is copied to.
BwCopy(t) ==
    /\ bwCall[t].pc = "copy"
    /\ bwCall' = [bwCall EXCEPT ![t].pc = "dispatch", ![t].layout = bwDisabled]
    /\ UNCHANGED <<bwProbe, bwLock, bwClk, bwFile, bwDisabled, bwShm, bwRunning,
                   bwUnclocked, bwMissed, bwOverlap, bwCut, bwStarved, bwFault>>

\* Second read: the command comes from the structure of that layout, which is
\* not initialised when the flag has changed.
ReadCommand(t, cmd) ==
    /\ bwCall[t].pc = "dispatch"
    /\ bwDisabled = bwCall[t].layout => cmd = bwCall[t].cmd

\* START and STOP go to the secure world and may fail there, or in an
\* allocation; their own buffer is allocated and freed in the same call.
BwStartStop(t, cmd, sent) ==
    /\ ReadCommand(t, cmd)
    /\ cmd \in {"start", "stop"}
    /\ bwRunning' = IF ~sent THEN bwRunning
                    ELSE IF cmd = "start" THEN bwCall[t].file ELSE BwNone
    /\ bwCall' = [bwCall EXCEPT ![t] = BwIdle]
    /\ UNCHANGED <<bwProbe, bwLock, bwClk, bwFile, bwDisabled, bwShm, bwUnclocked,
                   bwMissed, bwOverlap, bwCut, bwStarved, bwFault>>

\* An uninitialised command may also be none of the three.
BwBadCommand(t) ==
    /\ ReadCommand(t, "none")
    /\ bwCall' = [bwCall EXCEPT ![t] = BwIdle]
    /\ UNCHANGED <<bwProbe, bwLock, bwClk, bwFile, bwDisabled, bwShm, bwRunning,
                   bwUnclocked, bwMissed, bwOverlap, bwCut, bwStarved, bwFault>>

BwGet(t) ==
    /\ ReadCommand(t, "get")
    /\ bwCall' = [bwCall EXCEPT ![t].pc = "get"]
    /\ UNCHANGED <<bwProbe, bwLock, bwClk, bwFile, bwDisabled, bwShm, bwRunning,
                   bwUnclocked, bwMissed, bwOverlap, bwCut, bwStarved, bwFault>>

-----------------------------------------------------------------------------
(* bw_profiling_get *)

\* Third read of the flag: the layout of the reply, with its buffer.
BwAlloc(t) ==
    /\ bwCall[t].pc = "get"
    /\ bwShm' = bwShm + 1
    /\ bwCall' = [bwCall EXCEPT ![t].layout = bwDisabled, ![t].shm = "own",
                                ![t].pc = IF bwDisabled THEN "reply" ELSE "first"]
    /\ UNCHANGED <<bwProbe, bwLock, bwClk, bwFile, bwDisabled, bwRunning,
                   bwUnclocked, bwMissed, bwOverlap, bwCut, bwStarved, bwFault>>

\* out: the buffer the structure still names is freed, if it names one.  Freed
\* before and not allocated again, it is freed a second time.
BwOut(t) ==
    /\ bwShm' = IF bwCall[t].shm # "none" THEN bwShm - 1 ELSE bwShm
    /\ bwFault' = (bwFault \/ bwCall[t].shm = "stale")
    /\ bwCall' = [bwCall EXCEPT ![t] = BwIdle]
    /\ UNCHANGED <<bwProbe, bwLock, bwClk, bwFile, bwDisabled, bwRunning, bwUnclocked,
                   bwMissed, bwOverlap, bwCut>>

\* The command fails, or the allocation before the first one.
BwGetFail(t) ==
    /\ bwCall[t].pc \in {"get", "first", "reply"}
    /\ BwOut(t)
    /\ UNCHANGED bwStarved

\* The legacy layout: the first command is done, its buffer is freed; the
\* registers are mapped for pdev and read.
BwRegisters(t) ==
    /\ bwCall[t].pc = "first"
    /\ bwShm' = bwShm - 1
    /\ bwCall' = [bwCall EXCEPT ![t].pc = "again", ![t].shm = "stale"]
    /\ bwFault' = (bwFault \/ bwProbe # "done")
    /\ UNCHANGED <<bwProbe, bwLock, bwClk, bwFile, bwDisabled, bwRunning,
                   bwUnclocked, bwMissed, bwOverlap, bwCut, bwStarved>>

BwAllocAgain(t) ==
    /\ bwCall[t].pc = "again"
    /\ bwShm' = bwShm + 1
    /\ bwCall' = [bwCall EXCEPT ![t].pc = "reply", ![t].shm = "own"]
    /\ UNCHANGED <<bwProbe, bwLock, bwClk, bwFile, bwDisabled, bwRunning,
                   bwUnclocked, bwMissed, bwOverlap, bwCut, bwStarved, bwFault>>

\* That allocation fails.
BwAllocFail(t) ==
    /\ bwCall[t].pc = "again"
    /\ BwOut(t)
    /\ bwStarved' = TRUE

\* copy_to_user with the size of the layout, whether it succeeds or not.
BwReply(t) ==
    /\ bwCall[t].pc = "reply"
    /\ BwOut(t)
    /\ UNCHANGED bwStarved

-----------------------------------------------------------------------------

BwNext ==
    /\ ~bwFault
    /\ \/ BwProbe
       \/ \E f \in BwFile, enabled \in BOOLEAN : BwOpen(f, enabled)
       \/ \E f \in BwFile : BwRelease(f)
       \/ \E f \in BwFile, sent \in BOOLEAN : BwReleaseStop(f, sent)
       \/ \E t \in BwThread :
             \/ \E f \in BwFile, mode \in BOOLEAN, cmd \in Commands : BwIoctl(t, f, mode, cmd)
             \/ \E cmd \in Commands, sent \in BOOLEAN : BwStartStop(t, cmd, sent)
             \/ BwCopy(t) \/ BwBadCommand(t) \/ BwGet(t)
             \/ BwAlloc(t) \/ BwGetFail(t) \/ BwRegisters(t) \/ BwAllocAgain(t)
             \/ BwAllocFail(t) \/ BwReply(t)

BwSpec == BwInit /\ [][BwNext]_bwVars

-----------------------------------------------------------------------------

BwTypeOK ==
    /\ bwProbe \in {"no", "added", "done"}
    /\ bwLock \in BOOLEAN /\ bwClk \in Int /\ bwShm \in Int
    /\ bwFile \in [BwFile -> {"new", "open", "stopping", "closed"}]
    /\ bwDisabled \in BOOLEAN
    /\ bwCall \in [BwThread ->
          [pc : {"idle", "copy", "dispatch", "get", "first", "again", "reply"},
           file : BwFile \cup {BwNone}, mode : BOOLEAN, cmd : Commands,
           layout : BOOLEAN, shm : {"none", "own", "stale"}, crossed : BOOLEAN]]
    /\ bwRunning \in BwFile \cup {BwNone}
    /\ bwUnclocked \subseteq BwFile /\ bwMissed \subseteq BwFile
    /\ {bwOverlap, bwCut, bwStarved, bwFault} \subseteq BOOLEAN

BwCallOf(t, pcs) == bwCall[t].pc \in pcs

(* The lock is held exactly while a file is open, and at most one is.  The     *)
(* clock has one enable for it, less one for every open the clock refused: the  *)
(* release of such an open takes an enable it never added, for good.  A buffer   *)
(* is allocated exactly while a call names it as its own, one less once a second  *)
(* allocation has failed, the only way to a double free; memory is misused then    *)
(* and by a GET of the legacy layout before probe has stored pdev, never else.      *)
BwInv ==
    /\ BwTypeOK
    /\ Cardinality({f \in BwFile : bwFile[f] = "open"}) = IF bwLock THEN 1 ELSE 0
    /\ bwClk = (IF bwLock THEN 1 ELSE 0) - Cardinality(bwUnclocked)
    /\ bwShm = Cardinality({t \in BwThread : bwCall[t].shm = "own"})
                  - IF bwStarved THEN 1 ELSE 0
    /\ bwFault => bwStarved \/ bwProbe # "done"

(* The secure world profiles only for a file that is open or about to send    *)
(* its stop command, unless that command could not be sent.  A release stops    *)
(* the session of another file only if that file was opened between its unlock  *)
(* and its stop command.                                                       *)
BwSessionStops ==
    /\ bwRunning # BwNone =>
          bwFile[bwRunning] \in {"open", "stopping"} \/ bwRunning \in bwMissed
    /\ bwCut => bwOverlap

(* A call sends the command it was given and answers in the layout of its     *)
(* ioctl, unless the other ioctl was issued while it was inside.               *)
BwOwnLayout ==
    \A t \in BwThread :
        /\ BwCallOf(t, {"dispatch", "first", "again", "reply"}) /\ ~bwCall[t].crossed
           => bwCall[t].layout = bwCall[t].mode
        /\ BwCallOf(t, {"get", "first", "again", "reply"}) /\ ~bwCall[t].crossed
           => bwCall[t].cmd = "get"

=============================================================================
