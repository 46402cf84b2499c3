-------------------------------- MODULE Dload --------------------------------
(***************************************************************************)
(* The download mode (drivers/qcom_dload_mode.c): a register that the boot      *)
(* loader reads after a crash, and dump_mode, the copy that sysfs shows.  A       *)
(* store writes the register and then the copy; nothing orders two stores, or a     *)
(* store and the end of probe, which reads the register after the sysfs file         *)
(* exists.                                                                            *)
(***************************************************************************)
CONSTANTS
    DlWriter,   \* contexts that store to the file
    DlNone      \* no value

ASSUME DlAssumption == "probe" \notin DlWriter

DlMode == {"full", "mini", "both"}
DlProbe == "probe"

VARIABLES
    dlReg,      \* the register
    dlCopy,     \* dump_mode
    dlFile,     \* the sysfs file: "absent", "present", "failed"
    dlCall,     \* what the writers and probe are doing
    dlAgree     \* history: the last call to end succeeded and overlapped no other

dlVars == <<dlReg, dlCopy, dlFile, dlCall, dlAgree>>

DlCaller == DlWriter \cup {DlProbe}
DlIdle == [pc |-> "idle", mode |-> DlNone, shared |-> FALSE]

\* The boot loader may have left any value, one the driver cannot name included.
DlInit ==
    /\ dlReg \in DlMode \cup {"unknown"}
    /\ dlCopy = "full"
    /\ dlFile = "absent"
    /\ dlCall = [c \in DlCaller |-> DlIdle]
    /\ dlAgree = FALSE

DlBusy(c) == dlCall[c].pc # "idle"

\* c begins: the calls in progress, and c, have company.
DlBegin(c, mode) ==
    dlCall' = [d \in DlCaller |->
                 IF d = c THEN [pc |-> "io", mode |-> mode, shared |-> \E e \in DlCaller : DlBusy(e)]
                 ELSE IF DlBusy(d) THEN [dlCall[d] EXCEPT !.shared = TRUE] ELSE dlCall[d]]

DlEnd(c) == dlCall' = [dlCall EXCEPT ![c] = DlIdle]

-----------------------------------------------------------------------------

\* The address, the kobject or the file cannot be had: no file.
DlProbeFail ==
    /\ dlFile = "absent"
    /\ dlFile' = "failed"
    /\ UNCHANGED <<dlReg, dlCopy, dlCall, dlAgree>>

DlCreateFile ==
    /\ dlFile = "absent"
    /\ dlFile' = "present"
    /\ DlBegin(DlProbe, DlNone)
    /\ UNCHANGED <<dlReg, dlCopy, dlAgree>>

\* get_dump_mode: the firmware may refuse, and the copy keeps its value.
DlRead ==
    /\ dlCall[DlProbe].pc = "io"
    /\ \/ dlCall' = [dlCall EXCEPT ![DlProbe].pc = "assign", ![DlProbe].mode = dlReg]
       \/ DlEnd(DlProbe)
    /\ UNCHANGED <<dlReg, dlCopy, dlFile, dlAgree>>

\* dload_mode_store; a text that names no mode changes nothing.
DlStore(c, mode) ==
    /\ dlFile = "present" /\ ~DlBusy(c)
    /\ DlBegin(c, mode)
    /\ UNCHANGED <<dlReg, dlCopy, dlFile, dlAgree>>

DlWritten(c) == dlCall' = [dlCall EXCEPT ![c].pc = "assign"]

(* Faulty variant, breaks DloadInv: the copy is assigned whatever the firmware  *)
(* answers.                                                                      *)
DlRefusedAssign(c) == dlCall' = [dlCall EXCEPT ![c].pc = "assign"]

DlRefused(c) == DlEnd(c)

DlWrite(c) ==
    /\ dlCall[c].pc = "io"
    /\ \/ dlReg' = dlCall[c].mode /\ DlWritten(c)
       \/ UNCHANGED dlReg /\ DlRefused(c)
    /\ UNCHANGED <<dlCopy, dlFile, dlAgree>>

DlAssign(c) ==
    /\ dlCall[c].pc = "assign"
    /\ dlCopy' = dlCall[c].mode
    /\ dlAgree' = ~dlCall[c].shared
    /\ DlEnd(c)
    /\ UNCHANGED <<dlReg, dlFile>>

DlNext ==
    \/ DlProbeFail \/ DlCreateFile \/ DlRead
    \/ \E c \in DlWriter : DlWrite(c) \/ \E mode \in DlMode : DlStore(c, mode)
    \/ \E c \in DlCaller : DlAssign(c)

DlSpec == DlInit /\ [][DlNext]_dlVars

-----------------------------------------------------------------------------

(* Whoever reads the file between two calls sees the value of the register,     *)
(* once a call has succeeded that no other overlapped, however many stores the     *)
(* firmware has refused since; without the file the copy is never touched.          *)
DloadInv ==
    /\ dlReg \in DlMode \cup {"unknown"} /\ dlCopy \in DlMode \cup {"unknown"}
    /\ dlAgree /\ (\A c \in DlCaller : ~DlBusy(c)) => dlCopy = dlReg
    /\ dlFile # "present" => dlCopy = "full" /\ \A c \in DlCaller : ~DlBusy(c)

=============================================================================
