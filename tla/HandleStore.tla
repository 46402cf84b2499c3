----------------------------- MODULE HandleStore -----------------------------
(***************************************************************************)
(* What the dma-buf handles of kiumd promise a process, without handles,       *)
(* descriptors, reference counts or threads: a context holds conversions of       *)
(* buffers, a buffer that some context holds is not released, and a context         *)
(* that is closed holds none.  KiumdHandles implements it.                           *)
(***************************************************************************)
EXTENDS Integers

CONSTANTS
    Ctx,     \* open files
    Buf,     \* buffers
    MaxRef   \* conversions of one buffer that a context may hold

VARIABLES
    life,     \* life[b]: "absent", "live" or "released"
    file,     \* file[c]: "closed", "open" or "closing"
    conv,     \* conv[c]: the conversions c holds, numbered for each buffer
    excused   \* the process broke the rules: nothing is promised any more

storeVars == <<life, file, conv, excused>>

StoreInit ==
    /\ life = [b \in Buf |-> "absent"]
    /\ file = [c \in Ctx |-> "closed"]
    /\ conv = [c \in Ctx |-> {}]
    /\ excused = FALSE

\* A buffer nobody holds after the step may be released with it.
ReleaseUnheld ==
    \A b \in Buf :
        \/ life'[b] = life[b]
        \/ /\ life[b] = "live" /\ life'[b] = "released"
           /\ \A c \in Ctx, i \in 1 .. MaxRef : <<b, i>> \notin conv'[c]

Create ==
    /\ \E b \in Buf : life[b] = "absent" /\ life' = [life EXCEPT ![b] = "live"]
    /\ UNCHANGED <<file, conv>>

Convert ==
    /\ \E c \in Ctx, b \in Buf, i \in 1 .. MaxRef :
          /\ file[c] = "open" /\ life[b] = "live"
          /\ <<b, i>> \notin conv[c]
          /\ conv' = [conv EXCEPT ![c] = @ \cup {<<b, i>>}]
    /\ UNCHANGED <<life, file>>

GiveBack ==
    /\ \E c \in Ctx : \E x \in conv[c] :
          /\ file[c] # "closed"
          /\ conv' = [conv EXCEPT ![c] = @ \ {x}]
    /\ ReleaseUnheld
    /\ UNCHANGED file

Forget == ReleaseUnheld /\ UNCHANGED <<file, conv>>

OpenOrClose ==
    /\ \E c \in Ctx :
          \/ file[c] = "closed" /\ file' = [file EXCEPT ![c] = "open"]
          \/ file[c] = "open" /\ file' = [file EXCEPT ![c] = "closing"]
          \/ file[c] = "closing" /\ conv[c] = {} /\ file' = [file EXCEPT ![c] = "closed"]
    /\ UNCHANGED <<life, conv>>

StoreNext ==
    \/ excused'
    \/ UNCHANGED excused /\ (Create \/ Convert \/ GiveBack \/ Forget \/ OpenOrClose)

StoreSpec == StoreInit /\ [][StoreNext]_storeVars

=============================================================================
