------------------------------- MODULE NetLink -------------------------------
(***************************************************************************)
(* What the MHI network device promises the stack for the packets it takes:     *)
(* a line that may lose packets and never reorders, repeats or invents one.      *)
(* MhiEpNet implements it.                                                         *)
(***************************************************************************)
EXTENDS Integers, Sequences

VARIABLES
    taken,  \* packets taken so far, numbered from 1
    line,   \* packets on the way
    out     \* packets delivered

linkVars == <<taken, line, out>>

LinkInit == taken = 0 /\ line = <<>> /\ out = <<>>

Take ==
    /\ taken' = taken + 1
    /\ line' = Append(line, taken + 1)
    /\ UNCHANGED out

Deliver ==
    /\ line # <<>>
    /\ out' = Append(out, Head(line))
    /\ line' = Tail(line)
    /\ UNCHANGED taken

\* Packets are lost anywhere; the n that are left keep their order.
Lose ==
    /\ \E n \in 0 .. Len(line) : \E place \in [1 .. n -> 1 .. Len(line)] :
          /\ \A i, j \in 1 .. n : i < j => place[i] < place[j]
          /\ line' = [i \in 1 .. n |-> line[place[i]]]
    /\ UNCHANGED <<taken, out>>

LinkSpec == LinkInit /\ [][Take \/ Deliver \/ Lose]_linkVars

=============================================================================
