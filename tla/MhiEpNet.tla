------------------------------ MODULE MhiEpNet ------------------------------
(***************************************************************************)
(* The transmit side of the MHI endpoint network driver                      *)
(* (drivers/mhi_ep_net.c).  The network stack hands packets to mhi_ndo_xmit,  *)
(* which appends them to tx_buffers and queues a work item; the work item     *)
(* moves the whole list to a list of its own and gives the packets to the      *)
(* MHI layer as long as the host has provided transfer elements.  The worker   *)
(* stops the interface's queue when the elements run out, and the callback of  *)
(* the MHI layer wakes it.  The stack, the worker and the callback run         *)
(* concurrently; tx_lock protects tx_buffers only.                            *)
(***************************************************************************)
EXTENDS Integers, Sequences, FiniteSets

CONSTANTS
    MaxPackets, \* bound on the packets the stack sends
    MaxElements \* transfer elements the ring of the host holds

ASSUME NetAssumption ==
    /\ MaxPackets \in Nat \ {0}
    /\ MaxElements \in Nat \ {0}

\* Packets are numbered in the order mhi_ndo_xmit accepts them.
Packet == 1 .. MaxPackets

VARIABLES
    dev,      \* "none", "registered", "destroyed" (workqueue gone), "removed"
    up,       \* the interface is open
    stopped,  \* netif_queue_stopped
    accepted, \* number of packets mhi_ndo_xmit has taken
    xmit,     \* mhi_ndo_xmit is between unlocking tx_lock and queue_work
    txBuffers,\* tx_buffers
    pending,  \* xmit_work is queued
    work,     \* program counter of the work item
    q,        \* the list on the stack of the work item
    elements, \* transfer elements the host has provided
    doorbell, \* the MHI layer is about to call the DL callback
    sent,     \* packets given to the MHI layer
    dropped,  \* packets freed because the MHI layer refused them
    forgotten,\* packets left on q when the work item returned: neither freed nor counted
    unfreed,  \* packets sent whose buffer the break of the loop does not free
    halted,   \* the interface has been stopped once
    misuse    \* queue_work on a destroyed workqueue

netVars == <<dev, up, halted, misuse>>
txVars == <<accepted, xmit, txBuffers>>
workVars == <<work, q, sent, dropped, forgotten, unfreed>>
hostVars == <<elements, doorbell>>
mhiVars == <<netVars, txVars, workVars, hostVars, stopped, pending>>

MhiTypeOK ==
    /\ dev \in {"none", "registered", "destroyed", "removed"}
    /\ up \in BOOLEAN /\ stopped \in BOOLEAN /\ xmit \in BOOLEAN
    /\ accepted \in 0 .. MaxPackets
    /\ txBuffers \in Seq(Packet) /\ q \in Seq(Packet) /\ sent \in Seq(Packet)
    /\ pending \in BOOLEAN /\ doorbell \in BOOLEAN
    /\ work \in {"idle", "full", "splice", "loop", "check", "break"}
    /\ elements \in 0 .. MaxElements
    /\ dropped \in SUBSET Packet /\ forgotten \in SUBSET Packet /\ unfreed \in SUBSET Packet
    /\ halted \in BOOLEAN /\ misuse \in BOOLEAN

MhiInit ==
    /\ dev = "none"
    /\ up = FALSE /\ stopped = FALSE /\ halted = FALSE /\ misuse = FALSE
    /\ accepted = 0 /\ xmit = FALSE /\ txBuffers = <<>>
    /\ pending = FALSE /\ work = "idle" /\ q = <<>>
    /\ elements = 0 /\ doorbell = FALSE
    /\ sent = <<>> /\ dropped = {} /\ forgotten = {} /\ unfreed = {}

Elems(s) == {s[i] : i \in DOMAIN s}

QueueWork ==
    /\ misuse' = (misuse \/ dev # "registered")
    /\ pending' = (pending \/ dev = "registered")

-----------------------------------------------------------------------------
(* Faulty variants of actions below: each breaks the property named with it.  *)
(* They are not part of MhiNext.                                             *)

\* MisuseOnlyInRemove: the callback is still enabled during remove.
RemoveWorkqueueRacing ==
    /\ dev = "registered"
    /\ ~pending /\ work = "idle"
    /\ dev' = "destroyed"
    /\ UNCHANGED <<up, halted, misuse, txVars, workVars, hostVars, stopped, pending>>

\* LinkPromise: after a failure the rest goes back behind the packets that came since.
WorkDropRequeue ==
    /\ work = "loop" /\ q # <<>>
    /\ dropped' = dropped \cup {Head(q)}
    /\ txBuffers' = txBuffers \o Tail(q)
    /\ q' = <<>>
    /\ work' = "idle"
    /\ UNCHANGED <<netVars, accepted, xmit, sent, forgotten, unfreed, hostVars, stopped, pending>>

\* QueueInv: tx_buffers is initialised again when the batch is done.
WorkDoneInit ==
    /\ work = "loop" /\ q = <<>>
    /\ work' = "idle"
    /\ txBuffers' = <<>>
    /\ UNCHANGED <<netVars, accepted, xmit, q, sent, dropped, forgotten, unfreed, hostVars,
                   stopped, pending>>

\* Progress: the callback wakes the queue but does not queue the work item.
DlCallbackWakeOnly ==
    /\ doorbell
    /\ doorbell' = FALSE
    /\ stopped' = FALSE
    /\ UNCHANGED <<dev, up, halted, misuse, pending, txVars, workVars, elements>>

-----------------------------------------------------------------------------
(* Life of the interface *)

\* mhi_ep_net_probe and mhi_ep_net_newlink up to register_netdev.  A failure
\* destroys the workqueue again and leaves nothing.
Probe ==
    /\ dev = "none"
    /\ dev' = "registered"
    /\ UNCHANGED <<up, halted, misuse, txVars, workVars, hostVars, stopped, pending>>

\* mhi_ndo_open
Open ==
    /\ dev \in {"registered", "destroyed"} /\ ~up
    /\ up' = TRUE
    /\ stopped' = FALSE
    /\ UNCHANGED <<dev, halted, misuse, txVars, workVars, hostVars, pending>>

\* mhi_ndo_stop; the stack waits for a transmit in progress.
Stop ==
    /\ up /\ ~xmit
    /\ up' = FALSE
    /\ stopped' = TRUE
    /\ halted' = TRUE
    /\ UNCHANGED <<dev, misuse, txVars, workVars, hostVars, pending>>

\* mhi_ep_net_remove, first half: destroy_workqueue waits for the work item.
\* The MHI layer has disabled the callbacks before.
RemoveWorkqueue ==
    /\ dev = "registered"
    /\ ~pending /\ work = "idle" /\ ~doorbell
    /\ dev' = "destroyed"
    /\ UNCHANGED <<up, halted, misuse, txVars, workVars, hostVars, stopped, pending>>

\* unregister_netdev closes the interface; free_netdev frees the rest, but
\* not the packets on tx_buffers.
RemoveNetdev ==
    /\ dev = "destroyed" /\ ~xmit
    /\ dev' = "removed"
    /\ up' = FALSE
    /\ stopped' = TRUE
    /\ UNCHANGED <<halted, misuse, txVars, workVars, hostVars, pending>>

-----------------------------------------------------------------------------
(* mhi_ndo_xmit, one call at a time under the stack's transmit lock *)

Xmit ==
    /\ up /\ ~stopped /\ ~xmit
    /\ accepted < MaxPackets
    /\ accepted' = accepted + 1
    /\ txBuffers' = Append(txBuffers, accepted + 1)
    /\ xmit' = TRUE
    /\ UNCHANGED <<netVars, workVars, hostVars, stopped, pending>>

XmitQueue ==
    /\ xmit
    /\ xmit' = FALSE
    /\ QueueWork
    /\ UNCHANGED <<dev, up, halted, accepted, txBuffers, workVars, hostVars, stopped>>

-----------------------------------------------------------------------------
(* mhi_ep_net_dev_process_queue_packets *)

\* The workqueue starts the work item; its first test of the ring.
WorkStart ==
    /\ pending /\ work = "idle"
    /\ pending' = FALSE
    /\ work' = IF elements = 0 THEN "full" ELSE "splice"
    /\ UNCHANGED <<netVars, txVars, q, sent, dropped, forgotten, unfreed, hostVars, stopped>>

\* netif_stop_queue after the test.
WorkFull ==
    /\ work = "full"
    /\ stopped' = TRUE
    /\ work' = "idle"
    /\ UNCHANGED <<netVars, txVars, q, sent, dropped, forgotten, unfreed, hostVars, pending>>

WorkSplice ==
    /\ work = "splice"
    /\ q' = txBuffers
    /\ txBuffers' = <<>>
    /\ work' = "loop"
    /\ UNCHANGED <<netVars, accepted, xmit, sent, dropped, forgotten, unfreed, hostVars,
                   stopped, pending>>

WorkDone ==
    /\ work = "loop" /\ q = <<>>
    /\ work' = "idle"
    /\ UNCHANGED <<netVars, txVars, q, sent, dropped, forgotten, unfreed, hostVars,
                   stopped, pending>>

\* mhi_ep_queue_skb takes the packet and one transfer element.
WorkSend ==
    /\ work = "loop" /\ q # <<>>
    /\ elements > 0
    /\ elements' = elements - 1
    /\ sent' = Append(sent, Head(q))
    /\ q' = Tail(q)
    /\ work' = "check"
    /\ UNCHANGED <<netVars, txVars, dropped, forgotten, unfreed, doorbell, stopped, pending>>

\* mhi_ep_queue_skb fails: the packet is freed, the rest of q is forgotten.
WorkDrop ==
    /\ work = "loop" /\ q # <<>>
    /\ dropped' = dropped \cup {Head(q)}
    /\ forgotten' = forgotten \cup Elems(Tail(q))
    /\ q' = <<>>
    /\ work' = "idle"
    /\ UNCHANGED <<netVars, txVars, sent, unfreed, hostVars, stopped, pending>>

WorkCheck ==
    /\ work = "check"
    /\ work' = IF elements = 0 THEN "break" ELSE "loop"
    /\ UNCHANGED <<netVars, txVars, q, sent, dropped, forgotten, unfreed, hostVars,
                   stopped, pending>>

\* netif_stop_queue and break: the rest of q is forgotten, and consume_skb behind
\* the break does not free the packet just sent.
WorkBreak ==
    /\ work = "break"
    /\ stopped' = TRUE
    /\ forgotten' = forgotten \cup Elems(q)
    /\ unfreed' = unfreed \cup {sent[Len(sent)]}
    /\ q' = <<>>
    /\ work' = "idle"
    /\ UNCHANGED <<netVars, txVars, sent, dropped, hostVars, pending>>

-----------------------------------------------------------------------------
(* The host and the MHI layer *)

\* The host adds transfer elements and rings the doorbell of the channel.
HostAdd(n) ==
    /\ dev = "registered" /\ ~doorbell
    /\ elements + n <= MaxElements
    /\ elements' = elements + n
    /\ doorbell' = TRUE
    /\ UNCHANGED <<netVars, txVars, workVars, stopped, pending>>

\* The host resets the channel.  The callback reports -ENOTCONN and returns.
HostReset ==
    /\ elements > 0 /\ ~doorbell
    /\ elements' = 0
    /\ UNCHANGED <<netVars, txVars, workVars, doorbell, stopped, pending>>

\* mhi_ep_net_dl_callback
DlCallback ==
    /\ doorbell
    /\ doorbell' = FALSE
    /\ IF stopped
       THEN stopped' = FALSE /\ QueueWork
       ELSE UNCHANGED <<stopped, pending, misuse>>
    /\ UNCHANGED <<dev, up, halted, txVars, workVars, elements>>

-----------------------------------------------------------------------------

Work == WorkStart \/ WorkFull \/ WorkSplice \/ WorkDone \/ WorkSend \/ WorkDrop
            \/ WorkCheck \/ WorkBreak

MhiNext ==
    \/ Probe \/ Open \/ Stop \/ RemoveWorkqueue \/ RemoveNetdev
    \/ Xmit \/ XmitQueue
    \/ Work
    \/ \E n \in 1 .. MaxElements : HostAdd(n)
    \/ HostReset \/ DlCallback

\* A call of mhi_ndo_xmit returns, and the workqueue runs what is queued.
Fairness == WF_mhiVars(XmitQueue) /\ WF_mhiVars(Work)

MhiSpec == MhiInit /\ [][MhiNext]_mhiVars /\ Fairness

-----------------------------------------------------------------------------

Link == INSTANCE NetLink WITH taken <- accepted, line <- q \o txBuffers, out <- sent

(* The device is a line that may lose packets but never reorders, repeats or   *)
(* invents one, although batches are moved from list to list by a work item       *)
(* that may be queued again while it runs, and a batch may be cut short.          *)
LinkPromise == Link!LinkSpec

(* The device does not keep its packets, and this says which it loses and how:   *)
(* a packet taken is on tx_buffers, with the work item, sent, dropped (freed and   *)
(* counted), or forgotten, which is neither.  A packet is forgotten only with the  *)
(* whole rest of its batch, behind one the MHI layer refused or behind one after   *)
(* which the ring was empty and whose buffer is not freed either, and what was     *)
(* forgotten is never sent or dropped afterwards.                                 *)
Conserved ==
    /\ 1 .. accepted =
          Elems(txBuffers) \cup Elems(q) \cup Elems(sent) \cup dropped \cup forgotten
    /\ forgotten \cap (Elems(sent) \cup dropped) = {}
    /\ unfreed \subseteq Elems(sent)
    /\ \A p \in forgotten : \E r \in dropped \cup unfreed :
          r < p /\ \A s \in r + 1 .. p : s \in forgotten

(* No packet waits on tx_buffers of a running queue without a work item that   *)
(* will take it, unless the interface was stopped before.                       *)
WorkOwed ==
    dev = "registered" /\ txBuffers # <<>> /\ ~stopped /\ ~halted =>
        pending \/ xmit \/ work \in {"full", "splice"}

(* A packet leaves tx_buffers, or the queue is stopped so that the callback     *)
(* queues the work item again; the exceptions are an interface that was         *)
(* stopped and a device that is being removed.                                *)
Progress ==
    \A p \in Packet :
        p \in Elems(txBuffers)
            ~> p \notin Elems(txBuffers) \/ stopped \/ halted \/ dev # "registered"

(* The workqueue is used after it was destroyed only by a transmit between      *)
(* destroy_workqueue and unregister_netdev of mhi_ep_net_remove: neither the     *)
(* callback nor the work item does.                                          *)
MisuseOnlyInRemove ==
    [][misuse' # misuse => dev = "destroyed" /\ xmit]_mhiVars

(* "Since we got enough buffers to queue, wake the queue if stopped": the       *)
(* queue of an open interface is not left stopped while the host's elements     *)
(* are there.                                                                *)
WokenWhenElements ==
    dev = "registered" /\ up /\ work = "idle" /\ ~pending /\ ~doorbell /\ stopped
        => elements = 0

(* Packets leave mhi_ndo_xmit and the work item in the ways Conserved lists, no   *)
(* more elements are used than the host provided, and packets that wait on a       *)
(* running queue are owed a work item.                                            *)
QueueInv == MhiTypeOK /\ Conserved /\ WorkOwed

=============================================================================
