------------------------------- MODULE TxPath -------------------------------
(***************************************************************************)
(* The transmit path of the driver: WCH11P_tx takes a frame from mac80211  *)
(* in a context that may not sleep, allocates a work item for it and       *)
(* schedules it; WCH11P_TxWorkCallback runs the item in a kernel thread,   *)
(* prepends the MKx header and calls the radio's TxReq; WCH11P_TxCnf frees *)
(* the frame when the radio confirms it.                                   *)
(*                                                                         *)
(* A frame (struct sk_buff) has at each moment one party that must free    *)
(* it, and nothing in the code records which: the duty moves from          *)
(* WCH11P_tx to the work item to the LLC by the order of the calls alone.  *)
(* Every item has its own work_struct on the system work queue, so items   *)
(* run concurrently and in any order, and an item may run before           *)
(* WCH11P_tx has returned from schedule_work.                              *)
(*                                                                         *)
(* An operator X_Mistake before X is X with a plausible mistake; no action *)
(* uses it. README.md names the property that notices it.                  *)
(***************************************************************************)
EXTENDS Integers

CONSTANT Skbs     \* the frames mac80211 hands to the driver, each of them once

VARIABLES
  tx,     \* tx[s]:    how far WCH11P_tx(s) has come
  work,   \* work[s]:  the life of the work item allocated for s
  llc,    \* llc[s]:   what the LLC knows of s
  frees   \* frees[s]: how often dev_kfree_skb was called on s

txVars == <<tx, work, llc, frees>>

TxInit ==
  /\ tx = [s \in Skbs |-> "idle"]
  /\ work = [s \in Skbs |-> "none"]
  /\ llc = [s \in Skbs |-> "none"]
  /\ frees = [s \in Skbs |-> 0]

dev_kfree_skb_Get(s) == frees' = [frees EXCEPT ![s] = @ - 1]
dev_kfree_skb(s) == frees' = [frees EXCEPT ![s] = @ + 1]

-----------------------------------------------------------------------------
(***************************************************************************)
(* WCH11P_tx, up to the return of schedule_work.                           *)
(***************************************************************************)

\* The interface has no channel context: the frame is dropped.
DropNoChannel_Leak(s) == UNCHANGED frees
DropNoChannel(s) == dev_kfree_skb(s)

TxNoChannel(s) ==
  /\ tx[s] = "idle"
  /\ tx' = [tx EXCEPT ![s] = "done"]
  /\ DropNoChannel(s)
  /\ UNCHANGED <<work, llc>>

\* kzalloc of the work item fails: NETDEV_TX_BUSY has no reader, the frame is
\* dropped.
TxNoMemory(s) ==
  /\ tx[s] = "idle"
  /\ tx' = [tx EXCEPT ![s] = "done"]
  /\ dev_kfree_skb(s)
  /\ UNCHANGED <<work, llc>>

\* The item is initialised and schedule_work returns 1: from here on a worker
\* may run it, although WCH11P_tx has not yet tested the result.
TxSchedule(s) ==
  /\ tx[s] = "idle"
  /\ tx' = [tx EXCEPT ![s] = "queued"]
  /\ work' = [work EXCEPT ![s] = "queued"]
  /\ UNCHANGED <<llc, frees>>

\* schedule_work returns 0: the item is allocated but on no queue.
TxNotScheduled(s) ==
  /\ tx[s] = "idle"
  /\ tx' = [tx EXCEPT ![s] = "refused"]
  /\ work' = [work EXCEPT ![s] = "orphan"]
  /\ UNCHANGED <<llc, frees>>

\* The test of schedule_work's result: only 0 leads to the label Error.
ScheduleFailed_Inverted(s) == tx[s] = "queued"
ScheduleFailed(s) == tx[s] = "refused"

\* The rest of WCH11P_tx. Error frees the frame and not the work item.
TxReturn(s) ==
  /\ tx[s] \in {"queued", "refused"}
  /\ tx' = [tx EXCEPT ![s] = "done"]
  /\ IF ScheduleFailed(s) THEN dev_kfree_skb(s) ELSE UNCHANGED frees
  /\ UNCHANGED <<work, llc>>

-----------------------------------------------------------------------------
(***************************************************************************)
(* WCH11P_TxWorkCallback, in a worker of the system work queue.            *)
(***************************************************************************)

\* skb_orphan, the BSSID byte, the rate lookup and the MKx header: all of
\* them touch the frame. The asserts on the item's two pointers cannot fail,
\* as WCH11P_tx sets both before it schedules the item.
TxWorkPrepare_Waits(s) ==
  /\ work[s] = "queued" /\ tx[s] = "done"
  /\ work' = [work EXCEPT ![s] = "prepared"]
  /\ UNCHANGED <<tx, llc, frees>>
TxWorkPrepare(s) ==
  /\ work[s] = "queued"
  /\ work' = [work EXCEPT ![s] = "prepared"]
  /\ UNCHANGED <<tx, llc, frees>>

\* TxReq, inside the LLC. An accepted frame belongs to the LLC at once: its
\* confirmation may come before TxReq returns to the worker.
TxReqAccept(s) ==
  /\ work[s] = "prepared"
  /\ work' = [work EXCEPT ![s] = "accepted"]
  /\ llc' = [llc EXCEPT ![s] = "held"]
  /\ UNCHANGED <<tx, frees>>

TxReqReject(s) ==
  /\ work[s] = "prepared"
  /\ work' = [work EXCEPT ![s] = "rejected"]
  /\ UNCHANGED <<tx, llc, frees>>

\* TxReq has returned: Error when its status is not OBUSTATUS_SUCCESS.
ReqFailed_Always(s) == TRUE
ReqFailed_Never(s) == FALSE
ReqFailed(s) == work[s] = "rejected"

\* Error frees the frame; both ways free the work item.
TxWorkFinish(s) ==
  /\ work[s] \in {"accepted", "rejected"}
  /\ work' = [work EXCEPT ![s] = "freed"]
  /\ IF ReqFailed(s) THEN dev_kfree_skb(s) ELSE UNCHANGED frees
  /\ UNCHANGED <<tx, llc>>

\* WCH11P_TxCnf, called by the LLC from a thread or interrupt of its own.
TxCnf(s) ==
  /\ llc[s] = "held"
  /\ llc' = [llc EXCEPT ![s] = "confirmed"]
  /\ dev_kfree_skb(s)
  /\ UNCHANGED <<tx, work>>

-----------------------------------------------------------------------------
WCH11P_tx(s) ==
  TxNoChannel(s) \/ TxNoMemory(s) \/ TxSchedule(s) \/ TxNotScheduled(s)

TxWork(s) ==
  TxWorkPrepare(s) \/ TxReqAccept(s) \/ TxReqReject(s) \/ TxWorkFinish(s)

TxNext == \E s \in Skbs : WCH11P_tx(s) \/ TxReturn(s) \/ TxWork(s) \/ TxCnf(s)

\* The work queue runs every item it accepted, a function once entered
\* returns, and the LLC confirms every frame it accepted. mac80211 need not
\* send anything.
FrameFairness(s) ==
  /\ WF_txVars(TxReturn(s))
  /\ WF_txVars(TxWork(s))
  /\ WF_txVars(TxCnf(s))

TxFairness == \A s \in Skbs : FrameFairness(s)

TxSpec == TxInit /\ [][TxNext]_txVars
TxFairSpec == TxSpec /\ TxFairness

-----------------------------------------------------------------------------
(***************************************************************************)
(* Properties.                                                             *)
(***************************************************************************)

TypeOK ==
  /\ tx \in [Skbs -> {"idle", "queued", "refused", "done"}]
  /\ work \in [Skbs -> {"none", "orphan", "queued", "prepared", "accepted",
                        "rejected", "freed"}]
  /\ llc \in [Skbs -> {"none", "held", "confirmed"}]
  /\ frees \in [Skbs -> Nat]

\* No frame is freed twice, whichever of WCH11P_tx, the work item and TxCnf
\* come first: mac80211-ops.c:79-91 and 139-145 against wch11p-ops.c:78-88.
NoDoubleFree == \A s \in Skbs : frees[s] <= 1

\* The parties that will still read or free frame s: WCH11P_tx on its way to
\* Error, an item that has not returned from a TxReq that succeeded, the LLC.
StillUsed(s) ==
  \/ tx[s] = "refused"
  \/ work[s] \in {"queued", "prepared", "rejected"}
  \/ llc[s] = "held"

\* Nobody holds on to a frame that another party has freed: in particular
\* WCH11P_tx does not free a frame whose item was queued, and the work item
\* does not touch one after TxReq accepted it.
NoUseAfterFree == \A s \in Skbs : StillUsed(s) => frees[s] = 0

\* A frame nobody will touch again has been freed: no path of the three
\* functions drops the last reference without dev_kfree_skb.
NoLeak == \A s \in Skbs : tx[s] = "done" /\ frees[s] = 0
                            => StillUsed(s)

\* Every frame handed to WCH11P_tx is freed in the end, on every path.
EveryFrameFreed == \A s \in Skbs : (tx[s] # "idle") ~> (frees[s] = 1)
=============================================================================
