------------------------------- MODULE Driver -------------------------------
(***************************************************************************)
(* The transmit path inside the driver's life. WCH11P_tx runs only on an   *)
(* interface that is up; the work item it leaves behind uses the device    *)
(* and the MKx handle whenever the system work queue comes to it; the LLC  *)
(* confirms a frame through the callbacks the loader sets and clears.      *)
(* Loading, unwinding and unloading neither flush nor cancel work items.   *)
(***************************************************************************)
EXTENDS Lifecycle, TxRefinement

CONSTANT RadioOf    \* RadioOf[s]: the radio on whose interface s is sent

ASSUME RadioOfAssumption == RadioOf \in [Skbs -> Radios]

vars == <<lifeVars, txVars>>

DriverInit == LifeInit /\ TxInit

-----------------------------------------------------------------------------
\* mac80211 stops an interface's queues, and waits for the calls of
\* WCH11P_tx on it to return, before it calls WCH11P_stop.
InCall(s) == tx[s] \in {"queued", "refused"}

TxReturned(r) == \A s \in Skbs : RadioOf[s] = r => ~InCall(s)

ClosesQuietly == \A r \in Radios : iface[r] /\ ~iface'[r] => TxReturned(r)

DriverLife == LifeNext /\ ClosesQuietly /\ UNCHANGED txVars

\* The part of it that WCH11P_init does: the kernel lets it run to its end.
DriverLoads == WCH11P_init /\ ClosesQuietly /\ UNCHANGED txVars

\* mac80211 hands over frames only while the interface is up. It never closes
\* the interface under the call.
DriverTx(s) ==
  /\ \/ iface[RadioOf[s]] /\ WCH11P_tx(s)
     \/ TxReturn(s)
  /\ UNCHANGED lifeVars

\* The module's code is in memory: rmmod, or a failed insmod, frees it.
CodePresent == pc \notin {"failed", "gone"}

\* The work item looks up the rate in the device and calls TxReq through the
\* handle, and tests neither of them. Where one is gone the kernel faults, and
\* nothing is claimed of the item.
DriverWork(s) ==
  /\ CodePresent
  /\ \/ TxWorkPrepare(s) /\ dev[RadioOf[s]] # "freed"
     \/ (TxReqAccept(s) \/ TxReqReject(s)) /\ mkx = "open"
     \/ TxWorkFinish(s)
  /\ UNCHANGED lifeVars

\* The LLC is done with a frame, but Callbacks.TxCnf is NULL. It passes over a
\* NULL callback: WCH11P_init leaves it DebugInd and C2XSecRsp as NULL.
TxCnfSkipped(s) ==
  /\ llc[s] = "held"
  /\ llc' = [llc EXCEPT ![s] = "confirmed"]
  /\ UNCHANGED <<tx, work, frees>>

DriverConfirm(s) ==
  /\ mkx = "open"
  /\ \/ cbs /\ TxCnf(s)
     \/ ~cbs /\ TxCnfSkipped(s)
  /\ UNCHANGED lifeVars

DriverNext ==
  \/ DriverLife
  \/ \E s \in Skbs : DriverTx(s) \/ DriverWork(s) \/ DriverConfirm(s)

DriverSpec == DriverInit /\ [][DriverNext]_vars

\* insmod runs to its end, a function once entered returns, the work queue
\* runs its items and the LLC confirms what it accepted. Nobody has to unload
\* the driver, to open or close an interface, or to send.
DriverReturn(s) == TxReturn(s) /\ UNCHANGED lifeVars

DriverFrameFairness(s) ==
  /\ WF_vars(DriverReturn(s))
  /\ WF_vars(DriverWork(s))
  /\ WF_vars(DriverConfirm(s))

DriverFairness == \A s \in Skbs : DriverFrameFairness(s)

DriverFairSpec == DriverSpec /\ WF_vars(DriverLoads) /\ DriverFairness

-----------------------------------------------------------------------------
(***************************************************************************)
(* Properties.                                                             *)
(***************************************************************************)
\* A work item that has still to use the device and the handle.
Pending(s) == work[s] \in {"queued", "prepared"}

\* Until the driver is unloaded, a work item finds the device and the MKx
\* handle it will dereference (mac80211-ops.c:53, 79), however long the queue
\* keeps it: WCH11P_init never takes them back once an interface of radio B
\* could send, and those of radio A only when the registration of B fails.
\* WCH11P_tx itself keeps its device until it has returned, through the
\* unwinding (netdriver.c:240) and the unload (278) as well.
WorkFindsDriver ==
  \A s \in Skbs :
    /\ Pending(s) /\ pc \notin ExitPcs
         => \/ dev[RadioOf[s]] = "registered" /\ mkx = "open"
            \/ RadioOf[s] = "A" /\ pc \in UnwindPcs \union {"failed"}
    /\ InCall(s) => dev[RadioOf[s]] = "registered"

\* The driver is being loaded, or is loaded.
Staying == pc \in InitPcs \union {"loaded"}

\* As long as it is, whoever has a frame can go on at once: in whatever order
\* interfaces, loader and work queue run, the item never meets a missing device
\* or handle, and the confirmation never a closed LLC.
GoesOnInDriver(s) ==
  /\ InCall(s) => ENABLED <<DriverReturn(s)>>_vars
  /\ work[s] \in {"queued", "prepared", "accepted", "rejected"}
       => ENABLED <<DriverWork(s)>>_vars
  /\ llc[s] = "held" => ENABLED <<DriverConfirm(s)>>_vars

NobodyWaitsInDriver == Staying => \A s \in Skbs : GoesOnInDriver(s)

\* Somebody can still free frame s: WCH11P_tx on its way to Error; the work item,
\* while it can go on to a TxReq that the LLC refuses; the LLC, while its handle
\* is open and the callbacks are set or still to come.
MayFree(s) ==
  \/ tx[s] = "refused"
  \/ CodePresent /\ \/ work[s] = "queued" /\ dev[RadioOf[s]] # "freed"
                                          /\ mkx = "open"
                    \/ work[s] = "prepared" /\ mkx = "open"
                    \/ work[s] = "rejected"
  \/ llc[s] = "held" /\ mkx = "open" /\ (cbs \/ pc \in InitPcs)

\* A frame handed to the driver that nobody freed and nobody can free.
Lost(s) == tx[s] # "idle" /\ frees[s] = 0 /\ ~MayFree(s)

\* Where the LLC may have a frame, and has no TxCnf to call for it or loses the
\* one it has (netdriver.c:198-232, 283).
UnheardPcs(r) ==
  {"callbacks", "clearCallbacks"} \union IF r = "A" THEN {"registerB"} ELSE {}

\* Where the loader takes away what a work item of radio r needs: the device, the
\* confirmation that is to follow, the handle, the code.
StrandedPcs(r) ==
  {"MKx_Exit"} \union IF r = "A" THEN {"freeA"} \union UnwindPcs ELSE {"freeB"}

\* A frame is lost only while the driver comes or goes, and in two ways. The LLC
\* has it: it is done with it before netdriver.c:227 set the callbacks, they will
\* not be set any more as the registration of B failed, or 283 clears them. Or a
\* work item has it when netdriver.c:240-252 or 270-290 take away what the item
\* needs. WCH11P_tx loses none, and a loaded driver loses none.
LostOnlyComingOrGoing ==
  [][ \A s \in Skbs :
        Lost(s)' /\ ~Lost(s)
          => \/ llc[s] = "held" /\ pc \in UnheardPcs(RadioOf[s])
             \/ /\ work[s] \in {"queued", "prepared", "rejected"}
                /\ pc \in StrandedPcs(RadioOf[s]) ]_vars

\* Every frame handed to WCH11P_tx leaves the driver and the LLC, unless the
\* driver is on its way out: freed, or passed over because no callback was set.
EveryFrameLeaves ==
  \A s \in Skbs :
    (tx[s] # "idle") ~> frees[s] = 1 \/ llc[s] = "confirmed" \/ ~Staying

(***************************************************************************)
(* What the source says and the code does not do.                          *)
(***************************************************************************)
\* mac80211-ops.c:88 "pSkb freed in TxCnf() callback": a frame the LLC is done
\* with has been freed.
ConfirmedIsFreed == \A s \in Skbs : llc[s] = "confirmed" => frees[s] = 1

\* netdriver.c:293 "WCH11P driver unloaded succesfully": nothing of the driver
\* is left to run.
UnloadedIsQuiet ==
  \A s \in Skbs : pc = "gone" => work[s] \in {"none", "orphan", "freed"}
=============================================================================
