---------------------------- MODULE TxPathProofs ----------------------------
(***************************************************************************)
(* The safety of the transmit path for every set of frames, finite or not, *)
(* proved from an inductive invariant that gives, for each state of the    *)
(* work item, who still uses the frame and whether it has been freed.      *)
(***************************************************************************)
EXTENDS TxRefinement, TLAPS

\* One conjunct per stage of a frame's life: dropped or not yet sent, not
\* scheduled, with the worker, accepted by the LLC, item freed. It says of a
\* confirmed frame only that it was not freed twice.
FrameCore(s) ==
  /\ frees[s] \in {0, 1}
  /\ tx[s] = "idle" => work[s] = "none" /\ frees[s] = 0
  /\ tx[s] = "queued" => work[s] \notin {"none", "orphan"}
  /\ tx[s] = "refused" => work[s] = "orphan" /\ frees[s] = 0
  /\ work[s] = "none" => llc[s] = "none" /\ (tx[s] = "done" => frees[s] = 1)
  /\ work[s] = "orphan" => /\ llc[s] = "none"
                           /\ tx[s] \in {"refused", "done"}
                           /\ tx[s] = "done" => frees[s] = 1
  /\ work[s] \in {"queued", "prepared", "rejected"}
       => llc[s] = "none" /\ frees[s] = 0
  /\ work[s] = "accepted" => llc[s] # "none"
  /\ llc[s] = "held" => frees[s] = 0
  /\ work[s] = "freed" /\ llc[s] = "none" => frees[s] = 1

\* With every confirmation delivered, a confirmed frame has been freed.
FrameInv(s) == FrameCore(s) /\ (llc[s] = "confirmed" => frees[s] = 1)

TxInv == TypeOK /\ \A s \in Skbs : FrameInv(s)

-----------------------------------------------------------------------------
\* The state is of its types in every step of the transmit path.
LEMMA TypeInit == TxInit => TypeOK
BY DEF TxInit, TypeOK

LEMMA TypeStep == TypeOK /\ [TxNext]_txVars => TypeOK'
<1> SUFFICES ASSUME TypeOK, [TxNext]_txVars PROVE TypeOK'
  OBVIOUS
<1> USE DEF TypeOK, dev_kfree_skb
<1>1. CASE UNCHANGED txVars
  BY <1>1 DEF txVars
<1>2. ASSUME NEW s \in Skbs, WCH11P_tx(s) PROVE TypeOK'
  BY <1>2 DEF WCH11P_tx, TxNoChannel, TxNoMemory, TxSchedule, TxNotScheduled,
              DropNoChannel
<1>3. ASSUME NEW s \in Skbs, TxReturn(s) PROVE TypeOK'
  BY <1>3 DEF TxReturn
<1>4. ASSUME NEW s \in Skbs, TxWork(s) PROVE TypeOK'
  BY <1>4 DEF TxWork, TxWorkPrepare, TxReqAccept, TxReqReject, TxWorkFinish
<1>5. ASSUME NEW s \in Skbs, TxCnf(s) PROVE TypeOK'
  BY <1>5 DEF TxCnf
<1>6. QED
  BY <1>1, <1>2, <1>3, <1>4, <1>5 DEF TxNext

\* Type correctness of the transmit path.
THEOREM TxTypeCorrect == TxSpec => []TypeOK
<1>1. QED
  BY TypeInit, TypeStep, PTL DEF TxSpec

-----------------------------------------------------------------------------
\* A step of one frame leaves every other frame as it is.
LEMMA OneFrameSteps ==
  ASSUME TypeOK, NEW s \in Skbs, NEW t \in Skbs, t # s,
         WCH11P_tx(s) \/ TxReturn(s) \/ TxWork(s) \/ TxCnf(s)
  PROVE  /\ tx'[t] = tx[t] /\ work'[t] = work[t]
         /\ llc'[t] = llc[t] /\ frees'[t] = frees[t]
BY DEF TypeOK, WCH11P_tx, TxNoChannel, TxNoMemory, TxSchedule, TxNotScheduled,
       DropNoChannel, TxReturn, TxWork, TxWorkPrepare, TxReqAccept,
       TxReqReject, TxWorkFinish, TxCnf, dev_kfree_skb

\* The frame that steps keeps its part of the invariant: one case per
\* function of the transmit path.
LEMMA CoreStep ==
  ASSUME TypeOK, NEW s \in Skbs, FrameCore(s),
         WCH11P_tx(s) \/ TxReturn(s) \/ TxWork(s) \/ TxCnf(s)
  PROVE  FrameCore(s)'
<1> USE DEF TypeOK, FrameCore, dev_kfree_skb
<1>1. CASE WCH11P_tx(s)
  BY <1>1 DEF WCH11P_tx, TxNoChannel, TxNoMemory, TxSchedule, TxNotScheduled,
              DropNoChannel
<1>2. CASE TxReturn(s)
  BY <1>2 DEF TxReturn, ScheduleFailed
<1>3. CASE TxWork(s)
  <2>1. CASE TxWorkPrepare(s)
    BY <2>1 DEF TxWorkPrepare
  <2>2. CASE TxReqAccept(s)
    BY <2>2 DEF TxReqAccept
  <2>3. CASE TxReqReject(s)
    BY <2>3 DEF TxReqReject
  <2>4. CASE TxWorkFinish(s)
    BY <2>4 DEF TxWorkFinish, ReqFailed
  <2>5. QED
    BY <1>3, <2>1, <2>2, <2>3, <2>4 DEF TxWork
<1>4. CASE TxCnf(s)
  BY <1>4 DEF TxCnf
<1>5. QED
  BY <1>1, <1>2, <1>3, <1>4

\* If it was freed when it was confirmed, it still is.
LEMMA FrameStep ==
  ASSUME TypeOK, NEW s \in Skbs, FrameInv(s),
         WCH11P_tx(s) \/ TxReturn(s) \/ TxWork(s) \/ TxCnf(s)
  PROVE  FrameInv(s)'
<1> USE DEF TypeOK, dev_kfree_skb
<1>1. FrameCore(s)'
  BY CoreStep DEF FrameInv
<1>2. CASE WCH11P_tx(s)
  BY <1>1, <1>2 DEF WCH11P_tx, TxNoChannel, TxNoMemory, TxSchedule,
                    TxNotScheduled, DropNoChannel, FrameInv, FrameCore
<1>3. CASE TxReturn(s)
  BY <1>1, <1>3 DEF TxReturn, ScheduleFailed, FrameInv, FrameCore
<1>4. CASE TxWork(s)
  BY <1>1, <1>4 DEF TxWork, TxWorkPrepare, TxReqAccept, TxReqReject,
                    TxWorkFinish, ReqFailed, FrameInv, FrameCore
<1>5. CASE TxCnf(s)
  BY <1>1, <1>5 DEF TxCnf, FrameInv, FrameCore
<1>6. QED
  BY <1>2, <1>3, <1>4, <1>5

\* The inductive invariant: it holds initially and every step keeps it.
LEMMA InvInit == TxInit => TxInv
BY TypeInit DEF TxInit, TxInv, FrameInv, FrameCore

LEMMA InvStep == TxInv /\ [TxNext]_txVars => TxInv'
<1> SUFFICES ASSUME TxInv, [TxNext]_txVars PROVE TxInv'
  OBVIOUS
<1>1. TypeOK'
  BY TypeStep DEF TxInv
<1>2. ASSUME NEW t \in Skbs PROVE FrameInv(t)'
  <2>1. CASE UNCHANGED txVars
    BY <2>1 DEF txVars, TxInv, FrameInv, FrameCore
  <2>2. ASSUME NEW s \in Skbs,
               WCH11P_tx(s) \/ TxReturn(s) \/ TxWork(s) \/ TxCnf(s)
        PROVE  FrameInv(t)'
    <3>1. CASE t = s
      BY <2>2, <3>1, FrameStep DEF TxInv
    <3>2. CASE t # s
      BY <2>2, <3>2, OneFrameSteps DEF TxInv, FrameInv, FrameCore
    <3>3. QED
      BY <3>1, <3>2
  <2>3. QED
    BY <2>1, <2>2 DEF TxNext
<1>3. QED
  BY <1>1, <1>2 DEF TxInv

THEOREM TxInvariant == TxSpec => []TxInv
<1>1. QED
  BY InvInit, InvStep, PTL DEF TxSpec

-----------------------------------------------------------------------------
\* No frame is ever freed twice by WCH11P_tx, the work item and TxCnf.
THEOREM TxNoDoubleFree == TxSpec => []NoDoubleFree
<1>1. TxInv => NoDoubleFree
  <2> SUFFICES ASSUME TxInv, NEW s \in Skbs PROVE frees[s] <= 1
    BY DEF NoDoubleFree
  <2>1. frees[s] \in {0, 1}
    BY DEF TxInv, TypeOK, FrameInv, FrameCore
  <2>2. QED
    BY <2>1
<1>2. QED
  BY <1>1, TxInvariant, PTL

\* No party keeps a frame that another one has freed.
THEOREM TxNoUseAfterFree == TxSpec => []NoUseAfterFree
<1>1. TxInv => NoUseAfterFree
  BY DEF TxInv, FrameInv, FrameCore, NoUseAfterFree, StillUsed
<1>2. QED
  BY <1>1, TxInvariant, PTL

\* No path of the three functions loses a frame.
THEOREM TxNoLeak == TxSpec => []NoLeak
<1>1. TxInv => NoLeak
  BY DEF TxInv, TypeOK, FrameInv, FrameCore, NoLeak, StillUsed
<1>2. QED
  BY <1>1, TxInvariant, PTL

-----------------------------------------------------------------------------
(***************************************************************************)
(* Every frame is freed in the end. The provers take ENABLED as it stands  *)
(* and cannot work it out: TxGuardsEnable tells them, as a hypothesis of   *)
(* the theorem, that an action whose written guard holds is enabled. All   *)
(* the rest of weak fairness is in the proof. A frame under way is in one  *)
(* of the stages below, and each leads to the next.                        *)
(***************************************************************************)
TxGuardEnables(s) ==
  /\ tx[s] \in {"queued", "refused"} => ENABLED <<TxReturn(s)>>_txVars
  /\ work[s] \in {"queued", "prepared", "accepted", "rejected"}
       => ENABLED <<TxWork(s)>>_txVars
  /\ llc[s] = "held" => ENABLED <<TxCnf(s)>>_txVars

TxGuardsEnable == \A s \in Skbs : TxGuardEnables(s)

FrameFreed(s)    == frees[s] = 1
FrameRefused(s)  == tx[s] = "refused"
FrameQueued(s)   == work[s] = "queued"
FramePrepared(s) == work[s] = "prepared"
FrameRejected(s) == work[s] = "rejected"
FrameHeld(s)     == llc[s] = "held"

LEMMA UnderWay ==
  ASSUME NEW s \in Skbs, TypeOK, FrameCore(s)
  PROVE  tx[s] # "idle"
           => \/ FrameFreed(s) \/ FrameRefused(s) \/ FrameQueued(s)
              \/ FramePrepared(s) \/ FrameRejected(s) \/ llc[s] # "none"
BY DEF TypeOK, FrameCore, FrameFreed, FrameRefused, FrameQueued, FramePrepared,
       FrameRejected

\* What a step of a frame does to it at each stage.
LEMMA StageStep ==
  ASSUME TypeOK, NEW s \in Skbs, FrameCore(s),
         WCH11P_tx(s) \/ TxReturn(s) \/ TxWork(s) \/ TxCnf(s)
  PROVE  /\ FrameRefused(s)  => FrameRefused(s)' \/ FrameFreed(s)'
         /\ FrameQueued(s)   => FrameQueued(s)' \/ FramePrepared(s)'
         /\ FramePrepared(s) => \/ FramePrepared(s)' \/ FrameRejected(s)'
                                \/ FrameHeld(s)'
         /\ FrameRejected(s) => FrameRejected(s)' \/ FrameFreed(s)'
         /\ FrameHeld(s)     => FrameHeld(s)' \/ FrameFreed(s)'
<1> USE DEF FrameFreed, FrameRefused, FrameQueued, FramePrepared, FrameRejected,
            FrameHeld, TypeOK, FrameCore, dev_kfree_skb
<1>1. CASE WCH11P_tx(s)
  BY <1>1 DEF WCH11P_tx, TxNoChannel, TxNoMemory, TxSchedule, TxNotScheduled,
              DropNoChannel
<1>2. CASE TxReturn(s)
  BY <1>2 DEF TxReturn, ScheduleFailed
<1>3. CASE TxWork(s)
  BY <1>3 DEF TxWork, TxWorkPrepare, TxReqAccept, TxReqReject, TxWorkFinish,
              ReqFailed
<1>4. CASE TxCnf(s)
  BY <1>4 DEF TxCnf
<1>5. QED
  BY <1>1, <1>2, <1>3, <1>4

\* What the party that has the frame does to it.
LEMMA StageMoves ==
  ASSUME TypeOK, NEW s \in Skbs, FrameCore(s)
  PROVE  /\ FrameRefused(s) /\ TxReturn(s) => FrameFreed(s)'
         /\ FrameQueued(s) /\ TxWork(s) => FramePrepared(s)'
         /\ FramePrepared(s) /\ TxWork(s) => FrameRejected(s)' \/ FrameHeld(s)'
         /\ FrameRejected(s) /\ TxWork(s) => FrameFreed(s)'
         /\ FrameHeld(s) /\ TxCnf(s) => FrameFreed(s)'
BY DEF FrameFreed, FrameRefused, FrameQueued, FramePrepared, FrameRejected,
       FrameHeld, TypeOK, FrameCore, TxReturn, ScheduleFailed, TxWork,
       TxWorkPrepare, TxReqAccept, TxReqReject, TxWorkFinish, ReqFailed, TxCnf,
       dev_kfree_skb

\* Every frame handed to WCH11P_tx is freed in the end, for any number of
\* frames: by WCH11P_tx, by the worker or by the confirmation.
THEOREM TxEveryFrameFreed ==
  TxFairSpec /\ []TxGuardsEnable => EveryFrameFreed
<1>1. ASSUME NEW s \in Skbs
      PROVE  TxFairSpec /\ []TxGuardsEnable
               => ((tx[s] # "idle") ~> (frees[s] = 1))
  <2>1. TxFairness => FrameFairness(s)
    BY DEF TxFairness
  <2>2. TxGuardsEnable => TxGuardEnables(s)
    BY DEF TxGuardsEnable
  <2>3. /\ FrameRefused(s) /\ TxGuardEnables(s) => ENABLED <<TxReturn(s)>>_txVars
        /\ FrameQueued(s) /\ TxGuardEnables(s) => ENABLED <<TxWork(s)>>_txVars
        /\ FramePrepared(s) /\ TxGuardEnables(s) => ENABLED <<TxWork(s)>>_txVars
        /\ FrameRejected(s) /\ TxGuardEnables(s) => ENABLED <<TxWork(s)>>_txVars
        /\ FrameHeld(s) /\ TxGuardEnables(s) => ENABLED <<TxCnf(s)>>_txVars
    BY DEF TxGuardEnables, FrameRefused, FrameQueued, FramePrepared, FrameRejected,
           FrameHeld
  <2>4. ASSUME TxInv, [TxNext]_txVars
        PROVE  /\ FrameRefused(s) => FrameRefused(s)' \/ FrameFreed(s)'
               /\ FrameQueued(s) => FrameQueued(s)' \/ FramePrepared(s)'
               /\ FramePrepared(s) => \/ FramePrepared(s)' \/ FrameRejected(s)'
                                      \/ FrameHeld(s)'
               /\ FrameRejected(s) => FrameRejected(s)' \/ FrameFreed(s)'
               /\ FrameHeld(s) => FrameHeld(s)' \/ FrameFreed(s)'
    <3>1. CASE WCH11P_tx(s) \/ TxReturn(s) \/ TxWork(s) \/ TxCnf(s)
      BY <2>4, <3>1, StageStep DEF TxInv, FrameInv
    <3>2. CASE UNCHANGED <<tx[s], work[s], llc[s], frees[s]>>
      BY <3>2 DEF FrameFreed, FrameRefused, FrameQueued, FramePrepared,
                  FrameRejected, FrameHeld
    <3>3. QED
      BY <2>4, <3>1, <3>2, OneFrameSteps DEF TxInv, TxNext, txVars
  <2>5. ASSUME TxInv
        PROVE  /\ FrameRefused(s) /\ TxReturn(s) => FrameFreed(s)'
               /\ FrameQueued(s) /\ TxWork(s) => FramePrepared(s)'
               /\ FramePrepared(s) /\ TxWork(s)
                    => FrameRejected(s)' \/ FrameHeld(s)'
               /\ FrameRejected(s) /\ TxWork(s) => FrameFreed(s)'
               /\ FrameHeld(s) /\ TxCnf(s) => FrameFreed(s)'
    BY <2>5, StageMoves DEF TxInv, FrameInv
  <2>6. TxInv /\ tx[s] # "idle"
          => \/ FrameFreed(s) \/ FrameRefused(s) \/ FrameQueued(s)
             \/ FramePrepared(s) \/ FrameRejected(s) \/ FrameHeld(s)
    BY UnderWay DEF TxInv, TypeOK, FrameInv, FrameFreed, FrameHeld
  <2>7. FrameFreed(s) => frees[s] = 1
    BY DEF FrameFreed
  <2>8. QED
    BY <2>1, <2>2, <2>3, <2>4, <2>5, <2>6, <2>7, TxInvariant, PTL
       DEF TxFairSpec, TxSpec, FrameFairness
<1>2. QED
  BY <1>1 DEF EveryFrameFreed

-----------------------------------------------------------------------------
\* The refinement mapping, read off for each state the invariant allows.
LEMMA PlaceValue ==
  ASSUME NEW s \in Skbs, FrameCore(s)
  PROVE  /\ tx[s] = "idle" => PlaceOf(s) = "stack"
         /\ frees[s] = 1 => PlaceOf(s) = "released"
         /\ frees[s] = 0 /\ llc[s] # "none" => PlaceOf(s) = "radio"
         /\ frees[s] = 0 /\ llc[s] = "none" /\ tx[s] # "idle"
              => PlaceOf(s) = "driver"
         /\ frees[s] \in {0, 1}
BY DEF FrameCore, PlaceOf

\* Frame s moves along FrameLife, or stays where it is.
Moved(s) ==
  \/ PlaceOf(s)' = PlaceOf(s)
  \/ PlaceOf(s) = "stack" /\ PlaceOf(s)' \in {"driver", "released"}
  \/ PlaceOf(s) = "driver" /\ PlaceOf(s)' \in {"radio", "released"}
  \/ PlaceOf(s) = "radio" /\ PlaceOf(s)' = "released"

\* What each function of the transmit path does to its frame's place.
LEMMA PlaceStep ==
  ASSUME TypeOK, NEW s \in Skbs, FrameCore(s), FrameCore(s)',
         WCH11P_tx(s) \/ TxReturn(s) \/ TxWork(s) \/ TxCnf(s)
  PROVE  Moved(s)
<1>1. /\ tx[s] = "idle" => PlaceOf(s) = "stack"
      /\ frees[s] = 1 => PlaceOf(s) = "released"
      /\ frees[s] = 0 /\ llc[s] # "none" => PlaceOf(s) = "radio"
      /\ frees[s] = 0 /\ llc[s] = "none" /\ tx[s] # "idle"
           => PlaceOf(s) = "driver"
      /\ frees[s] \in {0, 1}
  BY PlaceValue
<1>2. /\ tx'[s] = "idle" => PlaceOf(s)' = "stack"
      /\ frees'[s] = 1 => PlaceOf(s)' = "released"
      /\ frees'[s] = 0 /\ llc'[s] # "none" => PlaceOf(s)' = "radio"
      /\ frees'[s] = 0 /\ llc'[s] = "none" /\ tx'[s] # "idle"
           => PlaceOf(s)' = "driver"
      /\ frees'[s] \in {0, 1}
  BY DEF FrameCore, PlaceOf
<1> USE DEF TypeOK, FrameCore, Moved, dev_kfree_skb
<1>3. CASE WCH11P_tx(s)
  BY <1>1, <1>2, <1>3 DEF WCH11P_tx, TxNoChannel, TxNoMemory, TxSchedule,
                          TxNotScheduled, DropNoChannel
<1>4. CASE TxReturn(s)
  BY <1>1, <1>2, <1>4 DEF TxReturn, ScheduleFailed
<1>5. CASE TxWork(s)
  BY <1>1, <1>2, <1>5 DEF TxWork, TxWorkPrepare, TxReqAccept, TxReqReject,
                          TxWorkFinish, ReqFailed
<1>6. CASE TxCnf(s)
  BY <1>1, <1>2, <1>6 DEF TxCnf
<1>7. QED
  BY <1>3, <1>4, <1>5, <1>6

\* A step that moves one frame, and leaves the others, is one of FrameLife or
\* changes nothing there.
LEMMA MoveRefines ==
  ASSUME NEW s \in Skbs, Moved(s),
         \A t \in Skbs : t # s => PlaceOf(t)' = PlaceOf(t)
  PROVE  [FL!Next]_([t \in Skbs |-> PlaceOf(t)])
<1> DEFINE P == [t \in Skbs |-> PlaceOf(t)]
<1>1. P' = [P EXCEPT ![s] = PlaceOf(s)']
  OBVIOUS
<1>2. P[s] = PlaceOf(s)
  OBVIOUS
<1>3. CASE PlaceOf(s)' = PlaceOf(s)
  BY <1>3
<1>4. CASE PlaceOf(s)' # PlaceOf(s)
  <2>. HIDE DEF P
  <2>1. \E from, to \in {"stack", "driver", "radio", "released"} :
          /\ P[s] = from /\ P' = [P EXCEPT ![s] = to]
          /\ \/ from = "stack" /\ to \in {"driver", "released"}
             \/ from = "driver" /\ to \in {"radio", "released"}
             \/ from = "radio" /\ to = "released"
    BY <1>1, <1>2, <1>4 DEF Moved
  <2>2. QED
    BY <2>1 DEF P, FL!Next, FL!Take, FL!Discard, FL!Transmit, FL!Confirm,
                FL!Moves
<1>5. QED
  BY <1>3, <1>4

LEMMA PlaceInit == TxInit => FL!Init
<1> SUFFICES ASSUME TxInit PROVE FL!Init
  OBVIOUS
<1>1. \A s \in Skbs : PlaceOf(s) = "stack"
  BY InvInit, PlaceValue DEF TxInit, TxInv, FrameInv
<1>2. QED
  BY <1>1 DEF FL!Init

\* The transmit path implements FrameLife: initial states map to initial
\* states, and every step to a step of one frame or to a stutter.
THEOREM TxImplementsFrameLife == TxSpec => ImplementsFrameLife
<1>1. TxInv /\ TxInv' /\ [TxNext]_txVars
        => [FL!Next]_([s \in Skbs |-> PlaceOf(s)])
  <2> SUFFICES ASSUME TxInv, TxInv', [TxNext]_txVars
               PROVE  [FL!Next]_([s \in Skbs |-> PlaceOf(s)])
    OBVIOUS
  <2>1. CASE UNCHANGED txVars
    BY <2>1 DEF txVars, PlaceOf
  <2>2. ASSUME NEW s \in Skbs,
               WCH11P_tx(s) \/ TxReturn(s) \/ TxWork(s) \/ TxCnf(s)
        PROVE  [FL!Next]_([t \in Skbs |-> PlaceOf(t)])
    <3>1. \A t \in Skbs : t # s => PlaceOf(t)' = PlaceOf(t)
      BY <2>2, OneFrameSteps DEF TxInv, PlaceOf
    <3>2. Moved(s)
      BY <2>2, PlaceStep DEF TxInv, FrameInv
    <3>3. QED
      BY <3>1, <3>2, MoveRefines
  <2>3. QED
    BY <2>1, <2>2 DEF TxNext
<1>2. QED
  BY PlaceInit, TxInvariant, <1>1, PTL DEF TxSpec, ImplementsFrameLife, FL!Spec
=============================================================================
