---------------------------- MODULE DriverProofs ----------------------------
(***************************************************************************)
(* The composed driver, for every set of frames and every assignment of    *)
(* frames to radios. Its steps are those of Lifecycle and TxPath, except   *)
(* that a confirmation may be passed over: the part FrameCore of TxPath's  *)
(* invariant survives that, and with it the absence of double frees and of *)
(* uses after free. What a pending work item finds follows from where the  *)
(* loader can be once an interface was up.                                 *)
(***************************************************************************)
EXTENDS Driver, LifecycleProofs, TxPathProofs

\* Where the loader may be after an interface of radio r was up.
UpPcs(r) ==
  LET both == {"callbacks", "disableA", "disableB", "loaded"} \union ExitPcs
  IN  IF r = "B" THEN both
                 ELSE both \union {"registerB", "failed"} \union UnwindPcs

\* A frame that got a work item was sent on such an interface.
SentWhenUp(s) == work[s] # "none" => mkx # "null" /\ pc \in UpPcs(RadioOf[s])

\* An interface stays up under a call of WCH11P_tx.
UpInCall(s) == InCall(s) => iface[RadioOf[s]]

DriverInv ==
  /\ LifeInv /\ TypeOK
  /\ \A s \in Skbs : FrameCore(s) /\ SentWhenUp(s) /\ UpInCall(s)

-----------------------------------------------------------------------------
LEMMA DriverInvInit == DriverInit => DriverInv
<1> SUFFICES ASSUME DriverInit PROVE DriverInv
  OBVIOUS
<1>1. LifeInv /\ TypeOK
  BY LifeInvInit, TypeInit DEF DriverInit
<1>2. \A s \in Skbs : FrameCore(s) /\ SentWhenUp(s) /\ UpInCall(s)
  BY DEF DriverInit, TxInit, FrameCore, SentWhenUp, UpInCall, InCall
<1>3. QED
  BY <1>1, <1>2 DEF DriverInv

\* An interface is up only where UpPcs says.
LEMMA UpWhere ==
  ASSUME LifeInv, NEW r \in Radios, iface[r]
  PROVE  mkx # "null" /\ pc \in UpPcs(r)
<1>1. dev[r] = "registered"
  BY DEF LifeInv, Beneath
<1>2. CASE r = "A"
  BY <1>1, <1>2 DEF LifeInv, LifeTypeOK, Held, Has, Empty, UpPcs, InitPcs,
                    UnwindPcs, ExitPcs
<1>3. CASE r = "B"
  BY <1>1, <1>3 DEF LifeInv, LifeTypeOK, Held, Has, Empty, UpPcs, InitPcs,
                    UnwindPcs, ExitPcs
<1>4. QED
  BY <1>2, <1>3 DEF Radios

\* And the loader never leaves those statements again, nor forgets the handle.
LEMMA UpForGood ==
  ASSUME LifeInv, LifeNext, NEW r \in Radios, mkx # "null", pc \in UpPcs(r)
  PROVE  mkx' # "null" /\ pc' \in UpPcs(r)
<1> USE DEF UpPcs, UnwindPcs, ExitPcs, Goto
<1>1. CASE WCH11P_init
  <2>1. pc # "MKx_Init"
    BY DEF Radios
  <2>2. mkx' # "null"
    BY <1>1, <2>1 DEF WCH11P_init, InitMKx, Alloc, Register, SetCallbacks,
                      Disable, Fails, Unwind, MKx_Exit, driverVars
  <2>3. CASE SetCallbacks \/ Disable("A", "disableA", "disableB")
    BY <2>2, <2>3 DEF SetCallbacks, Disable
  <2>4. CASE Disable("B", "disableB", Returned(STATUS))
    <3>1. STATUS # "error"
      BY <2>4 DEF Disable, LifeInv, Beneath
    <3>2. STATUS = "ok"
      BY <3>1 DEF LifeInv, LifeTypeOK
    <3>3. QED
      BY <2>2, <2>4, <3>2 DEF Disable, Returned
  <2>5. CASE Unwind
    <3>1. r = "A"
      BY <2>5 DEF Unwind, Radios
    <3>2. pc' \in UnwindPcs \union {"failed", "loaded"}
      BY <2>5 DEF Unwind, Returned
    <3>3. QED
      BY <2>2, <3>1, <3>2
  <2>6. CASE Register("B", "registerB", "callbacks", "BadHwRegB")
    BY <2>2, <2>6 DEF Register, Fails, Radios
  <2>7. CASE \/ Alloc("A", "allocA", "allocB", "BadHwAllocA")
             \/ Alloc("B", "allocB", "registerA", "BadHwAllocB")
             \/ Register("A", "registerA", "registerB", "BadHwRegA")
    BY <2>7 DEF Alloc, Register, Fails, Radios
  <2>8. QED
    BY <1>1, <2>1, <2>2, <2>3, <2>4, <2>5, <2>6, <2>7
       DEF WCH11P_init, InitMKx
<1>2. CASE WCH11P_exit
  <2>1. pc' \in ExitPcs
    BY <1>2 DEF WCH11P_exit, ExitDevice, ExitMKx
  <2>2. mkx' # "null"
    BY <1>2 DEF WCH11P_exit, ExitDevice, ExitMKx, MKx_Exit, driverVars
  <2>3. QED
    BY <2>1, <2>2
<1>3. CASE Beside
  BY <1>3 DEF Beside, WCH11P_start, WCH11P_stop, RxBegin, WCH11P_RxInd,
              driverVars
<1>4. QED
  BY <1>1, <1>2, <1>3 DEF LifeNext, Loader

\* A frame gets its work item while its interface is up, and only then.
LEMMA SentStep ==
  ASSUME LifeInv, TypeOK, NEW s \in Skbs, SentWhenUp(s), UNCHANGED lifeVars,
         DriverTx(s) \/ DriverWork(s) \/ DriverConfirm(s)
  PROVE  SentWhenUp(s)'
<1>1. pc' = pc /\ mkx' = mkx
  BY DEF lifeVars, driverVars
<1>2. CASE work[s] # "none"
  BY <1>1, <1>2 DEF SentWhenUp, UpPcs
<1>3. CASE work[s] = "none" /\ iface[RadioOf[s]]
  BY <1>1, <1>3, UpWhere, RadioOfAssumption DEF SentWhenUp, UpPcs
<1>4. CASE work[s] = "none" /\ ~iface[RadioOf[s]]
  BY <1>4 DEF TypeOK, SentWhenUp, DriverTx, TxReturn, DriverWork, TxWorkPrepare,
              TxReqAccept, TxReqReject, TxWorkFinish, DriverConfirm, TxCnf,
              TxCnfSkipped
<1>5. QED
  BY <1>2, <1>3, <1>4

\* A call begins on an interface that is up.
LEMMA CallStep ==
  ASSUME TypeOK, NEW s \in Skbs, UpInCall(s), UNCHANGED lifeVars,
         DriverTx(s) \/ DriverWork(s) \/ DriverConfirm(s)
  PROVE  UpInCall(s)'
<1>1. CASE iface[RadioOf[s]]
  BY <1>1 DEF UpInCall, lifeVars, radioVars
<1>2. CASE ~iface[RadioOf[s]]
  BY <1>2 DEF TypeOK, UpInCall, InCall, DriverTx, TxReturn, DriverWork,
              TxWorkPrepare, TxReqAccept, TxReqReject, TxWorkFinish,
              DriverConfirm, TxCnf, TxCnfSkipped, lifeVars, radioVars
<1>3. QED
  BY <1>1, <1>2

\* A confirmation that finds no callback frees nothing.
LEMMA SkipStep ==
  ASSUME TypeOK, NEW s \in Skbs, FrameCore(s), TxCnfSkipped(s)
  PROVE  TypeOK' /\ FrameCore(s)'
BY DEF TypeOK, FrameCore, TxCnfSkipped

\* Every step on a frame is one of TxPath, or a confirmation passed over.
LEMMA FrameSteps ==
  ASSUME NEW s \in Skbs, DriverTx(s) \/ DriverWork(s) \/ DriverConfirm(s)
  PROVE  /\ UNCHANGED lifeVars
         /\ \/ WCH11P_tx(s) \/ TxReturn(s) \/ TxWork(s) \/ TxCnf(s)
            \/ TxCnfSkipped(s)
BY DEF DriverTx, DriverWork, DriverConfirm, TxWork

LEMMA DriverInvStep == DriverInv /\ [DriverNext]_vars => DriverInv'
<1> SUFFICES ASSUME DriverInv, [DriverNext]_vars PROVE DriverInv'
  OBVIOUS
<1>1. CASE DriverLife
  <2>1. LifeInv'
    BY <1>1, LifeInvStep DEF DriverInv, DriverLife
  <2>2. TypeOK' /\ \A s \in Skbs : FrameCore(s)'
    BY <1>1 DEF DriverInv, DriverLife, txVars, TypeOK, FrameCore
  <2>3. ASSUME NEW s \in Skbs PROVE SentWhenUp(s)'
    <3>1. RadioOf[s] \in Radios
      BY RadioOfAssumption
    <3>2. work' = work
      BY <1>1 DEF DriverLife, txVars
    <3>3. SentWhenUp(s)
      BY DEF DriverInv
    <3>4. CASE work[s] = "none"
      BY <3>2, <3>4 DEF SentWhenUp
    <3>5. CASE work[s] # "none"
      <4>1. mkx' # "null" /\ pc' \in UpPcs(RadioOf[s])
        BY <1>1, <3>1, <3>3, <3>5, UpForGood DEF DriverInv, DriverLife, SentWhenUp
      <4>2. QED
        BY <4>1 DEF SentWhenUp, UpPcs
    <3>6. QED
      BY <3>4, <3>5
  <2>4. ASSUME NEW s \in Skbs PROVE UpInCall(s)'
    <3>1. RadioOf[s] \in Radios
      BY RadioOfAssumption
    <3>2. tx' = tx /\ ClosesQuietly
      BY <1>1 DEF DriverLife, txVars
    <3>3. QED
      BY <3>1, <3>2 DEF DriverInv, UpInCall, InCall, ClosesQuietly, TxReturned
  <2>5. QED
    BY <2>1, <2>2, <2>3, <2>4 DEF DriverInv
<1>2. ASSUME NEW s \in Skbs, DriverTx(s) \/ DriverWork(s) \/ DriverConfirm(s)
      PROVE  DriverInv'
  <2>1. UNCHANGED lifeVars
    BY <1>2, FrameSteps
  <2>2. LifeInv'
    BY <2>1, LifeInvStep DEF DriverInv
  <2>3. /\ TypeOK' /\ \A t \in Skbs : FrameCore(t)'
        /\ \A t \in Skbs : t # s => work'[t] = work[t] /\ tx'[t] = tx[t]
    <3>1. CASE WCH11P_tx(s) \/ TxReturn(s) \/ TxWork(s) \/ TxCnf(s)
      <4>1. TypeOK'
        BY <3>1, TypeStep DEF DriverInv, TxNext
      <4>2. ASSUME NEW t \in Skbs PROVE FrameCore(t)'
        <5>1. CASE t = s
          BY <3>1, <5>1, CoreStep DEF DriverInv
        <5>2. CASE t # s
          BY <3>1, <5>2, OneFrameSteps DEF DriverInv, FrameCore
        <5>3. QED
          BY <5>1, <5>2
      <4>3. \A t \in Skbs : t # s => work'[t] = work[t] /\ tx'[t] = tx[t]
        BY <3>1, OneFrameSteps DEF DriverInv
      <4>4. QED
        BY <4>1, <4>2, <4>3
    <3>2. CASE TxCnfSkipped(s)
      <4>1. TypeOK' /\ FrameCore(s)'
        BY <3>2, SkipStep DEF DriverInv
      <4>2. \A t \in Skbs : t # s => FrameCore(t)'
        BY <3>2 DEF DriverInv, TypeOK, FrameCore, TxCnfSkipped
      <4>3. QED
        BY <3>2, <4>1, <4>2 DEF TxCnfSkipped
    <3>3. QED
      BY <1>2, <3>1, <3>2, FrameSteps
  <2>4. ASSUME NEW t \in Skbs PROVE SentWhenUp(t)'
    <3>1. CASE t = s
      BY <1>2, <2>1, <3>1, SentStep DEF DriverInv
    <3>2. CASE t # s
      BY <2>1, <2>3, <3>2 DEF DriverInv, SentWhenUp, UpPcs, lifeVars, driverVars
    <3>3. QED
      BY <3>1, <3>2
  <2>5. ASSUME NEW t \in Skbs PROVE UpInCall(t)'
    <3>1. CASE t = s
      BY <1>2, <2>1, <3>1, CallStep DEF DriverInv
    <3>2. CASE t # s
      BY <2>1, <2>3, <3>2 DEF DriverInv, UpInCall, InCall, lifeVars, radioVars
    <3>3. QED
      BY <3>1, <3>2
  <2>6. QED
    BY <2>2, <2>3, <2>4, <2>5 DEF DriverInv
<1>3. CASE UNCHANGED vars
  <2>1. UNCHANGED lifeVars /\ UNCHANGED txVars
    BY <1>3 DEF vars
  <2>2. LifeInv'
    BY <2>1, LifeInvStep DEF DriverInv
  <2>3. TypeOK' /\ \A s \in Skbs : FrameCore(s)'
    BY <2>1 DEF DriverInv, txVars, TypeOK, FrameCore
  <2>4. \A s \in Skbs : SentWhenUp(s)'
    BY <2>1 DEF DriverInv, SentWhenUp, UpPcs, lifeVars, driverVars, txVars
  <2>5. \A s \in Skbs : UpInCall(s)'
    BY <2>1 DEF DriverInv, UpInCall, InCall, lifeVars, radioVars, txVars
  <2>6. QED
    BY <2>2, <2>3, <2>4, <2>5 DEF DriverInv
<1>4. QED
  BY <1>1, <1>2, <1>3 DEF DriverNext

THEOREM DriverInvariant == DriverSpec => []DriverInv
<1>1. QED
  BY DriverInvInit, DriverInvStep, PTL DEF DriverSpec

-----------------------------------------------------------------------------
\* In the whole driver too, no frame is freed twice.
THEOREM DriverNoDoubleFree == DriverSpec => []NoDoubleFree
<1>1. DriverInv => NoDoubleFree
  <2> SUFFICES ASSUME DriverInv, NEW s \in Skbs PROVE frees[s] <= 1
    BY DEF NoDoubleFree
  <2>1. frees[s] \in {0, 1}
    BY DEF DriverInv, FrameCore
  <2>2. QED
    BY <2>1
<1>2. QED
  BY <1>1, DriverInvariant, PTL

\* And nobody uses a frame another party has freed.
THEOREM DriverNoUseAfterFree == DriverSpec => []NoUseAfterFree
<1>1. DriverInv => NoUseAfterFree
  BY DEF DriverInv, FrameCore, NoUseAfterFree, StillUsed
<1>2. QED
  BY <1>1, DriverInvariant, PTL

\* However many items are pending, and on whichever radio, each finds its
\* device and the handle until the unload; and a call of WCH11P_tx never loses
\* its device, not even to the unload.
THEOREM DriverWorkFindsDriver == DriverSpec => []WorkFindsDriver
<1>1. ASSUME DriverInv, NEW s \in Skbs, Pending(s), pc \notin ExitPcs
      PROVE  \/ dev[RadioOf[s]] = "registered" /\ mkx = "open"
             \/ RadioOf[s] = "A" /\ pc \in UnwindPcs \union {"failed"}
  <2>1. RadioOf[s] \in {"A", "B"}
    BY RadioOfAssumption DEF Radios
  <2>2. mkx # "null" /\ pc \in UpPcs(RadioOf[s])
    BY <1>1 DEF DriverInv, SentWhenUp, Pending
  <2>3. Held
    BY <1>1 DEF DriverInv, LifeInv
  <2>4. CASE pc \in {"callbacks", "disableA", "disableB", "loaded"}
    BY <2>1, <2>2, <2>3, <2>4 DEF Held, Has, Empty
  <2>5. CASE pc = "registerB" /\ RadioOf[s] = "A"
    BY <2>3, <2>5 DEF Held, Has
  <2>6. QED
    BY <1>1, <2>1, <2>2, <2>4, <2>5 DEF UpPcs
<1>2. ASSUME DriverInv, NEW s \in Skbs, InCall(s)
      PROVE  dev[RadioOf[s]] = "registered"
  <2>1. iface[RadioOf[s]] /\ RadioOf[s] \in Radios
    BY <1>2, RadioOfAssumption DEF DriverInv, UpInCall
  <2>2. QED
    BY <1>2, <2>1 DEF DriverInv, LifeInv, Beneath
<1>3. DriverInv => WorkFindsDriver
  BY <1>1, <1>2 DEF WorkFindsDriver
<1>4. QED
  BY <1>3, DriverInvariant, PTL

-----------------------------------------------------------------------------
(***************************************************************************)
(* Frames that get lost, and frames that leave.                            *)
(***************************************************************************)
\* What the LLC holds was sent through a work item, so the loader is where the
\* handle is open, until WCH11P_exit closes it.
LEMMA HeldWhere ==
  ASSUME DriverInv, NEW s \in Skbs, llc[s] # "none"
  PROVE  pc \in UpPcs(RadioOf[s]) /\ (Staying => mkx = "open")
<1>1. RadioOf[s] \in {"A", "B"}
  BY RadioOfAssumption DEF Radios
<1>2. mkx # "null" /\ pc \in UpPcs(RadioOf[s])
  BY DEF DriverInv, FrameCore, SentWhenUp
<1>3. Staying => mkx = "open"
  BY <1>1, <1>2 DEF DriverInv, LifeInv, Held, Has, Empty, Staying, InitPcs, UpPcs,
                    ExitPcs, UnwindPcs
<1>4. QED
  BY <1>2, <1>3

\* Where the code is in memory and the handle exists, it is open.
LEMMA OpenWhilePresent ==
  ASSUME LifeInv, CodePresent, mkx # "null"
  PROVE  mkx = "open"
BY DEF LifeInv, LifeTypeOK, Held, Has, Empty, CodePresent, InitPcs, UnwindPcs,
       ExitPcs

\* What a work item of radio r needs is taken away only at StrandedPcs.
LEMMA Strands ==
  ASSUME LifeInv, LifeNext, NEW r \in Radios, mkx = "open",
         pc \in UpPcs(r) \ StrandedPcs(r)
  PROVE  mkx' = "open" /\ CodePresent' /\ (dev[r] # "freed" => dev'[r] # "freed")
<1>1. r \in {"A", "B"}
  BY DEF Radios
<1>2. pc \notin UnwindPcs \union {"MKx_Init", "MKx_Exit", "gone", "failed"}
  BY <1>1 DEF UpPcs, StrandedPcs, InitPcs, UnwindPcs, ExitPcs, LifeInv, Held, Has,
              Empty
<1>3. CASE Beside
  BY <1>2, <1>3 DEF Beside, WCH11P_start, WCH11P_stop, RxBegin, WCH11P_RxInd,
                    driverVars, CodePresent
<1>4. CASE WCH11P_init
  <2>1. mkx' = "open" /\ dev'[r] \in {dev[r], "alloc", "registered"}
    BY <1>1, <1>2, <1>4 DEF WCH11P_init, InitMKx, Alloc, Register, SetCallbacks,
         Disable, Fails, Unwind, Goto, driverVars, LifeInv, LifeTypeOK, UnwindPcs
  <2>2. LifeInv' /\ mkx' # "closed"
    BY <1>4, <2>1, LifeInvStep DEF LifeNext, Loader
  <2>3. CodePresent'
    BY <2>1, <2>2 DEF LifeInv, Held, Has, Empty, CodePresent
  <2>4. QED
    BY <2>1, <2>3
<1>5. CASE WCH11P_exit
  <2>1. mkx' = "open"
    BY <1>2, <1>5 DEF WCH11P_exit, ExitDevice, ExitMKx, Goto, driverVars
  <2>2. LifeInv'
    BY <1>5, LifeInvStep DEF LifeNext, Loader
  <2>3. CodePresent'
    BY <2>1, <2>2 DEF LifeInv, Held, Has, Empty, CodePresent
  <2>4. dev[r] # "freed" => dev'[r] # "freed"
    <3>1. CASE ExitDevice("A", "exitA", "freeA", "exitB")
      BY <1>1, <1>2, <3>1 DEF ExitDevice, UnregisterHw, FreeHw, StrandedPcs, Goto,
                              driverVars, LifeInv, LifeTypeOK, Radios
    <3>2. CASE ExitDevice("B", "exitB", "freeB", "clearPriv")
      BY <1>1, <1>2, <3>2 DEF ExitDevice, UnregisterHw, FreeHw, StrandedPcs, Goto,
                              driverVars, LifeInv, LifeTypeOK, Radios
    <3>3. QED
      BY <1>5, <3>1, <3>2 DEF WCH11P_exit, ExitMKx, driverVars
  <2>5. QED
    BY <2>1, <2>3, <2>4
<1>6. QED
  BY <1>3, <1>4, <1>5 DEF LifeNext, Loader

\* The LLC that holds a frame of radio r stays open, with its callbacks set or
\* still to come, except at UnheardPcs.
LEMMA Unhears ==
  ASSUME LifeInv, LifeNext, NEW r \in Radios, mkx = "open",
         pc \in UpPcs(r) \ UnheardPcs(r), cbs \/ pc \in InitPcs
  PROVE  mkx' = "open" /\ (cbs' \/ pc' \in InitPcs)
<1>1. r \in {"A", "B"}
  BY DEF Radios
<1>2. /\ cbs /\ pc \in Ready \ {"MKx_Exit", "clearCallbacks", "gone"}
  BY <1>1 DEF LifeInv, Beneath, Held, Has, Empty, Ready, UpPcs, UnheardPcs,
              InitPcs, UnwindPcs, ExitPcs
<1>3. CASE Beside
  BY <1>2, <1>3 DEF Beside, WCH11P_start, WCH11P_stop, RxBegin, WCH11P_RxInd,
                    driverVars
<1>4. CASE WCH11P_init
  BY <1>2, <1>4 DEF WCH11P_init, InitMKx, Alloc, Register, SetCallbacks, Disable,
       Fails, Unwind, Goto, driverVars, Ready, UnwindPcs, ExitPcs
<1>5. CASE WCH11P_exit
  BY <1>2, <1>5 DEF WCH11P_exit, ExitDevice, ExitMKx, Goto, driverVars
<1>6. QED
  BY <1>3, <1>4, <1>5 DEF LifeNext, Loader

\* A frame is lost at this step, where the comment of the property says.
LostAt(s) ==
  \/ llc[s] = "held" /\ pc \in UnheardPcs(RadioOf[s])
  \/ /\ work[s] \in {"queued", "prepared", "rejected"}
     /\ pc \in StrandedPcs(RadioOf[s])

\* The loader or an interface moves, and the frames stay.
LEMMA LostByLife ==
  ASSUME DriverInv, LifeNext, UNCHANGED txVars, NEW s \in Skbs,
         ~Lost(s), Lost(s)'
  PROVE  LostAt(s)
<1>1. /\ tx[s] # "refused" /\ llc'[s] = llc[s] /\ work'[s] = work[s]
      /\ MayFree(s) /\ ~MayFree(s)'
  BY DEF Lost, MayFree, txVars
<1>2. RadioOf[s] \in Radios
  BY RadioOfAssumption
<1>3. work[s] # "none"
  BY <1>1 DEF DriverInv, FrameCore, MayFree
<1>4. mkx # "null" /\ pc \in UpPcs(RadioOf[s])
  BY <1>3 DEF DriverInv, SentWhenUp
<1>5. CASE work[s] \in {"queued", "prepared", "rejected"}
  <2>1. CodePresent /\ llc[s] = "none"
    BY <1>1, <1>5 DEF MayFree, DriverInv, FrameCore
  <2>2. mkx = "open"
    BY <1>4, <2>1, OpenWhilePresent DEF DriverInv
  <2>3. work[s] = "queued" => dev[RadioOf[s]] # "freed"
    BY <1>1, <2>1 DEF MayFree
  <2>4. pc \notin StrandedPcs(RadioOf[s]) => MayFree(s)'
    <3> SUFFICES ASSUME pc \notin StrandedPcs(RadioOf[s]) PROVE MayFree(s)'
      OBVIOUS
    <3>1. /\ mkx' = "open" /\ CodePresent'
          /\ dev[RadioOf[s]] # "freed" => dev'[RadioOf[s]] # "freed"
      BY <1>2, <1>4, <2>2, Strands DEF DriverInv
    <3>2. QED
      BY <1>1, <1>5, <2>3, <3>1 DEF MayFree
  <2>5. QED
    BY <1>1, <1>5, <2>4 DEF LostAt
<1>6. CASE llc[s] = "held" /\ mkx = "open" /\ (cbs \/ pc \in InitPcs)
  <2>1. pc \notin UnheardPcs(RadioOf[s]) => mkx' = "open" /\ (cbs' \/ pc' \in InitPcs)
    BY <1>2, <1>4, <1>6, Unhears DEF DriverInv
  <2>2. QED
    BY <1>1, <1>6, <2>1 DEF LostAt, MayFree
<1>7. QED
  BY <1>1, <1>5, <1>6 DEF MayFree

\* A step on the frame itself: the loader stays where it is.
LEMMA LostByFrame ==
  ASSUME DriverInv, NEW s \in Skbs, ~Lost(s), Lost(s)',
         DriverTx(s) \/ DriverWork(s) \/ DriverConfirm(s)
  PROVE  LostAt(s)
<1>1. TypeOK /\ FrameCore(s) /\ LifeInv
  BY DEF DriverInv
<1>2. RadioOf[s] \in {"A", "B"}
  BY RadioOfAssumption DEF Radios
<1>3. UNCHANGED lifeVars
  BY FrameSteps
<1>4. UNCHANGED <<pc, mkx, cbs, dev>>
  BY <1>3 DEF lifeVars, driverVars
<1>5. CASE iface[RadioOf[s]] /\ WCH11P_tx(s)
  <2>1. dev[RadioOf[s]] = "registered" /\ mkx # "null" /\ pc \in UpPcs(RadioOf[s])
    BY <1>1, <1>5, UpWhere, RadioOfAssumption DEF LifeInv, Beneath
  <2>2. CodePresent
    BY <1>1, <1>2, <2>1 DEF LifeInv, Held, Has, Empty, CodePresent
  <2>3. mkx = "open"
    BY <1>1, <2>1, <2>2, OpenWhilePresent
  <2>4. CASE TxSchedule(s)
    BY <1>1, <1>4, <2>1, <2>2, <2>3, <2>4
       DEF TxSchedule, TypeOK, Lost, MayFree, CodePresent
  <2>5. CASE TxNotScheduled(s)
    BY <1>1, <2>5 DEF TxNotScheduled, TypeOK, Lost, MayFree
  <2>6. CASE TxNoChannel(s) \/ TxNoMemory(s)
    BY <1>1, <2>6 DEF TxNoChannel, TxNoMemory, DropNoChannel, dev_kfree_skb,
                      TypeOK, FrameCore, Lost
  <2>7. QED
    BY <1>5, <2>4, <2>5, <2>6 DEF WCH11P_tx
<1>6. CASE TxReturn(s)
  BY <1>1, <1>4, <1>6 DEF TxReturn, ScheduleFailed, dev_kfree_skb, TypeOK,
       FrameCore, Lost, MayFree, CodePresent
<1>7. CASE DriverWork(s)
  <2>1. CASE TxWorkPrepare(s) /\ dev[RadioOf[s]] # "freed"
    BY <1>1, <1>4, <2>1 DEF TxWorkPrepare, TypeOK, FrameCore, Lost, MayFree,
         CodePresent
  <2>2. CASE TxReqReject(s)
    BY <1>1, <1>4, <1>7, <2>2 DEF DriverWork, TxReqReject, TypeOK, FrameCore, Lost,
         MayFree, CodePresent
  <2>3. CASE TxReqAccept(s) /\ mkx = "open"
    <3>1. mkx # "null" /\ pc \in UpPcs(RadioOf[s])
      BY <2>3 DEF TxReqAccept, DriverInv, SentWhenUp
    <3>2. ~cbs /\ pc \notin InitPcs
      BY <1>1, <1>4, <2>3 DEF TxReqAccept, TypeOK, Lost, MayFree
    <3>3. pc \in StrandedPcs(RadioOf[s])
      BY <1>1, <1>2, <2>3, <3>1, <3>2 DEF LifeInv, Beneath, Held, Has, Empty,
           Ready, UpPcs, StrandedPcs, InitPcs, UnwindPcs, ExitPcs
    <3>4. QED
      BY <2>3, <3>3 DEF TxReqAccept, LostAt
  <2>4. CASE TxWorkFinish(s)
    BY <1>1, <1>4, <2>4 DEF TxWorkFinish, ReqFailed, dev_kfree_skb, TypeOK,
         FrameCore, Lost, MayFree, CodePresent
  <2>5. QED
    BY <1>7, <2>1, <2>2, <2>3, <2>4 DEF DriverWork
<1>8. CASE TxCnf(s)
  BY <1>1, <1>8 DEF TxCnf, dev_kfree_skb, TypeOK, FrameCore, Lost
<1>9. CASE mkx = "open" /\ ~cbs /\ TxCnfSkipped(s)
  <2>1. pc \in UpPcs(RadioOf[s]) /\ llc[s] = "held"
    BY <1>9, HeldWhere DEF TxCnfSkipped
  <2>2. tx[s] # "idle" /\ frees[s] = 0
    BY <1>1, <2>1 DEF FrameCore
  <2>3. MayFree(s)
    BY <2>2 DEF Lost
  <2>4. pc \in InitPcs
    BY <1>1, <1>9, <2>1, <2>3 DEF FrameCore, MayFree
  <2>5. pc \in UnheardPcs(RadioOf[s])
    BY <1>1, <1>2, <1>9, <2>1, <2>4 DEF LifeInv, Beneath, UpPcs, UnheardPcs, Ready,
         InitPcs, ExitPcs, UnwindPcs
  <2>6. QED
    BY <2>1, <2>5 DEF LostAt
<1>10. QED
  BY <1>5, <1>6, <1>7, <1>8, <1>9 DEF DriverTx, DriverConfirm

\* A driver that is loaded loses no frame, whatever interfaces, loader, work
\* queue and LLC do; one that comes or goes loses what the LLC holds without a
\* callback to come and what a work item holds whose ground is taken away.
THEOREM DriverLostOnlyComingOrGoing == DriverSpec => LostOnlyComingOrGoing
<1>1. ASSUME DriverInv, DriverNext, NEW s \in Skbs, ~Lost(s), Lost(s)'
      PROVE  LostAt(s)
  <2>1. CASE DriverLife
    BY <1>1, <2>1, LostByLife DEF DriverLife
  <2>2. ASSUME NEW t \in Skbs, t # s,
               DriverTx(t) \/ DriverWork(t) \/ DriverConfirm(t)
        PROVE  FALSE
    <3>1. UNCHANGED <<tx[s], work[s], llc[s], frees[s]>>
      <4>1. CASE WCH11P_tx(t) \/ TxReturn(t) \/ TxWork(t) \/ TxCnf(t)
        BY <1>1, <2>2, <4>1, OneFrameSteps DEF DriverInv
      <4>2. CASE TxCnfSkipped(t)
        BY <1>1, <2>2, <4>2 DEF TxCnfSkipped, DriverInv, TypeOK
      <4>3. QED
        BY <2>2, <4>1, <4>2, FrameSteps
    <3>2. UNCHANGED <<pc, mkx, cbs, dev>>
      BY <2>2, FrameSteps DEF lifeVars, driverVars
    <3>3. QED
      BY <1>1, <3>1, <3>2 DEF Lost, MayFree, CodePresent
  <2>3. QED
    BY <1>1, <2>1, <2>2, LostByFrame DEF DriverNext
<1>2. DriverInv /\ [DriverNext]_vars
        => [ \A s \in Skbs : Lost(s)' /\ ~Lost(s) => LostAt(s) ]_vars
  BY <1>1
<1>3. LostOnlyComingOrGoing
        <=> [][ \A s \in Skbs : Lost(s)' /\ ~Lost(s) => LostAt(s) ]_vars
  BY DEF LostOnlyComingOrGoing, LostAt
<1>4. QED
  BY <1>2, <1>3, DriverInvariant, PTL DEF DriverSpec

-----------------------------------------------------------------------------
(***************************************************************************)
(* The provers take ENABLED as it stands. GuardsEnable tells them that an  *)
(* action on a frame is enabled where its own guard holds, and no more;    *)
(* that the guards hold, in a driver that stays, is proved.                *)
(***************************************************************************)
GuardEnables(s) ==
  /\ InCall(s) => ENABLED <<DriverReturn(s)>>_vars
  /\ CodePresent /\ \/ work[s] = "queued" /\ dev[RadioOf[s]] # "freed"
                    \/ work[s] = "prepared" /\ mkx = "open"
                    \/ work[s] \in {"accepted", "rejected"}
       => ENABLED <<DriverWork(s)>>_vars
  /\ llc[s] = "held" /\ mkx = "open" => ENABLED <<DriverConfirm(s)>>_vars

GuardsEnable == \A s \in Skbs : GuardEnables(s)

LEMMA GoesOnWhileStaying ==
  ASSUME DriverInv, Staying, NEW s \in Skbs, GuardEnables(s)
  PROVE  GoesOnInDriver(s)
<1>1. CodePresent
  BY DEF Staying, CodePresent, InitPcs
<1>2. ASSUME work[s] \in {"queued", "prepared"}
      PROVE  dev[RadioOf[s]] = "registered" /\ mkx = "open"
  <2>1. RadioOf[s] \in {"A", "B"}
    BY RadioOfAssumption DEF Radios
  <2>2. mkx # "null" /\ pc \in UpPcs(RadioOf[s])
    BY <1>2 DEF DriverInv, SentWhenUp
  <2>3. QED
    BY <2>1, <2>2 DEF DriverInv, LifeInv, Held, Has, Empty, Staying, InitPcs,
                      UpPcs, ExitPcs, UnwindPcs
<1>3. llc[s] = "held" => mkx = "open"
  BY HeldWhere
<1>4. QED
  BY <1>1, <1>2, <1>3 DEF GuardEnables, GoesOnInDriver

\* In a driver that is being loaded or is loaded, no frame waits for the loader,
\* for an interface or for another frame.
THEOREM DriverNobodyWaits ==
  DriverSpec /\ []GuardsEnable => []NobodyWaitsInDriver
<1>1. DriverInv /\ GuardsEnable => NobodyWaitsInDriver
  BY GoesOnWhileStaying DEF GuardsEnable, NobodyWaitsInDriver
<1>2. QED
  BY <1>1, DriverInvariant, PTL

\* One frame and one step of the driver: the frame stays at its stage, or goes
\* on to the next.
FrameConfirmed(s) == llc[s] = "confirmed"

LEMMA DriverStageStep ==
  ASSUME DriverInv, [DriverNext]_vars, NEW s \in Skbs
  PROVE  /\ FrameRefused(s)  => FrameRefused(s)' \/ FrameFreed(s)'
         /\ FrameQueued(s)   => FrameQueued(s)' \/ FramePrepared(s)'
         /\ FramePrepared(s) => \/ FramePrepared(s)' \/ FrameRejected(s)'
                                \/ FrameHeld(s)'
         /\ FrameRejected(s) => FrameRejected(s)' \/ FrameFreed(s)'
         /\ FrameHeld(s)     => \/ FrameHeld(s)' \/ FrameFreed(s)'
                                \/ FrameConfirmed(s)'
<1>1. TypeOK /\ FrameCore(s)
  BY DEF DriverInv
<1>2. CASE UNCHANGED <<tx[s], work[s], llc[s], frees[s]>>
  BY <1>2 DEF FrameFreed, FrameRefused, FrameQueued, FramePrepared,
              FrameRejected, FrameHeld
<1>3. CASE WCH11P_tx(s) \/ TxReturn(s) \/ TxWork(s) \/ TxCnf(s)
  BY <1>1, <1>3, StageStep
<1>4. CASE TxCnfSkipped(s)
  BY <1>1, <1>4 DEF TxCnfSkipped, TypeOK, FrameRefused, FrameQueued,
                    FramePrepared, FrameRejected, FrameConfirmed
<1>5. CASE DriverLife \/ UNCHANGED vars
  BY <1>2, <1>5 DEF DriverLife, vars, txVars
<1>6. ASSUME NEW t \in Skbs, t # s,
             DriverTx(t) \/ DriverWork(t) \/ DriverConfirm(t)
      PROVE  UNCHANGED <<tx[s], work[s], llc[s], frees[s]>>
  <2>1. CASE WCH11P_tx(t) \/ TxReturn(t) \/ TxWork(t) \/ TxCnf(t)
    BY <1>6, <2>1, OneFrameSteps DEF DriverInv
  <2>2. CASE TxCnfSkipped(t)
    BY <1>1, <1>6, <2>2 DEF TxCnfSkipped, TypeOK
  <2>3. QED
    BY <1>6, <2>1, <2>2, FrameSteps
<1>7. QED
  BY <1>2, <1>3, <1>4, <1>5, <1>6, FrameSteps DEF DriverNext

LEMMA DriverStageMoves ==
  ASSUME DriverInv, NEW s \in Skbs
  PROVE  /\ FrameRefused(s) /\ DriverReturn(s) => FrameFreed(s)'
         /\ FrameQueued(s) /\ DriverWork(s) => FramePrepared(s)'
         /\ FramePrepared(s) /\ DriverWork(s) => FrameRejected(s)' \/ FrameHeld(s)'
         /\ FrameRejected(s) /\ DriverWork(s) => FrameFreed(s)'
         /\ FrameHeld(s) /\ DriverConfirm(s) => FrameFreed(s)' \/ FrameConfirmed(s)'
<1>1. TypeOK /\ FrameCore(s)
  BY DEF DriverInv
<1>2. FrameHeld(s) /\ DriverConfirm(s) => FrameFreed(s)' \/ FrameConfirmed(s)'
  BY <1>1, StageMoves DEF DriverConfirm, TxCnfSkipped, FrameConfirmed, TypeOK
<1>3. DriverWork(s) => TxWork(s)
  BY DEF DriverWork, TxWork
<1>4. QED
  BY <1>1, <1>2, <1>3, StageMoves DEF DriverReturn

\* Every frame handed to WCH11P_tx is freed, or passed over for want of a
\* callback, unless the driver goes first: for any frames on any radios, while
\* interfaces come and go.
THEOREM DriverEveryFrameLeaves ==
  DriverFairSpec /\ []GuardsEnable => EveryFrameLeaves
<1>1. ASSUME NEW s \in Skbs
      PROVE  DriverFairSpec /\ []GuardsEnable
               => ((tx[s] # "idle")
                     ~> frees[s] = 1 \/ llc[s] = "confirmed" \/ ~Staying)
  <2>1. DriverFairness => DriverFrameFairness(s)
    BY DEF DriverFairness
  <2>2. DriverInv /\ GuardsEnable /\ Staying => GoesOnInDriver(s)
    BY GoesOnWhileStaying DEF GuardsEnable
  <2>3. /\ FrameRefused(s) /\ GoesOnInDriver(s) => ENABLED <<DriverReturn(s)>>_vars
        /\ FrameQueued(s) /\ GoesOnInDriver(s) => ENABLED <<DriverWork(s)>>_vars
        /\ FramePrepared(s) /\ GoesOnInDriver(s) => ENABLED <<DriverWork(s)>>_vars
        /\ FrameRejected(s) /\ GoesOnInDriver(s) => ENABLED <<DriverWork(s)>>_vars
        /\ FrameHeld(s) /\ GoesOnInDriver(s) => ENABLED <<DriverConfirm(s)>>_vars
    BY DEF GoesOnInDriver, InCall, FrameRefused, FrameQueued, FramePrepared,
           FrameRejected, FrameHeld
  <2>4. DriverInv /\ [DriverNext]_vars
          => /\ FrameRefused(s) => FrameRefused(s)' \/ FrameFreed(s)'
             /\ FrameQueued(s) => FrameQueued(s)' \/ FramePrepared(s)'
             /\ FramePrepared(s) => \/ FramePrepared(s)' \/ FrameRejected(s)'
                                    \/ FrameHeld(s)'
             /\ FrameRejected(s) => FrameRejected(s)' \/ FrameFreed(s)'
             /\ FrameHeld(s) => \/ FrameHeld(s)' \/ FrameFreed(s)'
                                \/ FrameConfirmed(s)'
    BY DriverStageStep
  <2>5. DriverInv
          => /\ FrameRefused(s) /\ DriverReturn(s) => FrameFreed(s)'
             /\ FrameQueued(s) /\ DriverWork(s) => FramePrepared(s)'
             /\ FramePrepared(s) /\ DriverWork(s)
                  => FrameRejected(s)' \/ FrameHeld(s)'
             /\ FrameRejected(s) /\ DriverWork(s) => FrameFreed(s)'
             /\ FrameHeld(s) /\ DriverConfirm(s)
                  => FrameFreed(s)' \/ FrameConfirmed(s)'
    BY DriverStageMoves
  <2>6. DriverInv /\ tx[s] # "idle"
          => \/ FrameFreed(s) \/ FrameRefused(s) \/ FrameQueued(s)
             \/ FramePrepared(s) \/ FrameRejected(s) \/ FrameHeld(s)
             \/ FrameConfirmed(s)
    BY UnderWay DEF DriverInv, TypeOK, FrameHeld, FrameConfirmed
  <2>7. FrameFreed(s) \/ FrameConfirmed(s)
          => frees[s] = 1 \/ llc[s] = "confirmed" \/ ~Staying
    BY DEF FrameFreed, FrameConfirmed
  <2>8. QED
    BY <2>1, <2>2, <2>3, <2>4, <2>5, <2>6, <2>7, DriverInvariant, PTL
       DEF DriverFairSpec, DriverSpec, DriverFrameFairness
<1>2. QED
  BY <1>1 DEF EveryFrameLeaves

-----------------------------------------------------------------------------
(***************************************************************************)
(* The composition against its parts.                                      *)
(***************************************************************************)
\* Running the transmit path beside it adds nothing to what the loader, the
\* interfaces and the radios do: the driver's life is one of Lifecycle.
THEOREM DriverImplementsLifecycle == DriverSpec => LifeSpec
<1>1. DriverInit => LifeInit
  BY DEF DriverInit
<1>2. [DriverNext]_vars => [LifeNext]_lifeVars
  <2> SUFFICES ASSUME [DriverNext]_vars PROVE [LifeNext]_lifeVars
    OBVIOUS
  <2>1. CASE DriverLife
    BY <2>1 DEF DriverLife
  <2>2. ASSUME NEW s \in Skbs, DriverTx(s) \/ DriverWork(s) \/ DriverConfirm(s)
        PROVE  UNCHANGED lifeVars
    BY <2>2, FrameSteps
  <2>3. CASE UNCHANGED vars
    BY <2>3 DEF vars
  <2>4. QED
    BY <2>1, <2>2, <2>3 DEF DriverNext
<1>3. QED
  BY <1>1, <1>2, PTL DEF DriverSpec, LifeSpec

\* So all that is proved of the life cycle holds with frames in flight, however
\* late work items and confirmations come: resources released in order, all of
\* them or none, receive callbacks that find their radio, radios switched off,
\* and none silent under an interface but by WCH11P_init's "Disable".
THEOREM DriverKeepsLifecycle ==
  DriverSpec => /\ [](/\ ReleasedInOrder /\ AllOrNothing
                      /\ RxFindsRadio /\ RadioOffWhenReleased)
                /\ OnlyDisableSilences
<1>1. QED
  BY DriverImplementsLifecycle, LifeReleasedInOrder, LifeAllOrNothing,
     LifeRxFindsRadio, LifeRadioOff, LifeOnlyDisableSilences, PTL

\* And a frame's life is still that of FrameLife, although the loader sets the
\* callbacks late and clears them early: a confirmation that is passed over
\* leaves the frame with the radio, and nobody else ever frees it.
THEOREM DriverImplementsFrameLife == DriverSpec => ImplementsFrameLife
<1>1. DriverInit => FL!Init
  BY PlaceInit DEF DriverInit
<1>2. DriverInv /\ DriverInv' /\ [DriverNext]_vars
        => [FL!Next]_([s \in Skbs |-> PlaceOf(s)])
  <2> SUFFICES ASSUME DriverInv, DriverInv', [DriverNext]_vars
               PROVE  [FL!Next]_([s \in Skbs |-> PlaceOf(s)])
    OBVIOUS
  <2>1. CASE UNCHANGED txVars
    BY <2>1 DEF txVars, PlaceOf
  <2>2. ASSUME NEW s \in Skbs,
               WCH11P_tx(s) \/ TxReturn(s) \/ TxWork(s) \/ TxCnf(s)
        PROVE  [FL!Next]_([t \in Skbs |-> PlaceOf(t)])
    <3>1. \A t \in Skbs : t # s => PlaceOf(t)' = PlaceOf(t)
      BY <2>2, OneFrameSteps DEF DriverInv, PlaceOf
    <3>2. Moved(s)
      BY <2>2, PlaceStep DEF DriverInv
    <3>3. QED
      BY <3>1, <3>2, MoveRefines
  <2>3. ASSUME NEW s \in Skbs, TxCnfSkipped(s)
        PROVE  [FL!Next]_([t \in Skbs |-> PlaceOf(t)])
    <3>1. \A t \in Skbs : PlaceOf(t)' = PlaceOf(t)
      BY <2>3 DEF TxCnfSkipped, DriverInv, TypeOK, PlaceOf
    <3>2. QED
      BY <3>1
  <2>4. QED
    BY <2>1, <2>2, <2>3, FrameSteps DEF DriverNext, DriverLife, vars
<1>3. QED
  BY <1>1, <1>2, DriverInvariant, PTL
     DEF DriverSpec, ImplementsFrameLife, FL!Spec
=============================================================================
