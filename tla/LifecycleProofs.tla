-------------------------- MODULE LifecycleProofs ---------------------------
(***************************************************************************)
(* The loader's resources at every statement, proved. The properties of    *)
(* Lifecycle are not inductive: that a label frees a device which is there *)
(* to be freed follows only from what every statement before it has done.  *)
(* Held records that, statement by statement; the rest of the invariant    *)
(* ties what runs beside the loader to the resources it needs.             *)
(***************************************************************************)
EXTENDS Lifecycle, TLAPS

\* The handle and the two devices are in these states.
Has(m, a, b) == mkx \in m /\ dev["A"] \in a /\ dev["B"] \in b

\* MKx_Init reported success without a handle, and nothing was set up.
Empty == Has({"null"}, {"null"}, {"null"})

\* What the loader holds before its next statement.
Held ==
  /\ pc = "MKx_Init" => Empty
  /\ pc = "allocA" => Has({"open"}, {"null"}, {"null"})
  /\ pc = "allocB" => Has({"open"}, {"alloc"}, {"null"})
  /\ pc = "registerA" => Has({"open"}, {"alloc"}, {"alloc"})
  /\ pc \in {"registerB", "BadHwRegB"} => Has({"open"}, {"registered"}, {"alloc"})
  /\ pc \in {"callbacks", "disableA", "disableB"}
       => Has({"open"}, {"registered"}, {"registered"})
  /\ pc = "BadHwRegA" => Has({"open"}, {"alloc", "unregistered"}, {"alloc"})
  /\ pc = "BadHwAllocB"
       => Has({"open"}, {"alloc", "unregistered"}, {"null", "freed"})
  /\ pc = "BadHwAllocA" => Has({"open"}, {"null", "freed"}, {"null", "freed"})
  /\ pc = "failed"
       => Has({"null", "closed"}, {"null", "freed"}, {"null", "freed"})
  /\ pc \in {"loaded", "exitA"}
       => Empty \/ Has({"open"}, {"registered"}, {"registered"})
  /\ pc = "freeA" => Has({"open"}, {"unregistered"}, {"registered"})
  /\ pc = "exitB" => Empty \/ Has({"open"}, {"freed"}, {"registered"})
  /\ pc = "freeB" => Has({"open"}, {"freed"}, {"unregistered"})
  /\ pc = "clearPriv" => Empty \/ Has({"open"}, {"freed"}, {"freed"})
  /\ pc \in {"clearCallbacks", "MKx_Exit"} => Has({"open"}, {"freed"}, {"freed"})
  /\ pc = "gone" => Empty \/ Has({"closed"}, {"freed"}, {"freed"})

\* The statements after which the callbacks, and pPriv, are set.
Ready == {"disableA", "disableB", "loaded"} \union ExitPcs

Beneath ==
  /\ STATUS = "error" <=> pc \in UnwindPcs \union {"failed"}
  /\ mkx = "open" /\ pc \notin ExitPcs => pPriv
  /\ mkx = "open" /\ pc \in Ready \ {"MKx_Exit"} => cbs
  /\ \A r \in Radios : iface[r] => dev[r] = "registered"
  /\ cbs => pc \in Ready \ {"MKx_Exit"} /\ mkx # "null"
  /\ \A r \in Radios : rx[r] = "called" => pc \in Ready /\ mkx # "null"

LifeInv == LifeTypeOK /\ Held /\ Beneath

-----------------------------------------------------------------------------
LEMMA LifeInvInit == LifeInit => LifeInv
BY DEF LifeInit, LifeInv, LifeTypeOK, Held, Beneath, Has, Empty, Radios, InitPcs,
       UnwindPcs, ExitPcs, Ready

\* Unregistering a registered device closes its interface, and leaves the
\* radio in some mode.
LEMMA UnregisterEffect ==
  ASSUME LifeTypeOK, NEW r \in Radios, dev[r] = "registered", UnregisterHw(r)
  PROVE  /\ dev' = [dev EXCEPT ![r] = "unregistered"]
         /\ iface' = [iface EXCEPT ![r] = FALSE]
         /\ mode' \in [Radios -> {"on", "off"}]
         /\ refused' \in BOOLEAN
         /\ rx' = rx
<1>1. dev' = [dev EXCEPT ![r] = "unregistered"]
  BY DEF LifeTypeOK, UnregisterHw
<1>2. mode' \in [Radios -> {"on", "off"}] /\ refused' \in BOOLEAN
  BY DEF LifeTypeOK, UnregisterHw, Config, Refused, llcVars
<1>3. QED
  BY <1>1, <1>2 DEF UnregisterHw

\* The loader's own statements.
LEMMA LoaderKeeps == LifeInv /\ Loader => LifeInv'
<1> SUFFICES ASSUME LifeInv, Loader PROVE LifeInv'
  OBVIOUS
<1> USE DEF LifeInv, LifeTypeOK, Held, Beneath, Has, Empty, Radios, InitPcs,
            UnwindPcs, ExitPcs, Ready, Goto, Returned, driverVars, radioVars,
            llcVars
<1>1. CASE InitMKx
  <2>1. pc = "MKx_Init" /\ UNCHANGED <<dev, iface, mode, refused, rx>>
    BY <1>1 DEF InitMKx
  <2>2. CASE pc' = "allocA" /\ mkx' = "open" /\ SetPriv /\ UNCHANGED STATUS
    BY <2>1, <2>2 DEF SetPriv
  <2>3. CASE /\ STATUS' = "error" /\ pc' = "failed"
             /\ UNCHANGED <<mkx, pPriv, cbs>>
    BY <2>1, <2>3
  <2>4. CASE /\ STATUS' = "ok" /\ pc' = "loaded"
             /\ UNCHANGED <<mkx, pPriv, cbs>>
    BY <2>1, <2>4
  <2>5. QED
    BY <1>1, <2>1, <2>2, <2>3, <2>4 DEF InitMKx
<1>2. CASE Alloc("A", "allocA", "allocB", "BadHwAllocA")
  BY <1>2 DEF Alloc, Fails
<1>3. CASE Alloc("B", "allocB", "registerA", "BadHwAllocB")
  BY <1>3 DEF Alloc, Fails
<1>4. CASE Register("A", "registerA", "registerB", "BadHwRegA")
  BY <1>4 DEF Register, Fails
<1>5. CASE Register("B", "registerB", "callbacks", "BadHwRegB")
  BY <1>5 DEF Register, Fails
<1>6. CASE SetCallbacks
  BY <1>6 DEF SetCallbacks
<1>7. CASE Disable("A", "disableA", "disableB")
  BY <1>7 DEF Disable, Config, Refused
<1>8. CASE Disable("B", "disableB", Returned(STATUS))
  BY <1>8 DEF Disable, Config, Refused
<1>9. CASE Unwind
  <2> USE DEF Unwind
  <2>1. CASE pc = "BadHwRegB"
    <3>1. /\ pc' = "BadHwRegA" /\ UnregisterHw("A")
          /\ UNCHANGED <<STATUS, mkx, pPriv, cbs>>
      BY <1>9, <2>1 DEF LabelRegB
    <3>2. dev["A"] = "registered" /\ dev["B"] = "alloc" /\ mkx = "open"
      BY <2>1
    <3>3. /\ dev' = [dev EXCEPT !["A"] = "unregistered"]
          /\ iface' = [iface EXCEPT !["A"] = FALSE]
          /\ mode' \in [Radios -> {"on", "off"}]
          /\ refused' \in BOOLEAN
          /\ rx' = rx
      BY <3>1, <3>2, UnregisterEffect
    <3>4. LifeTypeOK'
      BY <3>1, <3>3
    <3>5. Held'
      BY <3>1, <3>2, <3>3
    <3>6. Beneath'
      BY <2>1, <3>1, <3>2, <3>3
    <3>7. QED
      BY <3>4, <3>5, <3>6
  <2>2. CASE pc = "BadHwRegA"
    BY <1>9, <2>2 DEF FreeHw
  <2>3. CASE pc = "BadHwAllocB"
    BY <1>9, <2>3 DEF FreeHw
  <2>4. CASE pc = "BadHwAllocA"
    BY <1>9, <2>4 DEF MKx_Exit
  <2>5. QED
    BY <1>9, <2>1, <2>2, <2>3, <2>4
<1>10. CASE Goto("loaded", "exitA") /\ UNCHANGED <<driverVars, radioVars>>
  BY <1>10
<1>11. CASE ExitDevice("A", "exitA", "freeA", "exitB")
  <2>1. CASE pc = "exitA" /\ dev["A"] # "null"
    <3>1. /\ pc' = "freeA" /\ UnregisterHw("A")
          /\ UNCHANGED <<STATUS, mkx, pPriv, cbs>>
      BY <1>11, <2>1 DEF ExitDevice
    <3>2. dev["A"] = "registered" /\ dev["B"] = "registered" /\ mkx = "open"
      BY <2>1
    <3>3. /\ dev' = [dev EXCEPT !["A"] = "unregistered"]
          /\ iface' = [iface EXCEPT !["A"] = FALSE]
          /\ mode' \in [Radios -> {"on", "off"}]
          /\ refused' \in BOOLEAN
          /\ rx' = rx
      BY <3>1, <3>2, UnregisterEffect
    <3>4. LifeTypeOK'
      BY <3>1, <3>3
    <3>5. Held'
      BY <3>1, <3>2, <3>3
    <3>6. Beneath'
      BY <2>1, <3>1, <3>2, <3>3
    <3>7. QED
      BY <3>4, <3>5, <3>6
  <2>2. CASE pc = "exitA" /\ dev["A"] = "null"
    BY <1>11, <2>2 DEF ExitDevice
  <2>3. CASE pc = "freeA"
    BY <1>11, <2>3 DEF ExitDevice, FreeHw
  <2>4. QED
    BY <1>11, <2>1, <2>2, <2>3 DEF ExitDevice
<1>12. CASE ExitDevice("B", "exitB", "freeB", "clearPriv")
  <2>1. CASE pc = "exitB" /\ dev["B"] # "null"
    <3>1. /\ pc' = "freeB" /\ UnregisterHw("B")
          /\ UNCHANGED <<STATUS, mkx, pPriv, cbs>>
      BY <1>12, <2>1 DEF ExitDevice
    <3>2. dev["B"] = "registered" /\ dev["A"] = "freed" /\ mkx = "open"
      BY <2>1
    <3>3. /\ dev' = [dev EXCEPT !["B"] = "unregistered"]
          /\ iface' = [iface EXCEPT !["B"] = FALSE]
          /\ mode' \in [Radios -> {"on", "off"}]
          /\ refused' \in BOOLEAN
          /\ rx' = rx
      BY <3>1, <3>2, UnregisterEffect
    <3>4. LifeTypeOK'
      BY <3>1, <3>3
    <3>5. Held'
      BY <3>1, <3>2, <3>3
    <3>6. Beneath'
      BY <2>1, <3>1, <3>2, <3>3
    <3>7. QED
      BY <3>4, <3>5, <3>6
  <2>2. CASE pc = "exitB" /\ dev["B"] = "null"
    BY <1>12, <2>2 DEF ExitDevice
  <2>3. CASE pc = "freeB"
    BY <1>12, <2>3 DEF ExitDevice, FreeHw
  <2>4. QED
    BY <1>12, <2>1, <2>2, <2>3 DEF ExitDevice
<1>13. CASE ExitMKx
  <2>1. CASE pc = "clearPriv"
    <3>1. CASE mkx = "null"
      <4>1. pc' = "gone" /\ UNCHANGED <<driverVars, radioVars>>
        BY <1>13, <2>1, <3>1 DEF ExitMKx
      <4>2. QED
        BY <2>1, <3>1, <4>1
    <3>2. CASE mkx # "null"
      <4>1. /\ pc' = "clearCallbacks" /\ pPriv' = FALSE
            /\ UNCHANGED <<STATUS, mkx, cbs, dev, radioVars>>
        BY <1>13, <2>1, <3>2 DEF ExitMKx
      <4>2. QED
        BY <2>1, <3>2, <4>1
    <3>3. QED
      BY <3>1, <3>2
  <2>2. CASE pc = "clearCallbacks"
    BY <1>13, <2>2 DEF ExitMKx
  <2>3. CASE pc = "MKx_Exit"
    BY <1>13, <2>3 DEF ExitMKx, MKx_Exit
  <2>4. QED
    BY <1>13, <2>1, <2>2, <2>3 DEF ExitMKx
<1>14. QED
  BY <1>1, <1>2, <1>3, <1>4, <1>5, <1>6, <1>7, <1>8, <1>9, <1>10, <1>11,
     <1>12, <1>13 DEF Loader, WCH11P_init, WCH11P_exit

\* What runs beside it.
LEMMA BesideKeeps == LifeInv /\ Beside => LifeInv'
<1> SUFFICES ASSUME LifeInv, NEW r \in Radios,
                    \/ WCH11P_start(r) \/ WCH11P_stop(r)
                    \/ RxBegin(r) \/ WCH11P_RxInd(r)
             PROVE  LifeInv'
  BY DEF Beside
<1> USE DEF LifeInv, LifeTypeOK, Held, Beneath, Has, Empty, driverVars, llcVars
<1>1. CASE WCH11P_start(r)
  <2>1. LifeTypeOK'
    BY <1>1 DEF WCH11P_start, StartRefused, Refused
  <2>2. Held'
    BY <1>1 DEF WCH11P_start
  <2>3. Beneath'
    <3>1. dev[r] = "registered" /\ UNCHANGED <<pc, driverVars, rx>>
      BY <1>1 DEF WCH11P_start
    <3>2. iface' \in {iface, [iface EXCEPT ![r] = TRUE]}
      BY <1>1 DEF WCH11P_start, StartRefused
    <3>3. QED
      BY <3>1, <3>2
  <2>4. QED
    BY <2>1, <2>2, <2>3
<1>2. CASE WCH11P_stop(r)
  <2>1. LifeTypeOK'
    BY <1>2 DEF WCH11P_stop, StopMode, Config, Refused
  <2>2. Held'
    BY <1>2 DEF WCH11P_stop
  <2>3. Beneath'
    <3>1. /\ UNCHANGED <<pc, driverVars, rx>>
          /\ iface' = [iface EXCEPT ![r] = FALSE]
      BY <1>2 DEF WCH11P_stop
    <3>2. QED
      BY <3>1
  <2>4. QED
    BY <2>1, <2>2, <2>3
<1>3. CASE RxBegin(r)
  BY <1>3 DEF RxBegin
<1>4. CASE WCH11P_RxInd(r)
  BY <1>4 DEF WCH11P_RxInd
<1>5. QED
  BY <1>1, <1>2, <1>3, <1>4

LEMMA LifeInvStep == LifeInv /\ [LifeNext]_lifeVars => LifeInv'
<1>1. LifeInv /\ UNCHANGED lifeVars => LifeInv'
  BY DEF LifeInv, LifeTypeOK, Held, Beneath, Has, Empty, lifeVars, driverVars,
         radioVars, llcVars
<1>2. QED
  BY <1>1, LoaderKeeps, BesideKeeps DEF LifeNext

THEOREM LifeInvariant == LifeSpec => []LifeInv
<1>1. QED
  BY LifeInvInit, LifeInvStep, PTL DEF LifeSpec

-----------------------------------------------------------------------------
\* Whatever fails, each label and each block of WCH11P_exit releases a
\* resource once and in the state the release needs.
THEOREM LifeReleasedInOrder == LifeSpec => []ReleasedInOrder
<1>1. LifeInv => ReleasedInOrder
  BY DEF LifeInv, LifeTypeOK, Held, Has, Empty, ReleasedInOrder, Radios, InitPcs,
         UnwindPcs, ExitPcs
<1>2. QED
  BY <1>1, LifeInvariant, PTL

\* WCH11P_init leaves everything or nothing, WCH11P_exit nothing.
THEOREM LifeAllOrNothing == LifeSpec => []AllOrNothing
<1>1. LifeInv => AllOrNothing
  BY DEF LifeInv, LifeTypeOK, Held, Has, Empty, Beneath, AllOrNothing, Released,
         Complete, Radios, Ready, ExitPcs
<1>2. QED
  BY <1>1, LifeInvariant, PTL

\* A receive callback before the unload finds pPriv and the device.
THEOREM LifeRxFindsRadio == LifeSpec => []RxFindsRadio
<1>1. LifeInv => RxFindsRadio
  BY DEF LifeInv, Held, Has, Empty, Beneath, RxFindsRadio, Radios, Ready
<1>2. QED
  BY <1>1, LifeInvariant, PTL

-----------------------------------------------------------------------------
(***************************************************************************)
(* Radios switched off. WCH11P_init has switched radio r off by the        *)
(* statements SettledFrom(r); from then on a radio that the LLC left on    *)
(* has its interface up, and an interface goes down through WCH11P_stop.   *)
(***************************************************************************)
SettledFrom(r) ==
  {"loaded"} \union ExitPcs \union IF r = "A" THEN {"disableB"} ELSE {}

\* Said of one radio, so that the proof treats one at a time.
OffWhenDown(r) ==
  ~refused /\ pc \in SettledFrom(r) /\ dev[r] # "null" /\ ~iface[r]
    => mode[r] = "off"

\* A radio that is settled was settled before, or is switched off now.
LEMMA LoaderSettles ==
  ASSUME LifeInv, Loader, NEW r \in Radios, OffWhenDown(r)
  PROVE  OffWhenDown(r)'
<1> USE DEF LifeInv, LifeTypeOK, Held, Beneath, Has, Empty, Radios, InitPcs,
            UnwindPcs, ExitPcs, Goto, Returned, driverVars, radioVars, llcVars,
            OffWhenDown, SettledFrom
<1>1. CASE InitMKx
  BY <1>1 DEF InitMKx
<1>2. CASE Alloc("A", "allocA", "allocB", "BadHwAllocA")
  BY <1>2 DEF Alloc, Fails
<1>3. CASE Alloc("B", "allocB", "registerA", "BadHwAllocB")
  BY <1>3 DEF Alloc, Fails
<1>4. CASE Register("A", "registerA", "registerB", "BadHwRegA")
  BY <1>4 DEF Register, Fails
<1>5. CASE Register("B", "registerB", "callbacks", "BadHwRegB")
  BY <1>5 DEF Register, Fails
<1>6. CASE SetCallbacks
  BY <1>6 DEF SetCallbacks
<1>7. CASE Disable("A", "disableA", "disableB")
  BY <1>7 DEF Disable, Config, Refused
<1>8. CASE Disable("B", "disableB", Returned(STATUS))
  BY <1>8 DEF Disable, Config, Refused
<1>9. CASE Unwind
  BY <1>9 DEF Unwind
<1>10. CASE Goto("loaded", "exitA") /\ UNCHANGED <<driverVars, radioVars>>
  BY <1>10
<1>11. CASE ExitDevice("A", "exitA", "freeA", "exitB")
  BY <1>11 DEF ExitDevice, UnregisterHw, FreeHw, Config, Refused
<1>12. CASE ExitDevice("B", "exitB", "freeB", "clearPriv")
  BY <1>12 DEF ExitDevice, UnregisterHw, FreeHw, Config, Refused
<1>13. CASE ExitMKx
  BY <1>13 DEF ExitMKx
<1>14. QED
  BY <1>1, <1>2, <1>3, <1>4, <1>5, <1>6, <1>7, <1>8, <1>9, <1>10, <1>11,
     <1>12, <1>13 DEF Loader, WCH11P_init, WCH11P_exit

\* An interface that is down had WCH11P_stop last, or never came up.
LEMMA BesideSettles ==
  ASSUME LifeInv, Beside, NEW r \in Radios, OffWhenDown(r)
  PROVE  OffWhenDown(r)'
<1> SUFFICES ASSUME NEW q \in Radios,
                    \/ WCH11P_start(q) \/ WCH11P_stop(q)
                    \/ RxBegin(q) \/ WCH11P_RxInd(q)
             PROVE  OffWhenDown(r)'
  BY DEF Beside
<1> USE DEF LifeInv, LifeTypeOK, driverVars, llcVars, OffWhenDown
<1>1. UNCHANGED <<pc, dev>>
  BY DEF WCH11P_start, WCH11P_stop, RxBegin, WCH11P_RxInd
<1>2. CASE WCH11P_start(q)
  BY <1>1, <1>2 DEF WCH11P_start, StartRefused, Refused
<1>3. CASE WCH11P_stop(q)
  BY <1>1, <1>3 DEF WCH11P_stop, StopMode, Config, Refused
<1>4. CASE RxBegin(q) \/ WCH11P_RxInd(q)
  BY <1>1, <1>4 DEF RxBegin, WCH11P_RxInd
<1>5. QED
  BY <1>2, <1>3, <1>4

\* As long as no Config call was refused, a radio is off when WCH11P_exit
\* releases its device, although no statement of WCH11P_exit switches it off.
THEOREM LifeRadioOff == LifeSpec => []RadioOffWhenReleased
<1> DEFINE Off == \A r \in Radios : OffWhenDown(r)
<1>1. LifeInit => Off
  BY DEF LifeInit, OffWhenDown, SettledFrom, ExitPcs
<1>2. LifeInv /\ Off /\ [LifeNext]_lifeVars => Off'
  <2>1. CASE UNCHANGED lifeVars
    BY <2>1 DEF lifeVars, driverVars, radioVars, llcVars, OffWhenDown
  <2>2. QED
    BY <2>1, LoaderSettles, BesideSettles DEF LifeNext
<1>3. LifeInv /\ Off => RadioOffWhenReleased
  BY DEF LifeInv, Beneath, OffWhenDown, SettledFrom, RadioOffWhenReleased
<1>4. QED
  BY <1>1, <1>2, <1>3, LifeInvariant, PTL DEF LifeSpec

-----------------------------------------------------------------------------
(***************************************************************************)
(* Interfaces that are up on radios that are off.                          *)
(***************************************************************************)
\* Where the loader touches a radio other than by Disable, it takes the
\* interface down with it.
LEMMA LoaderSilences ==
  ASSUME LifeInv, Loader, NEW r \in Radios, pc # DisablePc(r)
  PROVE  Silent(r)' => Silent(r)
<1> USE DEF LifeInv, LifeTypeOK, Silent, driverVars, radioVars, llcVars
<1>1. ASSUME NEW q \in Radios, UnregisterHw(q) PROVE Silent(r)' => Silent(r)
  BY <1>1 DEF UnregisterHw, Config, Refused
<1>2. ASSUME NEW q \in Radios, pc = DisablePc(q), Config(q, "off"),
             UNCHANGED iface
      PROVE  Silent(r)' => Silent(r)
  BY <1>2 DEF Config, Refused, DisablePc
<1>3. CASE \/ InitMKx \/ SetCallbacks
           \/ Alloc("A", "allocA", "allocB", "BadHwAllocA")
           \/ Alloc("B", "allocB", "registerA", "BadHwAllocB")
           \/ Register("A", "registerA", "registerB", "BadHwRegA")
           \/ Register("B", "registerB", "callbacks", "BadHwRegB")
  BY <1>3 DEF InitMKx, SetCallbacks, Alloc, Register, Fails
<1>4. CASE Disable("A", "disableA", "disableB")
  BY <1>2, <1>4 DEF Disable, DisablePc, Goto, Radios
<1>5. CASE Disable("B", "disableB", Returned(STATUS))
  BY <1>2, <1>5 DEF Disable, DisablePc, Goto, Radios
<1>6. CASE Unwind
  BY <1>1, <1>6 DEF Unwind, LabelRegB, Radios
<1>7. CASE WCH11P_exit
  BY <1>1, <1>7 DEF WCH11P_exit, ExitDevice, ExitMKx, Radios
<1>8. QED
  BY <1>3, <1>4, <1>5, <1>6, <1>7 DEF Loader, WCH11P_init

\* WCH11P_start switches the radio on with the interface, or does neither;
\* WCH11P_stop leaves no interface behind.
LEMMA BesideSilences ==
  ASSUME LifeInv, Beside, NEW r \in Radios
  PROVE  Silent(r)' => Silent(r)
<1> SUFFICES ASSUME NEW q \in Radios,
                    \/ WCH11P_start(q) \/ WCH11P_stop(q)
                    \/ RxBegin(q) \/ WCH11P_RxInd(q)
             PROVE  Silent(r)' => Silent(r)
  BY DEF Beside
<1> USE DEF LifeInv, LifeTypeOK, Silent, llcVars
<1>1. CASE WCH11P_start(q)
  BY <1>1 DEF WCH11P_start, StartRefused, Refused
<1>2. CASE WCH11P_stop(q)
  BY <1>2 DEF WCH11P_stop, StopMode, Config, Refused
<1>3. CASE RxBegin(q) \/ WCH11P_RxInd(q)
  BY <1>3 DEF RxBegin, WCH11P_RxInd
<1>4. QED
  BY <1>1, <1>2, <1>3

\* An interface that is up is silenced by WCH11P_init's Disable of its own
\* radio and by nothing else, whatever the LLC refuses.
THEOREM LifeOnlyDisableSilences == LifeSpec => OnlyDisableSilences
<1>1. LifeInv /\ [LifeNext]_lifeVars
        => [\A r \in Radios : Silent(r)' /\ ~Silent(r) => pc = DisablePc(r)]_lifeVars
  BY LoaderSilences, BesideSilences DEF LifeNext
<1>2. QED
  BY <1>1, LifeInvariant, PTL DEF LifeSpec, OnlyDisableSilences

\* The state of the loader and of what runs beside it has its types.
THEOREM LifeTypeCorrect == LifeSpec => []LifeTypeOK
<1>1. QED
  BY LifeInvariant, PTL DEF LifeInv
=============================================================================
