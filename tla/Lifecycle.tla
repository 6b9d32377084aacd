----------------------------- MODULE Lifecycle ------------------------------
(***************************************************************************)
(* Loading and unloading the driver: WCH11P_init with its unwinding labels *)
(* and WCH11P_exit, statement by statement, together with what runs beside *)
(* them. From the moment ieee80211_register_hw returns, mac80211 may bring *)
(* the interface up and down (WCH11P_start, WCH11P_stop); from the moment  *)
(* the callbacks are set, the LLC may call WCH11P_RxInd. Nothing in the    *)
(* code keeps these apart from the loader: the spin locks are commented    *)
(* out.                                                                    *)
(*                                                                         *)
(* An operator X_Mistake before X is X with a plausible mistake; no action *)
(* uses it. README.md names the property that notices it.                  *)
(***************************************************************************)
Radios == {"A", "B"}     \* OBU_RADIO_A, OBU_RADIO_B

VARIABLES
  pc,      \* the next statement of the loader (insmod or rmmod)
  STATUS,  \* pHW->status, what WCH11P_init returns
  mkx,     \* the MKx handle pHW->pMKx
  pPriv,   \* is pMKx->pPriv set?
  cbs,     \* are the callbacks in pMKx->API.Callbacks set?
  dev,     \* dev[r]:   the mac80211 device radio[r].pMacDev
  iface,   \* iface[r]: is an interface of the device up?
  mode,    \* mode[r]:  is the radio on in the LLC's configuration?
  refused, \* has the LLC ever refused a Config call?
  rx       \* rx[r]:    has the LLC called RxInd for the radio?

driverVars == <<STATUS, mkx, pPriv, cbs, dev>>
llcVars    == <<mode, refused>>
radioVars  == <<iface, llcVars, rx>>
lifeVars   == <<pc, driverVars, radioVars>>

InitPcs   == {"MKx_Init", "allocA", "allocB", "registerA", "registerB",
              "callbacks", "disableA", "disableB"}
UnwindPcs == {"BadHwRegB", "BadHwRegA", "BadHwAllocB", "BadHwAllocA"}
ExitPcs   == {"exitA", "freeA", "exitB", "freeB", "clearPriv",
              "clearCallbacks", "MKx_Exit", "gone"}

LifeInit ==
  /\ pc = "MKx_Init"
  /\ STATUS = "ok"
  /\ mkx = "null"
  /\ pPriv = FALSE
  /\ cbs = FALSE
  /\ dev = [r \in Radios |-> "null"]
  /\ iface = [r \in Radios |-> FALSE]
  /\ mode \in [Radios -> {"on", "off"}]    \* whatever MKx starts with
  /\ refused = FALSE
  /\ rx = [r \in Radios |-> "idle"]

Goto(from, to) == pc = from /\ pc' = to

\* What insmod does with the value WCH11P_init returns.
Returned(status) == IF status = "ok" THEN "loaded" ELSE "failed"

-----------------------------------------------------------------------------
(***************************************************************************)
(* The calls into mac80211 and the LLC that change a resource. A call on a *)
(* resource that is not in the state the call needs leaves it "corrupt".   *)
(***************************************************************************)

\* API.Functions.Config(r) with the given mode: a refused call changes
\* nothing, and no caller looks at more than the status.
Refused == refused' = TRUE /\ UNCHANGED mode

Config_Standby(r, m) ==
  /\ mode' = [mode EXCEPT ![r] = IF m = "off" THEN "standby" ELSE m]
  /\ UNCHANGED refused
Config(r, m) ==
  \/ mode' = [mode EXCEPT ![r] = m] /\ UNCHANGED refused
  \/ Refused

\* ieee80211_unregister_hw closes the interface first, which calls
\* WCH11P_stop.
UnregisterHw(r) ==
  /\ dev' = [dev EXCEPT ![r] = IF @ = "registered" THEN "unregistered"
                                                   ELSE "corrupt"]
  /\ iface' = [iface EXCEPT ![r] = FALSE]
  /\ IF iface[r] THEN Config(r, "off") ELSE UNCHANGED llcVars
  /\ UNCHANGED rx

FreeHw_Forgotten(r) == UNCHANGED dev
FreeHw(r) ==
  dev' = [dev EXCEPT ![r] = IF @ \in {"alloc", "unregistered"} THEN "freed"
                                                               ELSE "corrupt"]

MKx_Exit == mkx' = IF mkx = "open" THEN "closed" ELSE "corrupt"

-----------------------------------------------------------------------------
(***************************************************************************)
(* WCH11P_init.                                                            *)
(***************************************************************************)
\* The assignment after a successful MKx_Init: pPriv is set, the callbacks
\* wait until both devices are registered.
SetPriv_Callbacks == pPriv' = TRUE /\ cbs' = TRUE
SetPriv == pPriv' = TRUE /\ UNCHANGED cbs

InitMKx ==
  \/ /\ Goto("MKx_Init", "allocA")
     /\ mkx' = "open"
     /\ SetPriv
     /\ UNCHANGED <<STATUS, dev, radioVars>>
  \/ /\ STATUS' = "error"                    \* MKx_Init reports an error
     /\ Goto("MKx_Init", Returned("error"))
     /\ UNCHANGED <<mkx, pPriv, cbs, dev, radioVars>>
  \/ /\ STATUS' = "ok"                       \* success, but no handle: the
     /\ Goto("MKx_Init", Returned("ok"))     \* assertion fails, STATUS = RET
     /\ UNCHANGED <<mkx, pPriv, cbs, dev, radioVars>>

\* A call that may fail: on failure STATUS is set and the label taken.
Fails(from, label) ==
  /\ Goto(from, label)
  /\ STATUS' = "error"
  /\ UNCHANGED <<mkx, pPriv, cbs, dev, radioVars>>

Alloc(r, from, to, label) ==
  \/ /\ Goto(from, to)
     /\ dev' = [dev EXCEPT ![r] = "alloc"]
     /\ UNCHANGED <<STATUS, mkx, pPriv, cbs, radioVars>>
  \/ Fails(from, label)

Register(r, from, to, label) ==
  \/ /\ Goto(from, to)
     /\ dev' = [dev EXCEPT ![r] = "registered"]
     /\ UNCHANGED <<STATUS, mkx, pPriv, cbs, radioVars>>
  \/ Fails(from, label)

SetCallbacks_NoTxCnf ==
  /\ Goto("callbacks", "disableA")
  /\ UNCHANGED <<STATUS, mkx, pPriv, cbs, dev, radioVars>>
SetCallbacks ==
  /\ Goto("callbacks", "disableA")
  /\ cbs' = TRUE
  /\ UNCHANGED <<STATUS, mkx, pPriv, dev, radioVars>>

\* "Disable radio A", "Disable radio B": the status is printed, not used.
Disable_Checked(r, from, to) ==
  \/ Goto(from, to) /\ Config(r, "off") /\ UNCHANGED <<driverVars, iface, rx>>
  \/ Fails(from, "BadHwRegA")
Disable(r, from, to) ==
  /\ Goto(from, to)
  /\ Config(r, "off")
  /\ UNCHANGED <<driverVars, iface, rx>>

\* The labels, in the order they fall through.
LabelRegB_SkipUnregister == UNCHANGED <<dev, radioVars>>
LabelRegB == UnregisterHw("A")

Unwind ==
  \/ /\ Goto("BadHwRegB", "BadHwRegA")
     /\ LabelRegB
     /\ UNCHANGED <<STATUS, mkx, pPriv, cbs>>
  \/ /\ Goto("BadHwRegA", "BadHwAllocB")
     /\ FreeHw("B")
     /\ UNCHANGED <<STATUS, mkx, pPriv, cbs, radioVars>>
  \/ /\ Goto("BadHwAllocB", "BadHwAllocA")
     /\ FreeHw("A")
     /\ UNCHANGED <<STATUS, mkx, pPriv, cbs, radioVars>>
  \/ /\ Goto("BadHwAllocA", Returned(STATUS))
     /\ MKx_Exit
     /\ UNCHANGED <<STATUS, pPriv, cbs, dev, radioVars>>

WCH11P_init ==
  \/ InitMKx
  \/ Alloc("A", "allocA", "allocB", "BadHwAllocA")
  \/ Alloc("B", "allocB", "registerA", "BadHwAllocB")
  \/ Register("A", "registerA", "registerB", "BadHwRegA")
  \/ Register("B", "registerB", "callbacks", "BadHwRegB")
  \/ SetCallbacks
  \/ Disable("A", "disableA", "disableB")
  \/ Disable("B", "disableB", Returned(STATUS))
  \/ Unwind

-----------------------------------------------------------------------------
(***************************************************************************)
(* WCH11P_exit, called by rmmod on a module whose init returned 0.         *)
(***************************************************************************)
\* if (pMacDev != NULL): unregister, then free; else on to the next block.
ExitDevice(r, from, free, to) ==
  \/ /\ dev[r] # "null"
     /\ Goto(from, free)
     /\ UnregisterHw(r)
     /\ UNCHANGED <<STATUS, mkx, pPriv, cbs>>
  \/ /\ dev[r] = "null"
     /\ Goto(from, to)
     /\ UNCHANGED <<driverVars, radioVars>>
  \/ /\ Goto(free, to)
     /\ FreeHw(r)
     /\ UNCHANGED <<STATUS, mkx, pPriv, cbs, radioVars>>

ExitMKx ==
  \/ /\ mkx = "null"
     /\ Goto("clearPriv", "gone")
     /\ UNCHANGED <<driverVars, radioVars>>
  \/ /\ mkx # "null"
     /\ Goto("clearPriv", "clearCallbacks")
     /\ pPriv' = FALSE
     /\ UNCHANGED <<STATUS, mkx, cbs, dev, radioVars>>
  \/ /\ Goto("clearCallbacks", "MKx_Exit")
     /\ cbs' = FALSE
     /\ UNCHANGED <<STATUS, mkx, pPriv, dev, radioVars>>
  \/ /\ Goto("MKx_Exit", "gone")
     /\ MKx_Exit
     /\ UNCHANGED <<STATUS, pPriv, cbs, dev, radioVars>>

WCH11P_exit ==
  \/ Goto("loaded", "exitA") /\ UNCHANGED <<driverVars, radioVars>>
  \/ ExitDevice("A", "exitA", "freeA", "exitB")
  \/ ExitDevice("B", "exitB", "freeB", "clearPriv")
  \/ ExitMKx

-----------------------------------------------------------------------------
(***************************************************************************)
(* What runs beside the loader.                                            *)
(***************************************************************************)
\* mac80211 brings an interface up; it stays down when WCH11P_start returns
\* the status of a refused Config.
StartRefused_Ignored(r) == Refused /\ iface' = [iface EXCEPT ![r] = TRUE]
StartRefused(r) == Refused /\ UNCHANGED iface

WCH11P_start(r) ==
  /\ dev[r] = "registered" /\ ~iface[r]
  /\ \/ /\ mode' = [mode EXCEPT ![r] = "on"]
        /\ iface' = [iface EXCEPT ![r] = TRUE]
        /\ UNCHANGED refused
     \/ StartRefused(r)
  /\ UNCHANGED <<pc, driverVars, rx>>

\* mac80211 takes it down; the result of WCH11P_stop is not returned.
StopMode_Keeps(r) == UNCHANGED llcVars
StopMode(r) == Config(r, "off")

WCH11P_stop(r) ==
  /\ iface[r]
  /\ iface' = [iface EXCEPT ![r] = FALSE]
  /\ StopMode(r)
  /\ UNCHANGED <<pc, driverVars, rx>>

\* The LLC has a frame from a radio that is on, and calls RxInd.
RxBegin(r) ==
  /\ mkx = "open" /\ cbs /\ mode[r] = "on" /\ rx[r] = "idle"
  /\ rx' = [rx EXCEPT ![r] = "called"]
  /\ UNCHANGED <<pc, driverVars, iface, llcVars>>

\* RxInd goes through pMKx->pPriv to the radio and hands the frame to its
\* device. Without them the kernel faults, and nothing is claimed of it.
WCH11P_RxInd(r) ==
  /\ rx[r] = "called" /\ pPriv /\ dev[r] = "registered"
  /\ rx' = [rx EXCEPT ![r] = "idle"]
  /\ UNCHANGED <<pc, driverVars, iface, llcVars>>

Loader == WCH11P_init \/ WCH11P_exit

Beside == \E r \in Radios : \/ WCH11P_start(r) \/ WCH11P_stop(r)
                            \/ RxBegin(r) \/ WCH11P_RxInd(r)

LifeNext == Loader \/ Beside

LifeSpec == LifeInit /\ [][LifeNext]_lifeVars

-----------------------------------------------------------------------------
(***************************************************************************)
(* Properties.                                                             *)
(***************************************************************************)
LifeTypeOK ==
  /\ pc \in InitPcs \union UnwindPcs \union {"loaded", "failed"} \union ExitPcs
  /\ STATUS \in {"ok", "error"}
  /\ mkx \in {"null", "open", "closed", "corrupt"}
  /\ pPriv \in BOOLEAN /\ cbs \in BOOLEAN
  /\ dev \in [Radios -> {"null", "alloc", "registered", "unregistered",
                         "freed", "corrupt"}]
  /\ iface \in [Radios -> BOOLEAN]
  /\ mode \in [Radios -> {"on", "off"}]
  /\ refused \in BOOLEAN
  /\ rx \in [Radios -> {"idle", "called"}]

\* The five labels of WCH11P_init and the two blocks of WCH11P_exit release
\* each resource once and in the state its release needs, from wherever a
\* failure jumps (netdriver.c:250-261, 272-290): no device is freed while it
\* is registered or before it exists, and MKx is closed once.
ReleasedInOrder == mkx # "corrupt" /\ \A r \in Radios : dev[r] # "corrupt"

Released == mkx # "open" /\ \A r \in Radios : dev[r] \in {"null", "freed"}
Complete == /\ mkx = "open" /\ pPriv /\ cbs
            /\ \A r \in Radios : dev[r] = "registered"

\* WCH11P_init leaves all of its resources or none: a load that fails at any
\* statement keeps nothing, a load that succeeds has everything unless MKx
\* gave no handle, and after WCH11P_exit nothing is left.
AllOrNothing ==
  /\ pc = "loaded" => Complete \/ Released
  /\ pc \in {"failed", "gone"} => Released

\* A frame the LLC indicates before the unload finds the private pointer and
\* the device it is handed to: wch11p-ops.c:53-67 dereference both untested,
\* so netdriver.c:227 must come after 175, 218 and 222.
RxFindsRadio ==
  \A r \in Radios : rx[r] = "called" /\ pc \notin ExitPcs
                      => pPriv /\ dev[r] = "registered"

\* As long as the LLC refused no Config call, a radio has been switched off by
\* the time its device is released in WCH11P_exit, although WCH11P_exit never
\* does so itself: it relies on WCH11P_init's "Disable" and on WCH11P_stop.
RadioOffWhenReleased ==
  \A r \in Radios : pc \in ExitPcs /\ dev[r] \in {"unregistered", "freed"}
                      /\ ~refused
                      => mode[r] = "off"

\* An interface that is up loses its radio, or comes up without it, in one way
\* only: WCH11P_init's "Disable" of that very radio (netdriver.c:236-245)
\* after an interface was brought up under it. No other statement, call or
\* refusal separates the two.
Silent(r) == iface[r] /\ mode[r] = "off"
DisablePc(r) == IF r = "A" THEN "disableA" ELSE "disableB"

OnlyDisableSilences ==
  [][ \A r \in Radios : Silent(r)' /\ ~Silent(r) => pc = DisablePc(r) ]_lifeVars

(***************************************************************************)
(* What the source says and the code does not do.                          *)
(***************************************************************************)
\* netdriver.c:281 "Used in callbacks": the private pointer is there as long
\* as a callback may use it.
CallbackHasPriv ==
  \A r \in Radios : rx[r] = "called" /\ ~refused => pPriv

\* mac80211-ops.c:168 "Setup radio as {A|B}0 on frequency <default>": an
\* interface that came up, and is still up, has its radio on.
UpMeansOn == \A r \in Radios : iface[r] /\ ~refused => mode[r] = "on"

\* netdriver.c:172 asserts the handle: a driver that is loaded has one.
LoadedHasMKx == pc = "loaded" => mkx = "open"
=============================================================================
