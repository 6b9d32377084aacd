---------------------------- MODULE RadioConfig -----------------------------
(***************************************************************************)
(* The configuration of one radio, kept twice: in the LLC, as              *)
(* pMKx->Config.Radio[ID], and in the driver, as fields of struct radio.   *)
(* Every callback of mac80211 that changes something notes it in struct    *)
(* radio, copies the LLC's configuration into a local one, overwrites its  *)
(* own fields and pushes the whole with the LLC's Config function. No lock *)
(* is held meanwhile: the spin locks are commented out. The two radios     *)
(* share nothing here.                                                     *)
(*                                                                         *)
(* An operator X_Mistake before X is X with a plausible mistake; no action *)
(* uses it. README.md names the property that notices it.                  *)
(***************************************************************************)
EXTENDS Integers

CONSTANTS
  Freqs, Powers, Antennas,    \* what mac80211 asks for: MHz, dBm, antenna masks
  DefaultFreq,                \* the initialiser of radio[ID].ChanFreq
  OBU_POWER_TX_DEFAULT        \* the initialiser of radio[ID].txPower

ASSUME ConstantsAssumption ==
  /\ Freqs \subseteq Nat /\ Powers \subseteq Nat /\ Antennas \subseteq Nat
  /\ OBU_POWER_TX_DEFAULT \in Int /\ DefaultFreq \in Nat

OBU_ANT_NONE == 0

\* The callbacks that may overlap.
Calls == {"config", "bss_info_changed"}

VARIABLES
  up,       \* is the device stopped, started and to be configured, or in use?
  radio,    \* pobu()->Config.Radio[ID]
  shadow,   \* the fields of struct radio that WCH11P_start and _config push
  result,   \* result(): the status of the last Config call
  at,       \* at[c]: how far the call c has come
  Cfg,      \* Cfg[c]: the local copy of the call c
  refused,  \* a Config call was refused, and none has settled it since
  overlap,  \* two calls overlapped, and no config call began alone since
  queried   \* get_antenna has run between the push and the return of config

confVars == <<up, radio, shadow, result, at, Cfg, refused, overlap, queried>>

DBM_TO_HALFDBM(val) == val * 2
StartTxPower == 10    \* 20.0 * 0.5

RadioInit ==
  /\ up = "stopped"
  /\ radio \in [Mode : {"off"}, ChannelFreq : Freqs, TxAntenna : Antennas,
                RxAntenna : Antennas, DefaultTxPower : {OBU_POWER_TX_DEFAULT}]
  /\ shadow = [ChanFreq |-> DefaultFreq, txPower |-> OBU_POWER_TX_DEFAULT,
               TxAntenna |-> OBU_ANT_NONE, RxAntenna |-> OBU_ANT_NONE]
  /\ result = "ok"
  /\ at = [c \in Calls |-> "idle"]
  /\ Cfg = [c \in Calls |-> radio]
  /\ refused = FALSE /\ overlap = FALSE /\ queried = FALSE

\* API.Functions.Config: the LLC takes over all of cfg, or nothing. A start, a
\* stop and a config call that ran alone settle what was refused before.
Config(cfg, settles) ==
  \/ radio' = cfg /\ result' = "ok" /\ refused' = (refused /\ ~settles)
  \/ result' = "error" /\ refused' = TRUE /\ UNCHANGED radio

Alone == \A c \in Calls : at[c] = "idle"

-----------------------------------------------------------------------------
(***************************************************************************)
(* The calls mac80211 makes under its own lock, with no other in progress. *)
(***************************************************************************)
\* The local copy WCH11P_start fills: the shadow, and a fixed power. What it
\* writes besides (bandwidth, address matching, retries) no other call changes.
StartCfg_FromLLC ==
  [radio EXCEPT !.Mode = "on", !.ChannelFreq = shadow.ChanFreq,
                !.DefaultTxPower = StartTxPower]
StartCfg_NoPower ==
  [radio EXCEPT !.Mode = "on", !.ChannelFreq = shadow.ChanFreq,
                !.TxAntenna = shadow.TxAntenna, !.RxAntenna = shadow.RxAntenna]
StartCfg ==
  [radio EXCEPT !.Mode = "on",
                !.ChannelFreq = shadow.ChanFreq,
                !.TxAntenna = shadow.TxAntenna,
                !.RxAntenna = shadow.RxAntenna,
                !.DefaultTxPower = StartTxPower]

\* WCH11P_start returns result(): the device stays stopped on an error.
WCH11P_start ==
  /\ up = "stopped"
  /\ Config(StartCfg, TRUE)
  /\ up' = IF result' = "ok" THEN "started" ELSE "stopped"
  /\ UNCHANGED <<shadow, at, Cfg, overlap, queried>>

StopCfg_Standby == [radio EXCEPT !.Mode = "standby"]
StopCfg == [radio EXCEPT !.Mode = "off"]

WCH11P_stop ==
  /\ up # "stopped" /\ Alone
  /\ up' = "stopped"
  /\ Config(StopCfg, TRUE)
  /\ UNCHANGED <<shadow, at, Cfg, overlap, queried>>

\* mac80211 refuses to set the antennas of a started device. What the driver
\* notes is read back from the LLC, after a refused Config too.
ReadBack(tx_ant, rx_ant) ==
  [shadow EXCEPT !.TxAntenna = radio'.TxAntenna, !.RxAntenna = radio'.RxAntenna]

WCH11P_set_antenna(tx_ant, rx_ant) ==
  /\ up = "stopped"
  /\ Config([radio EXCEPT !.TxAntenna = tx_ant, !.RxAntenna = rx_ant], FALSE)
  /\ shadow' = ReadBack(tx_ant, rx_ant)
  /\ UNCHANGED <<up, at, Cfg, overlap, queried>>

\* get_antenna reports the shadow, and resets result(). It answers a query, at
\* any time: another call that has yet to return result() returns the reset one.
WCH11P_get_antenna ==
  /\ result' = "ok"
  /\ queried' = (at["config"] = "pushed")
  /\ UNCHANGED <<up, radio, shadow, at, Cfg, refused, overlap>>

-----------------------------------------------------------------------------
(***************************************************************************)
(* WCH11P_config and WCH11P_bss_info_changed: note, copy, push, return.    *)
(***************************************************************************)
Enter(c) ==
  /\ at[c] = "idle"
  /\ at' = [at EXCEPT ![c] = "noted"]
  /\ overlap' = IF Alone THEN overlap /\ c # "config" ELSE TRUE
  /\ UNCHANGED <<up, radio, result, Cfg, refused, queried>>

\* A call with neither flag set changes nothing and returns the result() an
\* earlier call left. The first call after WCH11P_start has all flags set.
WCH11P_config(channel, power, center_freq, power_level) ==
  /\ channel \/ power
  /\ up = "started" => channel /\ power
  /\ up # "stopped"
  /\ shadow' = [shadow EXCEPT
       !.ChanFreq = IF channel THEN center_freq ELSE @,
       !.txPower = IF power THEN DBM_TO_HALFDBM(power_level) ELSE @]
  /\ Enter("config")

\* Nothing is done for a power that the driver has noted already.
WCH11P_bss_info_changed(txpower) ==
  /\ up = "running"
  /\ shadow.txPower # DBM_TO_HALFDBM(txpower)
  /\ shadow' = [shadow EXCEPT !.txPower = DBM_TO_HALFDBM(txpower)]
  /\ Enter("bss_info_changed")

\* memcpy of the LLC's configuration, and the fields the call overwrites.
Filled_NoPower(c) ==
  IF c = "config" THEN [radio EXCEPT !.ChannelFreq = shadow.ChanFreq]
                  ELSE [radio EXCEPT !.DefaultTxPower = shadow.txPower]
Filled_NoChannel(c) == [radio EXCEPT !.DefaultTxPower = shadow.txPower]
Filled_Zeroed(c) ==
  [Mode |-> "off", ChannelFreq |-> shadow.ChanFreq, TxAntenna |-> OBU_ANT_NONE,
   RxAntenna |-> OBU_ANT_NONE, DefaultTxPower |-> shadow.txPower]
Filled(c) ==
  IF c = "config" THEN [radio EXCEPT !.ChannelFreq = shadow.ChanFreq,
                                     !.DefaultTxPower = shadow.txPower]
                  ELSE [radio EXCEPT !.DefaultTxPower = shadow.txPower]

Copy(c) ==
  /\ at[c] = "noted"
  /\ Cfg' = [Cfg EXCEPT ![c] = Filled(c)]
  /\ at' = [at EXCEPT ![c] = "copied"]
  /\ UNCHANGED <<up, radio, shadow, result, refused, overlap, queried>>

\* The call pushes its copy and puts the status into result(). That is the end
\* of bss_info_changed; config has yet to return result().
Push(c) ==
  /\ at[c] = "copied"
  /\ Config(Cfg[c], c = "config" /\ ~overlap)
  /\ at' = [at EXCEPT ![c] = IF c = "config" THEN "pushed" ELSE "idle"]
  /\ UNCHANGED <<up, shadow, Cfg, overlap, queried>>

\* mac80211 ignores the error of the config call that opens the device.
ConfigReturn ==
  /\ at["config"] = "pushed"
  /\ at' = [at EXCEPT !["config"] = "idle"]
  /\ up' = "running"
  /\ queried' = FALSE
  /\ UNCHANGED <<radio, shadow, result, Cfg, refused, overlap>>

RadioNext ==
  \/ WCH11P_start \/ WCH11P_stop \/ WCH11P_get_antenna
  \/ \E t, r \in Antennas : WCH11P_set_antenna(t, r)
  \/ \E f \in Freqs, p \in Powers, channel, power \in BOOLEAN :
       WCH11P_config(channel, power, f, p)
  \/ \E p \in Powers : WCH11P_bss_info_changed(p)
  \/ \E c \in Calls : Copy(c) \/ Push(c)
  \/ ConfigReturn

RadioSpec == RadioInit /\ [][RadioNext]_confVars

-----------------------------------------------------------------------------
(***************************************************************************)
(* Properties.                                                             *)
(***************************************************************************)
RadioConfigs ==
  [Mode : {"off", "on"}, ChannelFreq : Freqs \union {DefaultFreq},
   TxAntenna : Antennas \union {OBU_ANT_NONE},
   RxAntenna : Antennas \union {OBU_ANT_NONE}, DefaultTxPower : Int]

Stages == {"idle", "noted", "copied", "pushed"}

RadioTypeOK ==
  /\ up \in {"stopped", "started", "running"}
  /\ radio \in RadioConfigs
  /\ shadow \in [ChanFreq : Freqs \union {DefaultFreq}, txPower : Int,
                 TxAntenna : Antennas \union {OBU_ANT_NONE},
                 RxAntenna : Antennas \union {OBU_ANT_NONE}]
  /\ result \in {"ok", "error"}
  /\ at \in [Calls -> Stages]
  /\ Cfg \in [Calls -> RadioConfigs]
  /\ refused \in BOOLEAN /\ overlap \in BOOLEAN /\ queried \in BOOLEAN

\* The radio of a device in use works with the antennas WCH11P_get_antenna
\* reports, whatever Config calls failed and however config and
\* bss_info_changed overlapped: mac80211-ops.c:331-332 notes what the LLC has,
\* 175-176 brings it back, and the stale copies of 415 and 455 carry it along.
AntennasAsReported ==
  up # "stopped" => /\ radio.TxAntenna = shadow.TxAntenna
                    /\ radio.RxAntenna = shadow.RxAntenna

\* The radio of a started device is on, whatever was refused. That of a stopped
\* one is off, unless something was refused since the last start or stop that
\* was not. config, bss_info_changed and set_antenna copy the mode and push it
\* back (mac80211-ops.c:324, 415, 455), so a push must not outlive the state it
\* was copied in.
OnWhileStarted ==
  /\ up # "stopped" => radio.Mode = "on"
  /\ up = "stopped" /\ ~refused => radio.Mode = "off"

\* A device at rest and in use runs on the channel and the power the driver has
\* noted, across any sequence of stops, starts, antenna changes and skipped
\* power changes, unless calls overlapped or one was refused since the last
\* config call that ran alone and was not. So overlaps and refusals do harm for
\* a while, never for good.
RadioFollowsShadow ==
  up = "running" /\ Alone /\ ~overlap /\ ~refused
    => /\ radio.ChannelFreq = shadow.ChanFreq
       /\ radio.DefaultTxPower = shadow.txPower

\* A WCH11P_config that changed something, that no call overlapped and that
\* returns success has made up for every refusal and every overlap before it:
\* both the channel and the power in the LLC are the noted ones, not only the
\* one that changed. Success means this unless get_antenna came in between: it
\* resets result() after mac80211-ops.c:458 has set it and before 465 returns it,
\* and mac80211 is then told that a refused change was made.
ConfigReturnsApplied ==
  [][ at["config"] = "pushed" /\ at'["config"] = "idle" /\ result = "ok"
        /\ ~overlap /\ ~queried
      => /\ radio'.ChannelFreq = shadow'.ChanFreq
         /\ radio'.DefaultTxPower = shadow'.txPower ]_confVars

\* A radio that is on transmits at the power of WCH11P_start or at one mac80211
\* asked for. The power the driver has noted begins as a marker (netdriver.c:61)
\* that stands for the default and is none itself: config and bss_info_changed
\* push what was noted, and neither may ever push the marker, in whatever order
\* they run, overlap or fail.
Asked == {DBM_TO_HALFDBM(p) : p \in Powers}
PowerChosen ==
  radio.Mode = "on" => radio.DefaultTxPower \in Asked \union {StartTxPower}
=============================================================================
