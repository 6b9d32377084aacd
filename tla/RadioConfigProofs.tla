------------------------- MODULE RadioConfigProofs --------------------------
(***************************************************************************)
(* The two copies of a radio's configuration, proved to agree as far as    *)
(* RadioConfig says, for any frequencies, powers and antennas. The         *)
(* invariant says what a call in progress still carries: its local copy    *)
(* has the antennas, the mode and, if it does not overlap with another     *)
(* call, the channel and the power that the driver has noted.              *)
(***************************************************************************)
EXTENDS RadioConfig, TLAPS

\* A configuration with the antennas of the shadow.
SameAntennas(cfg) ==
  cfg.TxAntenna = shadow.TxAntenna /\ cfg.RxAntenna = shadow.RxAntenna

SameChannelAndPower(cfg) ==
  cfg.ChannelFreq = shadow.ChanFreq /\ cfg.DefaultTxPower = shadow.txPower

\* A call is in progress only on a started device, and its copy would not
\* change antennas or mode.
CarriesOn ==
  \A c \in Calls :
    /\ at[c] # "idle" => up # "stopped"
    /\ at[c] = "copied" => SameAntennas(Cfg[c])
    /\ at[c] = "copied" => Cfg[c].Mode = "on"

\* What holds since a config call began alone, while no calls overlap: one at a
\* time, each with the noted channel and power in its copy, and, once pushed and
\* not refused, in the radio. result() tells which, until get_antenna resets it.
OneCallCarries ==
  ~overlap =>
    /\ at["config"] = "idle" \/ at["bss_info_changed"] = "idle"
    /\ at["config"] = "copied" => SameChannelAndPower(Cfg["config"])
    /\ at["config"] = "pushed"
         /\ (~refused \/ (result = "ok" /\ ~queried))
         => SameChannelAndPower(radio)
    /\ at["bss_info_changed"] # "idle" => up = "running"
    /\ at["bss_info_changed"] = "noted" /\ ~refused
         => radio.ChannelFreq = shadow.ChanFreq
    /\ at["bss_info_changed"] = "copied" /\ ~refused
         => SameChannelAndPower(Cfg["bss_info_changed"])

RadioInv ==
  /\ RadioTypeOK
  /\ AntennasAsReported
  /\ OnWhileStarted
  /\ RadioFollowsShadow
  /\ CarriesOn
  /\ OneCallCarries

-----------------------------------------------------------------------------
LEMMA RadioTypeInit == RadioInit => RadioTypeOK
<1> SUFFICES ASSUME RadioInit PROVE RadioTypeOK
  OBVIOUS
<1>1. radio \in RadioConfigs
  BY ConstantsAssumption DEF RadioInit, RadioConfigs
<1>2. /\ shadow \in [ChanFreq : Freqs \union {DefaultFreq}, txPower : Int,
                    TxAntenna : Antennas \union {OBU_ANT_NONE},
                    RxAntenna : Antennas \union {OBU_ANT_NONE}]
      /\ at \in [Calls -> Stages]
  BY ConstantsAssumption DEF RadioInit, Stages
<1>3. Cfg \in [Calls -> RadioConfigs]
  BY <1>1 DEF RadioInit
<1>4. QED
  BY <1>1, <1>2, <1>3 DEF RadioInit, RadioTypeOK

\* What WCH11P_start pushes is a configuration.
LEMMA StartCfgType == RadioTypeOK => StartCfg \in RadioConfigs
<1> SUFFICES ASSUME RadioTypeOK PROVE StartCfg \in RadioConfigs
  OBVIOUS
<1>1. /\ shadow.ChanFreq \in Freqs \union {DefaultFreq}
      /\ shadow.TxAntenna \in Antennas \union {OBU_ANT_NONE}
      /\ shadow.RxAntenna \in Antennas \union {OBU_ANT_NONE}
  BY DEF RadioTypeOK
<1>2. radio \in RadioConfigs
  BY DEF RadioTypeOK
<1>3. StartTxPower \in Int
  BY DEF StartTxPower
<1>4. QED
  BY <1>1, <1>2, <1>3 DEF StartCfg, RadioConfigs

\* One case per callback of mac80211, and per step of those that overlap.
LEMMA RadioTypeStep == RadioTypeOK /\ [RadioNext]_confVars => RadioTypeOK'
<1> SUFFICES ASSUME RadioTypeOK, [RadioNext]_confVars PROVE RadioTypeOK'
  OBVIOUS
<1> USE DEF RadioTypeOK, RadioConfigs, Calls, Stages
<1>1. CASE WCH11P_start
  <2>1. StartCfg \in RadioConfigs
    BY StartCfgType
  <2>2. /\ radio' \in RadioConfigs /\ result' \in {"ok", "error"}
        /\ refused' \in BOOLEAN
    BY <1>1, <2>1 DEF WCH11P_start, Config
  <2>3. up' \in {"stopped", "started", "running"}
    BY <1>1 DEF WCH11P_start
  <2>4. QED
    BY <1>1, <2>2, <2>3 DEF WCH11P_start
<1>2. CASE WCH11P_stop
  BY <1>2 DEF WCH11P_stop, Config, StopCfg
<1>3. CASE WCH11P_get_antenna
  BY <1>3 DEF WCH11P_get_antenna
<1>4. ASSUME NEW t \in Antennas, NEW r \in Antennas, WCH11P_set_antenna(t, r)
      PROVE  RadioTypeOK'
  <2>1. radio' \in RadioConfigs
    BY <1>4 DEF WCH11P_set_antenna, Config
  <2>2. shadow' \in [ChanFreq : Freqs \union {DefaultFreq}, txPower : Int,
                     TxAntenna : Antennas \union {OBU_ANT_NONE},
                     RxAntenna : Antennas \union {OBU_ANT_NONE}]
    BY <1>4, <2>1 DEF WCH11P_set_antenna, ReadBack
  <2>3. QED
    BY <1>4, <2>1, <2>2 DEF WCH11P_set_antenna, Config
<1>5. ASSUME NEW f \in Freqs, NEW p \in Powers,
             NEW channel \in BOOLEAN, NEW power \in BOOLEAN,
             WCH11P_config(channel, power, f, p)
      PROVE  RadioTypeOK'
  <2>1. DBM_TO_HALFDBM(p) \in Int
    BY ConstantsAssumption DEF DBM_TO_HALFDBM
  <2>2. QED
    BY <1>5, <2>1 DEF WCH11P_config, Enter
<1>6. ASSUME NEW p \in Powers, WCH11P_bss_info_changed(p) PROVE RadioTypeOK'
  <2>1. DBM_TO_HALFDBM(p) \in Int
    BY ConstantsAssumption DEF DBM_TO_HALFDBM
  <2>2. QED
    BY <1>6, <2>1 DEF WCH11P_bss_info_changed, Enter
<1>7. ASSUME NEW c \in Calls, Copy(c) PROVE RadioTypeOK'
  <2>1. Filled(c) \in RadioConfigs
    BY DEF Filled
  <2>2. Cfg' \in [Calls -> RadioConfigs]
    BY <1>7, <2>1 DEF Copy
  <2>3. at' \in [Calls -> Stages]
    BY <1>7 DEF Copy
  <2>4. QED
    BY <1>7, <2>2, <2>3 DEF Copy
<1>8. ASSUME NEW c \in Calls, Push(c) PROVE RadioTypeOK'
  BY <1>8 DEF Push, Config
<1>9. CASE ConfigReturn
  BY <1>9 DEF ConfigReturn
<1>10. CASE UNCHANGED confVars
  BY <1>10 DEF confVars
<1>11. QED
  BY <1>1, <1>2, <1>3, <1>4, <1>5, <1>6, <1>7, <1>8, <1>9, <1>10 DEF RadioNext

THEOREM RadioTypeCorrect == RadioSpec => []RadioTypeOK
<1>1. QED
  BY RadioTypeInit, RadioTypeStep, PTL DEF RadioSpec

-----------------------------------------------------------------------------
LEMMA RadioInvInit == RadioInit => RadioInv
BY RadioTypeInit
   DEF RadioInit, RadioInv, AntennasAsReported, OnWhileStarted,
       RadioFollowsShadow, CarriesOn, OneCallCarries, Calls, SameAntennas

\* The calls that run alone change radio and shadow at once.
LEMMA AloneKeeps ==
  ASSUME RadioInv,
         \/ WCH11P_start \/ WCH11P_stop \/ WCH11P_get_antenna
         \/ \E t, r \in Antennas : WCH11P_set_antenna(t, r)
  PROVE  RadioInv'
<1> USE DEF RadioInv, AntennasAsReported, OnWhileStarted, RadioFollowsShadow,
            CarriesOn, OneCallCarries, Calls, SameAntennas, SameChannelAndPower
<1>1. RadioTypeOK'
  BY RadioTypeStep DEF RadioNext
<1> USE DEF RadioTypeOK, RadioConfigs
<1>2. CASE WCH11P_start
  BY <1>1, <1>2 DEF WCH11P_start, Config, StartCfg
<1>3. CASE WCH11P_stop
  BY <1>1, <1>3 DEF WCH11P_stop, Config, StopCfg, Alone
<1>4. CASE WCH11P_get_antenna
  BY <1>1, <1>4 DEF WCH11P_get_antenna, Alone
<1>5. ASSUME NEW t \in Antennas, NEW r \in Antennas, WCH11P_set_antenna(t, r)
      PROVE  RadioInv'
  <2>1. up = "stopped" /\ UNCHANGED <<up, at, Cfg, overlap>>
    BY <1>5 DEF WCH11P_set_antenna
  <2>2. \A c \in Calls : at[c] = "idle"
    BY <2>1
  <2>3. radio'.Mode = radio.Mode /\ (refused => refused')
    BY <1>5 DEF WCH11P_set_antenna, Config
  <2>4. QED
    BY <1>1, <2>1, <2>2, <2>3
<1>6. QED
  BY <1>2, <1>3, <1>4, <1>5

\* A call that notes leaves radio and copies alone. What another call carries
\* matters only as long as nothing overlapped.
LEMMA ConfigKeeps ==
  ASSUME RadioInv, NEW f \in Freqs, NEW p \in Powers,
         NEW channel \in BOOLEAN, NEW power \in BOOLEAN,
         WCH11P_config(channel, power, f, p)
  PROVE  RadioInv'
<1> USE DEF RadioInv, AntennasAsReported, OnWhileStarted, RadioFollowsShadow,
            CarriesOn, OneCallCarries, Calls, SameAntennas, SameChannelAndPower
<1>1. RadioTypeOK'
  BY RadioTypeStep DEF RadioNext
<1> USE DEF RadioTypeOK, RadioConfigs
<1>2. QED
  BY <1>1 DEF WCH11P_config, Enter, Alone

LEMMA BssInfoKeeps ==
  ASSUME RadioInv, NEW p \in Powers, WCH11P_bss_info_changed(p)
  PROVE  RadioInv'
<1> USE DEF RadioInv, AntennasAsReported, OnWhileStarted, RadioFollowsShadow,
            CarriesOn, OneCallCarries, Calls, SameAntennas, SameChannelAndPower
<1>1. RadioTypeOK'
  BY RadioTypeStep DEF RadioNext
<1> USE DEF RadioTypeOK, RadioConfigs
<1>2. QED
  BY <1>1 DEF WCH11P_bss_info_changed, Enter, Alone

\* The copy takes antennas and mode from the radio, and the rest from what was
\* noted.
LEMMA CopyKeeps ==
  ASSUME RadioInv, NEW c \in Calls, Copy(c)
  PROVE  RadioInv'
<1> USE DEF RadioInv, AntennasAsReported, OnWhileStarted, RadioFollowsShadow,
            CarriesOn, OneCallCarries, Calls, SameAntennas, SameChannelAndPower
<1>1. RadioTypeOK'
  BY RadioTypeStep DEF RadioNext
<1> USE DEF RadioTypeOK, RadioConfigs, Stages
<1>2. QED
  BY <1>1 DEF Copy, Filled, Alone

\* The push puts into the radio what the copy carried.
LEMMA PushKeeps ==
  ASSUME RadioInv, NEW c \in Calls, Push(c)
  PROVE  RadioInv'
<1> USE DEF RadioInv, AntennasAsReported, OnWhileStarted, RadioFollowsShadow,
            CarriesOn, OneCallCarries, Calls, SameAntennas, SameChannelAndPower
<1>1. RadioTypeOK'
  BY RadioTypeStep DEF RadioNext
<1> USE DEF RadioTypeOK, RadioConfigs, Stages
<1>2. QED
  BY <1>1 DEF Push, Config, Alone

\* What was pushed is returned: nothing but the stage of the call changes.
LEMMA ReturnKeeps == RadioInv /\ ConfigReturn => RadioInv'
<1> SUFFICES ASSUME RadioInv, ConfigReturn PROVE RadioInv'
  OBVIOUS
<1>1. RadioTypeOK'
  BY RadioTypeStep DEF RadioNext, RadioInv
<1>2. /\ at["config"] = "pushed" /\ at'["config"] = "idle"
      /\ at'["bss_info_changed"] = at["bss_info_changed"]
      /\ up # "stopped" /\ up' = "running"
      /\ UNCHANGED <<radio, shadow, result, Cfg, refused, overlap>>
  BY DEF ConfigReturn, RadioInv, RadioTypeOK, CarriesOn, Calls
<1>3. AntennasAsReported' /\ OnWhileStarted' /\ CarriesOn'
  BY <1>2 DEF RadioInv, AntennasAsReported, OnWhileStarted, CarriesOn, Calls,
              SameAntennas
<1>4. OneCallCarries'
  BY <1>2 DEF RadioInv, OneCallCarries, SameChannelAndPower
<1>5. RadioFollowsShadow'
  BY <1>2 DEF RadioInv, OneCallCarries, RadioFollowsShadow, SameChannelAndPower
<1>6. QED
  BY <1>1, <1>3, <1>4, <1>5 DEF RadioInv

LEMMA RadioInvStep == RadioInv /\ [RadioNext]_confVars => RadioInv'
<1> SUFFICES ASSUME RadioInv, [RadioNext]_confVars PROVE RadioInv'
  OBVIOUS
<1>1. CASE UNCHANGED confVars
  BY <1>1 DEF confVars, RadioInv, RadioTypeOK, AntennasAsReported,
              OnWhileStarted, RadioFollowsShadow, CarriesOn, OneCallCarries,
              SameAntennas, SameChannelAndPower, Alone
<1>2. CASE RadioNext
  <2>1. ASSUME NEW f \in Freqs, NEW p \in Powers, NEW channel \in BOOLEAN,
               NEW power \in BOOLEAN, WCH11P_config(channel, power, f, p)
        PROVE  RadioInv'
    BY <2>1, ConfigKeeps
  <2>2. ASSUME NEW p \in Powers, WCH11P_bss_info_changed(p) PROVE RadioInv'
    BY <2>2, BssInfoKeeps
  <2>3. ASSUME NEW c \in Calls, Copy(c) \/ Push(c) PROVE RadioInv'
    BY <2>3, CopyKeeps, PushKeeps
  <2>4. QED
    BY <1>2, <2>1, <2>2, <2>3, AloneKeeps, ReturnKeeps DEF RadioNext
<1>3. QED
  BY <1>1, <1>2

THEOREM RadioInvariant == RadioSpec => []RadioInv
<1>1. QED
  BY RadioInvInit, RadioInvStep, PTL DEF RadioSpec

-----------------------------------------------------------------------------
\* The antennas in use are those reported, whatever overlaps or is refused.
THEOREM RadioAntennas == RadioSpec => []AntennasAsReported
<1>1. QED
  BY RadioInvariant, PTL DEF RadioInv

\* The radio of a started device is on, although overlapping calls push copies
\* of the mode and any call may be refused; that of a stopped one is off, unless
\* a refusal has not been settled.
THEOREM RadioOnWhileStarted == RadioSpec => []OnWhileStarted
<1>1. QED
  BY RadioInvariant, PTL DEF RadioInv

\* The LLC has the noted channel and power, unless a refusal or an overlap came
\* after the last config that ran alone and succeeded.
THEOREM RadioFollows == RadioSpec => []RadioFollowsShadow
<1>1. QED
  BY RadioInvariant, PTL DEF RadioInv

\* A config that ran alone and returns success makes up for every refusal and
\* every overlap before it.
THEOREM RadioConfigApplies == RadioSpec => ConfigReturnsApplied
<1> DEFINE Applied ==
      at["config"] = "pushed" /\ at'["config"] = "idle" /\ result = "ok"
        /\ ~overlap /\ ~queried
      => /\ radio'.ChannelFreq = shadow'.ChanFreq
         /\ radio'.DefaultTxPower = shadow'.txPower
<1>1. RadioInv /\ RadioNext => Applied
  <2> SUFFICES ASSUME RadioInv, RadioNext, at["config"] = "pushed",
                      at'["config"] = "idle", result = "ok", ~overlap, ~queried
               PROVE  /\ radio'.ChannelFreq = shadow'.ChanFreq
                      /\ radio'.DefaultTxPower = shadow'.txPower
    OBVIOUS
  <2> USE DEF RadioInv, RadioTypeOK, Calls
  <2>1. ConfigReturn
    BY DEF RadioNext, WCH11P_start, WCH11P_stop, Alone, WCH11P_get_antenna,
           WCH11P_set_antenna, WCH11P_config, WCH11P_bss_info_changed, Enter,
           Copy, Push
  <2>2. UNCHANGED <<radio, shadow>>
    BY <2>1 DEF ConfigReturn
  <2>3. QED
    BY <2>2 DEF OneCallCarries, SameChannelAndPower
<1>2. QED
  BY <1>1, RadioInvariant, PTL DEF RadioSpec, ConfigReturnsApplied

-----------------------------------------------------------------------------
(***************************************************************************)
(* The power of a radio that is on.                                        *)
(***************************************************************************)
\* The marker is overwritten by the first config, before anything copies it.
PowerInv ==
  /\ RadioTypeOK
  /\ PowerChosen
  /\ up = "running" => shadow.txPower \in Asked
  /\ \A c \in Calls :
       /\ at[c] # "idle" => shadow.txPower \in Asked
       /\ at[c] = "copied" => Cfg[c].DefaultTxPower \in Asked

LEMMA PowerInit == RadioInit => PowerInv
BY RadioTypeInit DEF RadioInit, PowerInv, PowerChosen, Calls

LEMMA PowerStep == PowerInv /\ [RadioNext]_confVars => PowerInv'
<1> SUFFICES ASSUME PowerInv, [RadioNext]_confVars PROVE PowerInv'
  OBVIOUS
<1>1. RadioTypeOK /\ RadioTypeOK'
  BY RadioTypeStep DEF PowerInv
<1>2. /\ radio \in RadioConfigs /\ at \in [Calls -> Stages]
      /\ Cfg \in [Calls -> RadioConfigs]
      /\ shadow \in [ChanFreq : Freqs \union {DefaultFreq}, txPower : Int,
                     TxAntenna : Antennas \union {OBU_ANT_NONE},
                     RxAntenna : Antennas \union {OBU_ANT_NONE}]
  BY <1>1 DEF RadioTypeOK
<1> USE DEF PowerInv, PowerChosen
<1>3. CASE WCH11P_start
  <2>1. radio' = StartCfg \/ radio' = radio
    BY <1>3 DEF WCH11P_start, Config
  <2>2. StartCfg.DefaultTxPower = StartTxPower
    BY <1>2 DEF StartCfg, RadioConfigs
  <2>3. UNCHANGED <<shadow, at, Cfg>> /\ up' # "running"
    BY <1>3 DEF WCH11P_start
  <2>4. QED
    BY <1>1, <2>1, <2>2, <2>3 DEF Asked
<1>4. CASE WCH11P_stop
  <2>1. radio' = StopCfg \/ radio' = radio
    BY <1>4 DEF WCH11P_stop, Config
  <2>2. StopCfg.Mode = "off"
    BY <1>2 DEF StopCfg, RadioConfigs
  <2>3. UNCHANGED <<shadow, at, Cfg>> /\ up' # "running"
    BY <1>4 DEF WCH11P_stop
  <2>4. QED
    BY <1>1, <2>1, <2>2, <2>3 DEF Asked
<1>5. CASE WCH11P_get_antenna
  BY <1>1, <1>5 DEF WCH11P_get_antenna, Asked
<1>6. ASSUME NEW t \in Antennas, NEW r \in Antennas, WCH11P_set_antenna(t, r)
      PROVE  PowerInv'
  <2>1. radio'.Mode = radio.Mode /\ radio'.DefaultTxPower = radio.DefaultTxPower
    BY <1>2, <1>6 DEF WCH11P_set_antenna, Config, RadioConfigs
  <2>2. shadow'.txPower = shadow.txPower /\ UNCHANGED <<up, at, Cfg>>
    BY <1>2, <1>6 DEF WCH11P_set_antenna, ReadBack
  <2>3. QED
    BY <1>1, <2>1, <2>2 DEF Asked
<1>7. ASSUME NEW f \in Freqs, NEW p \in Powers,
             NEW channel \in BOOLEAN, NEW power \in BOOLEAN,
             WCH11P_config(channel, power, f, p)
      PROVE  PowerInv'
  <2>1. UNCHANGED <<up, radio, Cfg>>
    BY <1>7 DEF WCH11P_config, Enter
  <2>2. shadow'.txPower \in Asked
    \* Without a new power the device is in use, and a power was asked before.
    <3>1. shadow'.txPower = IF power THEN DBM_TO_HALFDBM(p) ELSE shadow.txPower
      BY <1>2, <1>7 DEF WCH11P_config
    <3>2. power \/ up = "running"
      BY <1>1, <1>7 DEF WCH11P_config, RadioTypeOK
    <3>3. QED
      BY <3>1, <3>2 DEF Asked
  <2>3. \A c \in Calls : at'[c] = "copied" => at[c] = "copied"
    BY <1>2, <1>7 DEF WCH11P_config, Enter
  <2>4. QED
    BY <1>1, <2>1, <2>2, <2>3 DEF Asked
<1>8. ASSUME NEW p \in Powers, WCH11P_bss_info_changed(p) PROVE PowerInv'
  <2>1. UNCHANGED <<up, radio, Cfg>>
    BY <1>8 DEF WCH11P_bss_info_changed, Enter
  <2>2. shadow'.txPower \in Asked
    BY <1>2, <1>8 DEF WCH11P_bss_info_changed, Asked
  <2>3. \A c \in Calls : at'[c] = "copied" => at[c] = "copied"
    BY <1>2, <1>8 DEF WCH11P_bss_info_changed, Enter
  <2>4. QED
    BY <1>1, <2>1, <2>2, <2>3 DEF Asked
<1>9. ASSUME NEW c \in Calls, Copy(c) PROVE PowerInv'
  <2>1. UNCHANGED <<up, radio, shadow>>
    BY <1>9 DEF Copy
  <2>2. Cfg'[c].DefaultTxPower \in Asked
    BY <1>2, <1>9 DEF Copy, Filled, RadioConfigs
  <2>3. \A d \in Calls \ {c} : at'[d] = at[d] /\ Cfg'[d] = Cfg[d]
    BY <1>2, <1>9 DEF Copy
  <2>4. at[c] # "idle"
    BY <1>9 DEF Copy
  <2>5. QED
    BY <1>1, <2>1, <2>2, <2>3, <2>4 DEF Asked
<1>10. ASSUME NEW c \in Calls, Push(c) PROVE PowerInv'
  <2>1. UNCHANGED <<shadow, Cfg>> /\ at[c] = "copied"
    BY <1>10 DEF Push
  <2>2. \A d \in Calls : /\ at'[d] # "idle" => at[d] # "idle"
                         /\ at'[d] = "copied" => at[d] = "copied"
    BY <1>2, <1>10 DEF Push
  <2>3. radio' = radio \/ radio' = Cfg[c]
    BY <1>10 DEF Push, Config
  <2>4. QED
    BY <1>1, <2>1, <2>2, <2>3 DEF Asked
<1>11. CASE ConfigReturn
  <2>1. UNCHANGED <<radio, shadow, Cfg>> /\ at["config"] # "idle"
    BY <1>11 DEF ConfigReturn
  <2>2. \A d \in Calls : at'[d] # "idle" => at'[d] = at[d]
    BY <1>2, <1>11 DEF ConfigReturn
  <2>3. shadow.txPower \in Asked
    BY <2>1 DEF Calls
  <2>4. QED
    BY <1>1, <2>1, <2>2, <2>3 DEF Asked
<1>12. CASE UNCHANGED confVars
  BY <1>1, <1>12 DEF confVars, Asked
<1>13. QED
  BY <1>3, <1>4, <1>5, <1>6, <1>7, <1>8, <1>9, <1>10, <1>11, <1>12 DEF RadioNext

\* Whatever overlaps or is refused, a radio that is on has a power somebody
\* chose, never the marker of netdriver.c:61.
THEOREM RadioPowerChosen == RadioSpec => []PowerChosen
<1>1. PowerInv => PowerChosen
  BY DEF PowerInv
<1>2. QED
  BY PowerInit, PowerStep, <1>1, PTL DEF RadioSpec
-----------------------------------------------------------------------------
(***************************************************************************)
(* The radio configuration against the life cycle. Lifecycle keeps of a    *)
(* radio whether an interface is up and whether the radio is on, and knows *)
(* of no callback but WCH11P_start and WCH11P_stop. Seen is what it sees   *)
(* of this radio, taken for radio A of a loaded driver: refusals are not   *)
(* counted.                                                                *)
(***************************************************************************)
Both(a, b) == [r \in {"A", "B"} |-> IF r = "A" THEN a ELSE b]

Seen == INSTANCE Lifecycle WITH
  pc <- "loaded", STATUS <- "ok", mkx <- "open", pPriv <- TRUE, cbs <- TRUE,
  dev <- Both("registered", "registered"),
  iface <- Both(up # "stopped", FALSE),
  mode <- Both(radio.Mode, "off"),
  refused <- TRUE,
  rx <- Both("idle", "idle")

\* A refused start is one for Lifecycle too.
LEMMA StartSeen == WCH11P_start => Seen!WCH11P_start("A")
<1> USE DEF WCH11P_start, Both, Seen!WCH11P_start, Seen!driverVars
<1>1. CASE radio' = StartCfg /\ result' = "ok" /\ WCH11P_start
  <2>1. radio'.Mode = "on"
    BY <1>1 DEF StartCfg
  <2>2. Both(radio.Mode, "off")' = [Both(radio.Mode, "off") EXCEPT !["A"] = "on"]
    BY <2>1
  <2>3. Both(up # "stopped", FALSE)'
          = [Both(up # "stopped", FALSE) EXCEPT !["A"] = TRUE]
    BY <1>1
  <2>4. QED
    BY <1>1, <2>2, <2>3
<1>2. CASE result' = "error" /\ UNCHANGED radio /\ WCH11P_start
  BY <1>2 DEF Seen!StartRefused, Seen!Refused
<1>3. QED
  BY <1>1, <1>2 DEF Config

LEMMA StopSeen == RadioInv /\ WCH11P_stop => Seen!WCH11P_stop("A")
BY DEF WCH11P_stop, Config, StopCfg, Both, Seen!WCH11P_stop, Seen!StopMode,
       Seen!Config, Seen!Refused, Seen!driverVars, RadioInv, RadioTypeOK,
       RadioConfigs

\* Where interface and mode stay, Lifecycle sees nothing.
LEMMA NothingSeen ==
  UNCHANGED radio.Mode /\ (up # "stopped")' = (up # "stopped")
    => UNCHANGED Seen!lifeVars
BY DEF Both, Seen!lifeVars, Seen!driverVars, Seen!radioVars, Seen!llcVars

\* Every callback that changes the configuration is, for Lifecycle, a start, a
\* stop or nothing: what config, bss_info_changed and set_antenna copy and push
\* back is, whatever overlaps, the mode the radio has.
THEOREM RadioImplementsLifecycle ==
  RadioSpec
    => [][Seen!WCH11P_start("A") \/ Seen!WCH11P_stop("A")]_(Seen!lifeVars)
<1> USE DEF RadioInv, RadioTypeOK, RadioConfigs
<1>1. RadioInv /\ [RadioNext]_confVars
        => [Seen!WCH11P_start("A") \/ Seen!WCH11P_stop("A")]_(Seen!lifeVars)
  <2> SUFFICES ASSUME RadioInv, [RadioNext]_confVars
               PROVE  \/ Seen!WCH11P_start("A") \/ Seen!WCH11P_stop("A")
                      \/ UNCHANGED Seen!lifeVars
    OBVIOUS
  <2>1. ASSUME NEW t \in Antennas, NEW r \in Antennas, WCH11P_set_antenna(t, r)
        PROVE  UNCHANGED Seen!lifeVars
    BY <2>1, NothingSeen DEF WCH11P_set_antenna, Config
  <2>2. CASE WCH11P_get_antenna
    BY <2>2, NothingSeen DEF WCH11P_get_antenna
  <2>3. ASSUME NEW f \in Freqs, NEW p \in Powers, NEW channel \in BOOLEAN,
               NEW power \in BOOLEAN, WCH11P_config(channel, power, f, p)
        PROVE  UNCHANGED Seen!lifeVars
    BY <2>3, NothingSeen DEF WCH11P_config, Enter
  <2>4. ASSUME NEW p \in Powers, WCH11P_bss_info_changed(p)
        PROVE  UNCHANGED Seen!lifeVars
    BY <2>4, NothingSeen DEF WCH11P_bss_info_changed, Enter
  <2>5. ASSUME NEW c \in Calls, Copy(c)
        PROVE  UNCHANGED Seen!lifeVars
    BY <2>5, NothingSeen DEF Copy
  <2>6. ASSUME NEW c \in Calls, Push(c)
        PROVE  UNCHANGED Seen!lifeVars
    <3>1. up # "stopped" /\ up' = up
      BY <2>6 DEF Push, CarriesOn, Calls
    <3>2. radio.Mode = "on" /\ radio'.Mode = "on"
      BY <2>6, <3>1 DEF Push, Config, CarriesOn, OnWhileStarted
    <3>3. QED
      BY <3>1, <3>2, NothingSeen
  <2>7. CASE ConfigReturn
    <3>1. up # "stopped" /\ up' = "running" /\ UNCHANGED radio
      BY <2>7 DEF ConfigReturn, CarriesOn, Calls
    <3>2. QED
      BY <3>1, NothingSeen
  <2>8. CASE UNCHANGED confVars
    BY <2>8, NothingSeen DEF confVars
  <2>9. QED
    BY <2>1, <2>2, <2>3, <2>4, <2>5, <2>6, <2>7, <2>8, StartSeen, StopSeen
       DEF RadioNext
<1>2. QED
  BY <1>1, RadioInvariant, PTL DEF RadioSpec
=============================================================================
