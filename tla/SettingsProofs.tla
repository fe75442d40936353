--------------------------- MODULE SettingsProofs ---------------------------
(***************************************************************************)
(* Theorems about the settings of the device, for every set of settings,   *)
(* queues and interfaces.                                                  *)
(***************************************************************************)
EXTENDS Settings, TLAPS

(***************************************************************************)
(* What a state consists of.                                               *)
(***************************************************************************)
AskedType ==
  asked \in [open : BOOLEAN, vif : Vifs \union {NULL}, conf : Confs, bss : [Vifs -> Bsses],
             filter : Filters \union {{}}, qos : [Queues -> Params \union {Own}],
             scanning : BOOLEAN]

WlFields == {"operating", "vif", "type", "addr", "bssid", "filter", "qos"}

ChipFields ==
  {"mode", "keep", "cfp", "pretbtt", "synth", "self", "bssid", "template", "qos", "edcf",
   "skcfpup", "listen", "retry", "slot", "interval", "basic"}

(* Where mac80211's call and the restart stand, and with what status.      *)
Places ==
  /\ op.pc \in {"idle", "start", "config", "bss"}
  /\ op.pc = "bss" => asked.vif # NULL
  /\ IF asked.open THEN op.pc # "start" ELSE op.pc \in {"idle", "start"} /\ asked.vif = NULL
  /\ work.asked \in BOOLEAN /\ work.vif \in Vifs \union {NULL}
  /\ DOMAIN work = {"asked", "pc", "vif"}
  /\ work.pc \in {"idle", "stopped", "config", "vif", "bss"}
  /\ work.pc = "bss" => work.vif \in Vifs
  /\ status = IF ~asked.open THEN UNINIT
              ELSE IF work.pc = "stopped" THEN INITIALIZED ELSE STARTED
  /\ ~asked.open => ~work.asked /\ work.pc = "idle"
  /\ asked.scanning => asked.vif # NULL

(* struct b43_wl follows mac80211's calls.                                 *)
Follows ==
  /\ DOMAIN wl = WlFields
  /\ wl.vif = asked.vif /\ wl.operating = (asked.vif # NULL)
  /\ wl.addr = IF asked.vif = NULL THEN Zero ELSE asked.vif
  /\ asked.vif # NULL => wl.type \in Types
  /\ op.pc = "start" => wl.filter = {} /\ wl.qos = QosClear
  /\ asked.open => wl.filter = asked.filter /\ wl.qos = asked.qos

(* The device follows struct b43_wl, restarted or not.                     *)
Mode(w) == IF IsMode(w, "AP") THEN "AP" ELSE IF IsMode(w, "ADHOC") THEN "ADHOC" ELSE "INFRA"

SetAs(c, w) ==
  /\ c.mode = Mode(w) /\ c.keep = w.filter \cap Kept
  /\ c.self = w.addr /\ c.bssid = w.bssid /\ c.template = <<w.addr, w.bssid>>
  /\ c.qos = w.qos /\ c.edcf

DeviceSet ==
  /\ DOMAIN chip = ChipFields
  /\ asked.open => SetAs(chip, wl) /\ (chip.skcfpup <=> asked.scanning /\ ~dropped)

(* hw->conf, which only mac80211 knows.                                    *)
ConfDue(f) == (op.pc = "config" /\ f \in op.changed) \/ work.pc \in {"stopped", "config"}

Configures ==
  asked.open =>
    /\ ConfDue("listen") \/ chip.listen = AtMost(255, asked.conf.listen)
    /\ ConfDue("retry") \/ chip.retry = AtMost(15, asked.conf.retry)

WlInv == AskedType /\ Places /\ Follows /\ DeviceSet /\ Configures

(***************************************************************************)
(* The interface's bss_conf: set, or about to be by mac80211's call or by  *)
(* the restart.  The restart reloads the interface it read without the     *)
(* mutex: this is the one mac80211 has unless it was exchanged in between. *)
(***************************************************************************)
SameVif == work.pc = "bss" /\ asked.vif # NULL => work.vif = asked.vif

BssDue(f) == (op.pc = "bss" /\ f \in op.changed) \/ work.pc # "idle"

BssSet ==
  asked.vif # NULL =>
    LET bss == asked.bss[asked.vif]
    IN /\ BssDue("bssid") \/ wl.bssid = bss.bssid
       /\ BssDue("basic") \/ chip.basic = bss.basic
       /\ BssDue("slot") \/ chip.slot = SlotTime(bss.slot)
       /\ \/ BssDue("interval") \/ wl.type = "STATION" \/ bss.interval = 0
          \/ chip.interval = bss.interval

(***************************************************************************)
(* What each write of the device changes, and what it leaves alone.        *)
(***************************************************************************)
Keeps(c, d, fields) ==
  DOMAIN c = ChipFields =>
    DOMAIN d = ChipFields /\ \A f \in ChipFields \ fields : d[f] = c[f]

LEMMA AdjustOpmodeSets ==
  ASSUME NEW c, NEW w
  PROVE  /\ Keeps(c, AdjustOpmode(c, w), {"mode", "keep", "cfp"})
         /\ DOMAIN c = ChipFields =>
              /\ AdjustOpmode(c, w).mode = Mode(w)
              /\ AdjustOpmode(c, w).keep = w.filter \cap Kept
BY DEF AdjustOpmode, Keeps, ChipFields, Mode

LEMMA TemplatesSet ==
  ASSUME NEW c, NEW w
  PROVE  /\ Keeps(c, WriteMacBssidTemplates(c, w), {"bssid", "template"})
         /\ DOMAIN c = ChipFields =>
              /\ WriteMacBssidTemplates(c, w).bssid = w.bssid
              /\ WriteMacBssidTemplates(c, w).template = <<w.addr, w.bssid>>
BY DEF WriteMacBssidTemplates, MacFilterBssid, Keeps, ChipFields

LEMMA AddressSet ==
  ASSUME NEW c, NEW w
  PROVE  /\ Keeps(c, UploadCardMacAddress(c, w), {"self", "bssid", "template"})
         /\ DOMAIN c = ChipFields =>
              /\ UploadCardMacAddress(c, w).self = w.addr
              /\ UploadCardMacAddress(c, w).bssid = w.bssid
              /\ UploadCardMacAddress(c, w).template = <<w.addr, w.bssid>>
<1> DEFINE d == WriteMacBssidTemplates(c, w)
<1>1. UploadCardMacAddress(c, w) = [d EXCEPT !.self = w.addr]
  BY DEF UploadCardMacAddress
<1> HIDE DEF d
<1>2. /\ Keeps(c, d, {"bssid", "template"})
      /\ DOMAIN c = ChipFields => d.bssid = w.bssid /\ d.template = <<w.addr, w.bssid>>
  BY TemplatesSet DEF d
<1> QED
  BY <1>1, <1>2 DEF Keeps, ChipFields

LEMMA KeepsItself == ASSUME NEW c, NEW fields PROVE Keeps(c, c, fields)
BY DEF Keeps

(* The settings of one register each. *)
LEMMA OneRegister ==
  ASSUME NEW c, NEW w, NEW x
  PROVE  /\ Keeps(c, SetPretbtt(c, w), {"pretbtt"})
         /\ Keeps(c, SetSynthPuDelay(c, w, x), {"synth"})
         /\ Keeps(c, SetRetryLimits(c, x), {"retry"})
         /\ Keeps(c, SetListenInterval(c, x), {"listen"})
         /\ Keeps(c, SetBeaconInt(c, x), {"interval"})
         /\ Keeps(c, UpdateBasicRates(c, x), {"basic"})
         /\ Keeps(c, SetSlotTime(c, x), {"slot"})
         /\ Keeps(c, RateMemoryInit(c), {"basic"})
         /\ Keeps(c, HostFlag(c, x), {"skcfpup"})
         /\ Keeps(c, QosUploadAll(c, w), {"qos"})
         /\ Keeps(c, QosInit(c, w), {"qos", "edcf"})
BY DEF SetPretbtt, SetSynthPuDelay, SetRetryLimits, SetListenInterval, SetBeaconInt,
       UpdateBasicRates, SetSlotTime, RateMemoryInit, HostFlag, QosUploadAll, QosInit,
       Keeps, ChipFields

LEMMA RegisterValue ==
  ASSUME NEW c, NEW w, NEW x, DOMAIN c = ChipFields
  PROVE  /\ SetRetryLimits(c, x).retry = AtMost(15, x)
         /\ SetListenInterval(c, x).listen = AtMost(255, x)
         /\ SetBeaconInt(c, x).interval = x
         /\ UpdateBasicRates(c, x).basic = x
         /\ SetSlotTime(c, x).slot = SlotTime(x)
         /\ HostFlag(c, x).skcfpup = x
         /\ QosInit(c, w).qos = w.qos /\ QosInit(c, w).edcf
BY DEF SetRetryLimits, SetListenInterval, SetBeaconInt, UpdateBasicRates, SetSlotTime,
       HostFlag, QosUploadAll, QosInit, ChipFields

LEMMA CoreInitSets ==
  ASSUME NEW w
  PROVE  /\ DOMAIN CoreInit(w) = ChipFields
         /\ SetAs(CoreInit(w), w) /\ ~CoreInit(w).skcfpup
<1> DEFINE c1 == AdjustOpmode(Blank, w)
           c2 == HostFlag(c1, FALSE)
           c3 == SetRetryLimits(c2, 7)
           c4 == RateMemoryInit(c3)
           c5 == QosInit(c4, w)
           c6 == SetSynthPuDelay(c5, w, TRUE)
<1>1. CoreInit(w) = UploadCardMacAddress(c6, w)
  BY DEF CoreInit, ChipInit
<1>2. DOMAIN Blank = ChipFields
  BY DEF Blank, ChipFields
<1> HIDE DEF c1, c2, c3, c4, c5, c6
<1>3. DOMAIN c1 = ChipFields /\ c1.mode = Mode(w) /\ c1.keep = w.filter \cap Kept
  BY <1>2, AdjustOpmodeSets DEF c1, Keeps
<1>4. Keeps(c1, c2, {"skcfpup"}) /\ ~c2.skcfpup
  <2>1. Keeps(c1, c2, {"skcfpup"})
    BY OneRegister DEF c2
  <2>2. ~c2.skcfpup
    BY <1>3 DEF c2, HostFlag, ChipFields
  <2> QED
    BY <2>1, <2>2
<1>5. Keeps(c2, c3, {"retry"}) /\ Keeps(c3, c4, {"basic"}) /\ Keeps(c4, c5, {"qos", "edcf"})
      /\ Keeps(c5, c6, {"synth"})
  BY OneRegister DEF c3, c4, c5, c6
<1>6. DOMAIN c2 = ChipFields /\ DOMAIN c3 = ChipFields /\ DOMAIN c4 = ChipFields
      /\ DOMAIN c5 = ChipFields /\ DOMAIN c6 = ChipFields
  BY <1>3, <1>4, <1>5 DEF Keeps
<1>7. c5.qos = w.qos /\ c5.edcf
  BY <1>6, RegisterValue DEF c5
<1>8. c6.mode = Mode(w) /\ c6.keep = w.filter \cap Kept /\ ~c6.skcfpup
      /\ c6.qos = w.qos /\ c6.edcf
  BY <1>3, <1>4, <1>5, <1>6, <1>7 DEF Keeps, ChipFields
<1> QED
  BY <1>1, <1>6, <1>8, AddressSet DEF Keeps, SetAs, ChipFields

LEMMA ConfiguredSets ==
  ASSUME NEW c, NEW changed, DOMAIN c = ChipFields
  PROVE  /\ Keeps(c, Configured(c, changed), {"listen", "retry"})
         /\ Configured(c, changed).listen = IF "listen" \in changed
                                            THEN AtMost(255, asked.conf.listen) ELSE c.listen
         /\ Configured(c, changed).retry = IF "retry" \in changed
                                           THEN AtMost(15, asked.conf.retry) ELSE c.retry
<1> DEFINE d == IF "listen" \in changed THEN SetListenInterval(c, asked.conf.listen) ELSE c
<1>1. Keeps(c, d, {"listen"})
      /\ d.listen = IF "listen" \in changed THEN AtMost(255, asked.conf.listen) ELSE c.listen
  BY OneRegister, RegisterValue DEF Keeps
<1>2. Configured(c, changed) = IF "retry" \in changed
                               THEN SetRetryLimits(d, asked.conf.retry) ELSE d
  BY DEF Configured
<1> HIDE DEF d
<1> DEFINE e == IF "retry" \in changed THEN SetRetryLimits(d, asked.conf.retry) ELSE d
<1>3. Keeps(d, e, {"retry"})
  BY OneRegister, KeepsItself
<1>4. DOMAIN d = ChipFields
  BY <1>1 DEF Keeps
<1>5. e.retry = IF "retry" \in changed THEN AtMost(15, asked.conf.retry) ELSE d.retry
  BY <1>4, RegisterValue
<1>6. Configured(c, changed) = e
  BY <1>2
<1> HIDE DEF e
<1>7. DOMAIN e = ChipFields /\ d.retry = c.retry /\ e.listen = d.listen
  BY <1>1, <1>3, <1>4 DEF Keeps, ChipFields
<1>8. Keeps(c, e, {"listen", "retry"})
  BY <1>1, <1>3, <1>4, <1>7 DEF Keeps
<1> QED
  BY <1>1, <1>5, <1>6, <1>7, <1>8

LEMMA BssChangedSets ==
  ASSUME NEW v, NEW changed, BssChanged(v, changed), DOMAIN chip = ChipFields,
         DOMAIN wl = WlFields, status \in 0..2
  PROVE  /\ DOMAIN wl' = WlFields /\ \A f \in WlFields \ {"bssid"} : wl'[f] = wl[f]
         /\ Keeps(chip, chip', {"bssid", "template", "interval", "basic", "slot"})
         /\ IF status >= STARTED /\ "bssid" \in changed
              THEN wl'.bssid = asked.bss[v].bssid /\ chip'.bssid = wl'.bssid
                   /\ chip'.template = <<wl'.addr, wl'.bssid>>
              ELSE wl'.bssid = wl.bssid /\ chip'.bssid = chip.bssid
                   /\ chip'.template = chip.template
         /\ chip'.basic = IF status >= STARTED /\ "basic" \in changed
                          THEN asked.bss[v].basic ELSE chip.basic
         /\ chip'.slot = IF status >= STARTED /\ "slot" \in changed
                         THEN SlotTime(asked.bss[v].slot) ELSE chip.slot
         /\ chip'.interval =
              IF status >= STARTED /\ "interval" \in changed /\ Beaconing(wl)
                                  /\ asked.bss[v].interval # 0
              THEN asked.bss[v].interval ELSE chip.interval
<1>1. CASE status < STARTED
  <2>1. wl' = wl /\ chip' = chip
    BY <1>1 DEF BssChanged
  <2>2. ~(status >= STARTED)
    BY <1>1 DEF STARTED
  <2> QED
    BY <2>1, <2>2 DEF Keeps
<1>2. CASE ~(status < STARTED)
  <2> DEFINE bss == asked.bss[v]
             w == IF "bssid" \in changed THEN [wl EXCEPT !.bssid = bss.bssid] ELSE wl
             c1 == IF "bssid" \in changed THEN WriteMacBssidTemplates(chip, w) ELSE chip
             c2 == IF "interval" \in changed /\ Beaconing(w) /\ bss.interval # 0
                   THEN SetBeaconInt(c1, bss.interval) ELSE c1
             c3 == IF "basic" \in changed THEN UpdateBasicRates(c2, bss.basic) ELSE c2
             c4 == IF "slot" \in changed THEN SetSlotTime(c3, bss.slot) ELSE c3
  <2>1. wl' = w /\ chip' = c4
    BY <1>2 DEF BssChanged
  <2>2. DOMAIN w = WlFields /\ (\A f \in WlFields \ {"bssid"} : w[f] = wl[f])
        /\ w.bssid = IF "bssid" \in changed THEN bss.bssid ELSE wl.bssid
    BY DEF WlFields
  <2>3. Beaconing(w) <=> Beaconing(wl)
    BY <2>2 DEF Beaconing, IsMode, WlFields
  <2> HIDE DEF w, bss
  <2>4. Keeps(chip, c1, {"bssid", "template"})
        /\ IF "bssid" \in changed
             THEN c1.bssid = w.bssid /\ c1.template = <<w.addr, w.bssid>>
             ELSE c1 = chip
    BY TemplatesSet DEF Keeps
  <2> HIDE DEF c1
  <2>5. DOMAIN c1 = ChipFields
    BY <2>4 DEF Keeps
  <2>6. Keeps(c1, c2, {"interval"})
        /\ c2.interval = IF "interval" \in changed /\ Beaconing(w) /\ bss.interval # 0
                         THEN bss.interval ELSE c1.interval
    <3>1. Keeps(c1, c2, {"interval"})
      BY OneRegister, KeepsItself
    <3>2. c2.interval = IF "interval" \in changed /\ Beaconing(w) /\ bss.interval # 0
                         THEN bss.interval ELSE c1.interval
      BY <2>5, RegisterValue
    <3> QED
      BY <3>1, <3>2
  <2> HIDE DEF c2
  <2>7. DOMAIN c2 = ChipFields
    BY <2>5, <2>6 DEF Keeps
  <2>8. Keeps(c2, c3, {"basic"})
        /\ c3.basic = IF "basic" \in changed THEN bss.basic ELSE c2.basic
    <3>1. Keeps(c2, c3, {"basic"})
      BY OneRegister, KeepsItself
    <3>2. c3.basic = IF "basic" \in changed THEN bss.basic ELSE c2.basic
      BY <2>7, RegisterValue
    <3> QED
      BY <3>1, <3>2
  <2> HIDE DEF c3
  <2>9. DOMAIN c3 = ChipFields
    BY <2>7, <2>8 DEF Keeps
  <2>10. Keeps(c3, c4, {"slot"})
         /\ c4.slot = IF "slot" \in changed THEN SlotTime(bss.slot) ELSE c3.slot
    <3>1. Keeps(c3, c4, {"slot"})
      BY OneRegister, KeepsItself
    <3>2. c4.slot = IF "slot" \in changed THEN SlotTime(bss.slot) ELSE c3.slot
      BY <2>9, RegisterValue
    <3> QED
      BY <3>1, <3>2
  <2> HIDE DEF c4
  <2>11. Keeps(chip, chip', {"bssid", "template", "interval", "basic", "slot"})
    BY <2>1, <2>4, <2>5, <2>6, <2>7, <2>8, <2>9, <2>10 DEF Keeps
  <2>12. /\ chip'.bssid = c1.bssid /\ chip'.template = c1.template
         /\ chip'.interval = c2.interval /\ chip'.basic = c3.basic /\ chip'.slot = c4.slot
         /\ c1.interval = chip.interval /\ c2.basic = chip.basic /\ c3.slot = chip.slot
    BY <2>1, <2>4, <2>5, <2>6, <2>7, <2>8, <2>9, <2>10 DEF Keeps, ChipFields
  <2>13. IF "bssid" \in changed
           THEN wl'.bssid = asked.bss[v].bssid /\ chip'.bssid = wl'.bssid
                /\ chip'.template = <<wl'.addr, wl'.bssid>>
           ELSE wl'.bssid = wl.bssid /\ chip'.bssid = chip.bssid
                /\ chip'.template = chip.template
    BY <2>1, <2>2, <2>4, <2>12 DEF bss
  <2>14. status >= STARTED <=> ~(status < STARTED)
    BY DEF STARTED
  <2> QED
    BY <1>2, <2>1, <2>2, <2>3, <2>6, <2>8, <2>10, <2>11, <2>12, <2>13, <2>14 DEF bss
<1> QED
  BY <1>1, <1>2

(***************************************************************************)
(* The steps.                                                              *)
(***************************************************************************)
LEMMA WlInit == Init => WlInv
<1> SUFFICES ASSUME Init PROVE WlInv
  OBVIOUS
<1>1. AskedType
  <2>1. [v \in Vifs |-> CHOOSE b \in Bsses : TRUE] \in [Vifs -> Bsses]
    BY BssesAssumption
  <2>2. QosClear \in [Queues -> Params \union {Own}]
    BY DEF QosClear
  <2> QED
    BY <2>1, <2>2 DEF Init, AskedType
<1>2. Places
  BY DEF Init, Places, Idle, NoWork, UNINIT
<1>3. Follows
  BY DEF Init, Follows, Idle, WlFields
<1>4. DeviceSet /\ Configures
  BY DEF Init, DeviceSet, Configures, Blank, ChipFields
<1> QED
  BY <1>1, <1>2, <1>3, <1>4 DEF WlInv

LEMMA AskedStep == WlInv /\ [Next]_vars => AskedType'
<1> SUFFICES ASSUME AskedType, Places, [Next]_vars PROVE AskedType'
  BY DEF WlInv
<1> USE DEF AskedType
<1>1. CASE OpStartLocked
  <2>1. QosClear \in [Queues -> Params \union {Own}]
    BY DEF QosClear
  <2> QED
    BY <1>1, <2>1 DEF OpStartLocked
<1>2. CASE OpStop \/ OpRemoveInterface \/ OpSwScan
  BY <1>2 DEF OpStop, OpRemoveInterface, OpSwScan
<1>3. ASSUME NEW v \in Vifs, NEW type \in Types, NEW bss \in Bsses, OpAddInterface(v, type, bss)
      PROVE  AskedType'
  BY <1>3 DEF OpAddInterface
<1>4. ASSUME NEW conf \in Confs, ConfChanges(conf) PROVE AskedType'
  BY <1>4 DEF ConfChanges
<1>5. ASSUME NEW bss \in Bsses, BssChanges(bss) PROVE AskedType'
  BY <1>5 DEF BssChanges
<1>6. ASSUME NEW flags \in Filters, OpConfigureFilter(flags) PROVE AskedType'
  BY <1>6 DEF OpConfigureFilter
<1>7. ASSUME NEW q \in Queues, NEW p \in Params, OpConfTx(q, p) PROVE AskedType'
  BY <1>7 DEF OpConfTx
<1>8. CASE OpStart \/ OpConfig \/ OpBssInfoChanged \/ RestartAsked \/ ChipReset \/ UNCHANGED vars
  <2>1. asked' = asked
    BY <1>8 DEF OpStart, OpConfig, OpBssInfoChanged, RestartAsked, ChipReset, ResetStops,
                ResetStarts, ResetConfigs, ResetReadsVif, ResetReloadsBss, vars
  <2> QED
    BY <2>1
<1> QED
  BY <1>1, <1>2, <1>3, <1>4, <1>5, <1>6, <1>7, <1>8 DEF Next, Mac80211Calls

LEMMA PlacesStep == WlInv /\ [Next]_vars => Places'
<1> SUFFICES ASSUME AskedType, Places, Follows, [Next]_vars PROVE Places'
  BY DEF WlInv
<1> USE DEF AskedType, Places, Idle, NoWork, UNINIT, INITIALIZED, STARTED
<1>1. CASE OpStart \/ OpConfig \/ OpBssInfoChanged
  BY <1>1 DEF OpStart, OpConfig, OpBssInfoChanged
<1>2. CASE OpStartLocked
  BY <1>2 DEF OpStartLocked
<1>3. CASE OpStop
  BY <1>3 DEF OpStop, Ready
<1>4. CASE OpRemoveInterface \/ OpSwScan
  BY <1>4 DEF OpRemoveInterface, OpSwScan, Ready
<1>5. ASSUME NEW v \in Vifs, NEW type \in Types, NEW bss \in Bsses, OpAddInterface(v, type, bss)
      PROVE  Places'
  BY <1>5, VifsAssumption DEF OpAddInterface, Ready, NULL
<1>6. ASSUME NEW conf \in Confs, ConfChanges(conf) PROVE Places'
  BY <1>6 DEF ConfChanges, Ready
<1>7. ASSUME NEW bss \in Bsses, BssChanges(bss) PROVE Places'
  BY <1>7 DEF BssChanges, Ready
<1>8. ASSUME NEW flags \in Filters, OpConfigureFilter(flags) PROVE Places'
  BY <1>8 DEF OpConfigureFilter
<1>9. ASSUME NEW q \in Queues, NEW p \in Params, OpConfTx(q, p) PROVE Places'
  BY <1>9 DEF OpConfTx
<1>10. CASE RestartAsked
  BY <1>10 DEF RestartAsked
<1>11. CASE ResetStops
  BY <1>11 DEF ResetStops
<1>12. CASE ResetStarts
  BY <1>12 DEF ResetStarts
<1>13. CASE ResetConfigs
  BY <1>13 DEF ResetConfigs
<1>14. CASE ResetReadsVif
  BY <1>14 DEF ResetReadsVif, VifRead, Follows
<1>15. CASE ResetReloadsBss
  BY <1>15 DEF ResetReloadsBss
<1>16. CASE UNCHANGED vars
  BY <1>16 DEF vars
<1> QED
  BY <1>1, <1>2, <1>3, <1>4, <1>5, <1>6, <1>7, <1>8, <1>9, <1>10, <1>11, <1>12, <1>13, <1>14,
     <1>15, <1>16 DEF Next, Mac80211Calls, ChipReset

(* The two places that call b43_op_bss_info_changed.                       *)
LEMMA BssCalls ==
  ASSUME WlInv, OpBssInfoChanged \/ ResetReloadsBss
  PROVE  /\ DOMAIN chip = ChipFields /\ DOMAIN wl = WlFields /\ status \in 0..2
         /\ asked' = asked /\ status' = status
         /\ \E v, changed : BssChanged(v, changed)
BY DEF WlInv, DeviceSet, Follows, Places, UNINIT, INITIALIZED, STARTED, OpBssInfoChanged,
       ResetReloadsBss

LEMMA FollowsStep == WlInv /\ [Next]_vars => Follows'
<1> SUFFICES ASSUME WlInv, [Next]_vars PROVE Follows'
  OBVIOUS
<1>0. AskedType /\ Places /\ Follows
  BY DEF WlInv
<1>1. CASE OpStart
  BY <1>0, <1>1 DEF OpStart, Places, Follows, WlFields
<1>2. CASE OpStartLocked
  BY <1>0, <1>2 DEF OpStartLocked, AskedType, Places, Follows
<1>3. CASE OpConfig \/ OpStop \/ OpSwScan
  BY <1>0, <1>3 DEF OpConfig, OpStop, OpSwScan, Ready, Idle, AskedType, Places, Follows
<1>4. CASE OpRemoveInterface
  BY <1>0, <1>4 DEF OpRemoveInterface, Ready, AskedType, Places, Follows, WlFields
<1>5. ASSUME NEW v \in Vifs, NEW type \in Types, NEW bss \in Bsses, OpAddInterface(v, type, bss)
      PROVE  Follows'
  BY <1>0, <1>5, VifsAssumption
     DEF OpAddInterface, Ready, AskedType, Places, Follows, WlFields, NULL
<1>6. ASSUME NEW conf \in Confs, ConfChanges(conf) PROVE Follows'
  BY <1>0, <1>6 DEF ConfChanges, Ready, AskedType, Follows
<1>7. ASSUME NEW bss \in Bsses, BssChanges(bss) PROVE Follows'
  BY <1>0, <1>7 DEF BssChanges, Ready, AskedType, Follows
<1>8. ASSUME NEW flags \in Filters, OpConfigureFilter(flags) PROVE Follows'
  BY <1>0, <1>8 DEF OpConfigureFilter, Ready, AskedType, Follows, WlFields
<1>9. ASSUME NEW q \in Queues, NEW p \in Params, OpConfTx(q, p) PROVE Follows'
  BY <1>0, <1>9 DEF OpConfTx, Ready, AskedType, Follows, WlFields
<1>10. CASE OpBssInfoChanged \/ ResetReloadsBss
  <2>1. /\ DOMAIN wl' = WlFields /\ (\A f \in WlFields \ {"bssid"} : wl'[f] = wl[f])
        /\ asked' = asked
    BY <1>10, BssCalls, BssChangedSets
  <2>2. op.pc # "start" => op'.pc # "start"
    BY <1>10 DEF OpBssInfoChanged, ResetReloadsBss, Idle
  <2>3. op.pc = "start" => op' = op
    BY <1>10 DEF OpBssInfoChanged, ResetReloadsBss
  <2> QED
    BY <1>0, <2>1, <2>2, <2>3 DEF Follows, WlFields
<1>11. CASE RestartAsked \/ ResetStops \/ ResetStarts \/ ResetConfigs \/ ResetReadsVif
            \/ UNCHANGED vars
  BY <1>0, <1>11 DEF RestartAsked, ResetStops, ResetStarts, ResetConfigs, ResetReadsVif, vars,
                     Follows
<1> QED
  BY <1>1, <1>2, <1>3, <1>4, <1>5, <1>6, <1>7, <1>8, <1>9, <1>10, <1>11
     DEF Next, Mac80211Calls, ChipReset

(* The interface's coming and going rewrite the opmode and the address.    *)
LEMMA Readdressed ==
  ASSUME NEW c, NEW w, DOMAIN c = ChipFields
  PROVE  LET d == UploadCardMacAddress(AdjustOpmode(c, w), w)
         IN /\ Keeps(c, d, {"mode", "keep", "cfp", "self", "bssid", "template"})
            /\ d.mode = Mode(w) /\ d.keep = w.filter \cap Kept
            /\ d.self = w.addr /\ d.bssid = w.bssid /\ d.template = <<w.addr, w.bssid>>
<1> DEFINE e == AdjustOpmode(c, w)
<1>1. Keeps(c, e, {"mode", "keep", "cfp"}) /\ e.mode = Mode(w) /\ e.keep = w.filter \cap Kept
  BY AdjustOpmodeSets
<1> HIDE DEF e
<1>2. DOMAIN e = ChipFields
  BY <1>1 DEF Keeps
<1> DEFINE d == UploadCardMacAddress(e, w)
<1>3. /\ Keeps(e, d, {"self", "bssid", "template"})
      /\ d.self = w.addr /\ d.bssid = w.bssid /\ d.template = <<w.addr, w.bssid>>
  BY <1>2, AddressSet
<1> HIDE DEF d
<1>4. Keeps(c, d, {"mode", "keep", "cfp", "self", "bssid", "template"})
      /\ d.mode = e.mode /\ d.keep = e.keep
  BY <1>1, <1>2, <1>3 DEF Keeps, ChipFields
<1> QED
  BY <1>1, <1>3, <1>4 DEF d, e

LEMMA Added ==
  ASSUME NEW c, NEW w, DOMAIN c = ChipFields
  PROVE  LET timed == SetSynthPuDelay(SetPretbtt(AdjustOpmode(c, w), w), w, FALSE)
             d == UploadCardMacAddress(timed, w)
         IN /\ Keeps(c, d, {"mode", "keep", "cfp", "pretbtt", "synth", "self", "bssid", "template"})
            /\ d.mode = Mode(w) /\ d.keep = w.filter \cap Kept
            /\ d.self = w.addr /\ d.bssid = w.bssid /\ d.template = <<w.addr, w.bssid>>
<1> DEFINE e == AdjustOpmode(c, w)
<1>1. Keeps(c, e, {"mode", "keep", "cfp"}) /\ e.mode = Mode(w) /\ e.keep = w.filter \cap Kept
  BY AdjustOpmodeSets
<1> HIDE DEF e
<1> DEFINE p == SetPretbtt(e, w)
<1>2. Keeps(e, p, {"pretbtt"})
  BY OneRegister
<1> HIDE DEF p
<1> DEFINE t == SetSynthPuDelay(p, w, FALSE)
<1>3. Keeps(p, t, {"synth"})
  BY OneRegister
<1> HIDE DEF t
<1>4. DOMAIN e = ChipFields /\ DOMAIN p = ChipFields /\ DOMAIN t = ChipFields
  BY <1>1, <1>2, <1>3 DEF Keeps
<1> DEFINE d == UploadCardMacAddress(t, w)
<1>5. /\ Keeps(t, d, {"self", "bssid", "template"})
      /\ d.self = w.addr /\ d.bssid = w.bssid /\ d.template = <<w.addr, w.bssid>>
  BY <1>4, AddressSet
<1> HIDE DEF d
<1>6. d.mode = e.mode /\ d.keep = e.keep
  BY <1>2, <1>3, <1>4, <1>5 DEF Keeps, ChipFields
<1>7. Keeps(c, d, {"mode", "keep", "cfp", "pretbtt", "synth", "self", "bssid", "template"})
  BY <1>1, <1>2, <1>3, <1>4, <1>5 DEF Keeps
<1> QED
  BY <1>1, <1>5, <1>6, <1>7 DEF d, e, p, t

LEMMA DeviceStep == WlInv /\ [Next]_vars => DeviceSet'
<1> SUFFICES ASSUME WlInv, [Next]_vars PROVE DeviceSet'
  OBVIOUS
<1>0. AskedType /\ Places /\ Follows /\ DeviceSet /\ DOMAIN chip = ChipFields
      /\ DOMAIN wl = WlFields
  BY DEF WlInv, DeviceSet, Follows
<1>1. CASE OpStart
  BY <1>0, <1>1 DEF OpStart, DeviceSet
<1>2. CASE OpStartLocked
  <2>1. chip' = CoreInit(wl) /\ wl' = wl
    BY <1>0, <1>2 DEF OpStartLocked, Places, UNINIT, INITIALIZED
  <2>2. ~asked'.scanning
    BY <1>0, <1>2 DEF OpStartLocked, Places, AskedType
  <2> QED
    BY <2>1, <2>2, CoreInitSets DEF DeviceSet
<1>3. CASE OpConfig \/ ResetConfigs
  <2>1. /\ Keeps(chip, chip', {"listen", "retry"}) /\ UNCHANGED <<wl, asked, dropped>>
    BY <1>0, <1>3, ConfiguredSets DEF OpConfig, ResetConfigs
  <2> QED
    BY <1>0, <2>1 DEF DeviceSet, SetAs, Keeps, ChipFields
<1>4. CASE OpStop \/ RestartAsked \/ ResetStops \/ ResetReadsVif \/ UNCHANGED vars
  <2>1. wl' = wl /\ chip' = chip /\ (asked'.open => asked.open)
        /\ UNCHANGED dropped /\ asked'.scanning = asked.scanning
    BY <1>0, <1>4 DEF OpStop, RestartAsked, ResetStops, ResetReadsVif, vars, AskedType
  <2> QED
    BY <1>0, <2>1 DEF DeviceSet
<1>5. ASSUME NEW v \in Vifs, NEW type \in Types, NEW bss \in Bsses, OpAddInterface(v, type, bss)
      PROVE  DeviceSet'
  <2>1. /\ asked.open /\ asked'.open /\ UNCHANGED dropped /\ asked'.scanning = asked.scanning
        /\ wl'.qos = wl.qos
    BY <1>0, <1>5 DEF OpAddInterface, Ready, AskedType, WlFields
  <2>2. /\ Keeps(chip, chip', {"mode", "keep", "cfp", "pretbtt", "synth", "self", "bssid",
                               "template"})
        /\ chip'.mode = Mode(wl') /\ chip'.keep = wl'.filter \cap Kept
        /\ chip'.self = wl'.addr /\ chip'.bssid = wl'.bssid
        /\ chip'.template = <<wl'.addr, wl'.bssid>>
    BY <1>0, <1>5, Added DEF OpAddInterface
  <2> QED
    BY <1>0, <2>1, <2>2 DEF DeviceSet, SetAs, Keeps, ChipFields, Mode, IsMode
<1>6. CASE OpRemoveInterface
  <2>1. /\ asked.open /\ asked'.open /\ UNCHANGED dropped /\ asked'.scanning = asked.scanning
        /\ wl'.qos = wl.qos
    BY <1>0, <1>6 DEF OpRemoveInterface, Ready, AskedType, WlFields
  <2>2. /\ Keeps(chip, chip', {"mode", "keep", "cfp", "self", "bssid", "template"})
        /\ chip'.mode = Mode(wl') /\ chip'.keep = wl'.filter \cap Kept
        /\ chip'.self = wl'.addr /\ chip'.bssid = wl'.bssid
        /\ chip'.template = <<wl'.addr, wl'.bssid>>
    BY <1>0, <1>6, Readdressed DEF OpRemoveInterface
  <2> QED
    BY <1>0, <2>1, <2>2 DEF DeviceSet, SetAs, Keeps, ChipFields, Mode, IsMode
<1>7. ASSUME NEW conf \in Confs, ConfChanges(conf) PROVE DeviceSet'
  BY <1>0, <1>7 DEF ConfChanges, Ready, AskedType, DeviceSet
<1>8. ASSUME NEW bss \in Bsses, BssChanges(bss) PROVE DeviceSet'
  BY <1>0, <1>8 DEF BssChanges, Ready, AskedType, DeviceSet
<1>9. ASSUME NEW flags \in Filters, OpConfigureFilter(flags) PROVE DeviceSet'
  <2>1. /\ asked.open /\ UNCHANGED dropped /\ asked'.scanning = asked.scanning
        /\ \A f \in WlFields \ {"filter"} : wl'[f] = wl[f]
    BY <1>0, <1>9 DEF OpConfigureFilter, Ready, AskedType, WlFields
  <2>2. chip' = AdjustOpmode(chip, wl')
    BY <1>0, <1>9, <2>1 DEF OpConfigureFilter, Places, INITIALIZED, STARTED
  <2>3. /\ Keeps(chip, chip', {"mode", "keep", "cfp"})
        /\ chip'.mode = Mode(wl') /\ chip'.keep = wl'.filter \cap Kept
    BY <1>0, <2>2, AdjustOpmodeSets
  <2> QED
    BY <1>0, <2>1, <2>3 DEF DeviceSet, SetAs, Keeps, ChipFields, WlFields, Mode, IsMode
<1>10. ASSUME NEW q \in Queues, NEW p \in Params, OpConfTx(q, p) PROVE DeviceSet'
  <2>1. /\ asked.open /\ UNCHANGED dropped /\ asked'.scanning = asked.scanning
        /\ \A f \in WlFields \ {"qos"} : wl'[f] = wl[f]
        /\ wl'.qos = [wl.qos EXCEPT ![q] = p]
    BY <1>0, <1>10 DEF OpConfTx, Ready, AskedType, WlFields
  <2>2. /\ Keeps(chip, chip', {"qos"})
        /\ chip'.qos = [chip.qos EXCEPT ![q] = p]
    BY <1>0, <1>10 DEF OpConfTx, QosParamsUpload, Keeps, ChipFields
  <2> QED
    BY <1>0, <2>1, <2>2 DEF DeviceSet, SetAs, Keeps, ChipFields, WlFields, Mode, IsMode
<1>11. CASE OpSwScan
  <2>1. asked.open /\ wl' = wl /\ asked'.scanning = ~asked.scanning /\ ~dropped'
    BY <1>0, <1>11 DEF OpSwScan, Ready, AskedType
  <2>2. chip' = HostFlag(chip, ~asked.scanning)
    BY <1>0, <1>11, <2>1 DEF OpSwScan, Places, INITIALIZED, STARTED
  <2>3. Keeps(chip, chip', {"skcfpup"})
    BY <2>2, OneRegister
  <2>4. chip'.skcfpup <=> ~asked.scanning
    BY <1>0, <2>2 DEF HostFlag, ChipFields
  <2>5. SetAs(chip', wl')
    BY <1>0, <2>1, <2>3 DEF DeviceSet, SetAs, Keeps, ChipFields
  <2>6. DOMAIN chip' = ChipFields
    BY <1>0, <2>3 DEF Keeps
  <2> QED
    BY <2>1, <2>4, <2>5, <2>6 DEF DeviceSet
<1>12. CASE OpBssInfoChanged \/ ResetReloadsBss
  <2>1. PICK v, changed : BssChanged(v, changed)
    BY <1>12, BssCalls
  <2>2. /\ \A f \in WlFields \ {"bssid"} : wl'[f] = wl[f]
        /\ Keeps(chip, chip', {"bssid", "template", "interval", "basic", "slot"})
        /\ asked' = asked /\ dropped' = dropped
    BY <1>12, <2>1, BssCalls, BssChangedSets DEF OpBssInfoChanged, ResetReloadsBss
  <2>3. SetAs(chip, wl) => chip'.bssid = wl'.bssid /\ chip'.template = <<wl'.addr, wl'.bssid>>
    <3>1. wl'.addr = wl.addr
      BY <2>2 DEF WlFields
    <3> QED
      BY <1>12, <2>1, <3>1, BssCalls, BssChangedSets DEF SetAs
  <2> QED
    BY <1>0, <2>2, <2>3 DEF DeviceSet, SetAs, Keeps, ChipFields, WlFields, Mode, IsMode
<1>13. CASE ResetStarts
  BY <1>13, CoreInitSets DEF ResetStarts, DeviceSet
<1> QED
  BY <1>1, <1>2, <1>3, <1>4, <1>5, <1>6, <1>7, <1>8, <1>9, <1>10, <1>11, <1>12, <1>13
     DEF Next, Mac80211Calls, ChipReset

LEMMA ConfigureStep == WlInv /\ [Next]_vars => Configures'
<1> SUFFICES ASSUME WlInv, [Next]_vars PROVE Configures'
  OBVIOUS
<1>0. AskedType /\ Places /\ Configures /\ DOMAIN chip = ChipFields /\ DOMAIN wl = WlFields
  BY DEF WlInv, DeviceSet, Follows
<1>1. CASE OpStart \/ OpStop \/ OpRemoveInterface \/ UNCHANGED vars
           \/ RestartAsked \/ ResetStops \/ ResetReadsVif
  <2>1. chip'.listen = chip.listen /\ chip'.retry = chip.retry
    BY <1>0, <1>1, Readdressed, AdjustOpmodeSets
       DEF OpStart, OpStop, OpRemoveInterface, vars, RestartAsked, ResetStops,
           ResetReadsVif, Keeps, ChipFields
  <2>2. (asked'.open => asked.open) /\ asked'.conf = asked.conf
    BY <1>0, <1>1
       DEF OpStart, OpStop, OpRemoveInterface, vars, RestartAsked, ResetStops,
           ResetReadsVif, AskedType
  <2>3. \/ asked.open /\ (op.pc = "config" => op' = op)
        \/ ~asked'.open
    BY <1>0, <1>1
       DEF OpStart, OpStop, OpRemoveInterface, vars, RestartAsked, ResetStops,
           ResetReadsVif, AskedType, Ready
  <2>4. work.pc \in {"stopped", "config"} => work'.pc \in {"stopped", "config"} \/ ~asked'.open
    BY <1>0, <1>1
       DEF OpStart, OpStop, OpRemoveInterface, vars, RestartAsked, ResetStops,
           ResetReadsVif, Places
  <2> QED
    BY <1>0, <2>1, <2>2, <2>3, <2>4 DEF Configures, ConfDue
<1>2. CASE OpStartLocked
  BY <1>2 DEF OpStartLocked, Configures, ConfDue, AllConf
<1>3. CASE OpConfig
  <2>1. /\ op.pc = "config" /\ op'.pc = "idle" /\ UNCHANGED <<asked, work>>
        /\ chip' = Configured(chip, op.changed)
    BY <1>3 DEF OpConfig, Idle
  <2> QED
    BY <1>0, <2>1, ConfiguredSets DEF Configures, ConfDue
<1>4. CASE ResetConfigs
  <2>1. UNCHANGED <<asked, op>> /\ chip' = Configured(chip, AllConf)
    BY <1>4 DEF ResetConfigs
  <2> QED
    BY <1>0, <2>1, ConfiguredSets DEF Configures, AllConf
<1>5. CASE ResetStarts
  BY <1>0, <1>5 DEF ResetStarts, Configures, ConfDue, Places
<1>6. ASSUME NEW v \in Vifs, NEW type \in Types, NEW bss \in Bsses, OpAddInterface(v, type, bss)
      PROVE  Configures'
  <2>1. Keeps(chip, chip', {"mode", "keep", "cfp", "pretbtt", "synth", "self", "bssid",
                            "template"})
    BY <1>0, <1>6, Added DEF OpAddInterface
  <2>2. chip'.listen = chip.listen /\ chip'.retry = chip.retry
    BY <1>0, <2>1 DEF Keeps, ChipFields
  <2>3. asked.open /\ asked'.conf = asked.conf /\ op.pc = "idle" /\ work' = work
    BY <1>0, <1>6 DEF OpAddInterface, Ready, AskedType
  <2> QED
    BY <1>0, <2>2, <2>3 DEF Configures, ConfDue
<1>7. ASSUME NEW conf \in Confs, ConfChanges(conf) PROVE Configures'
  <2>1. /\ op.pc = "idle" /\ op' = [pc |-> "config", changed |-> Differs(conf, asked.conf)]
        /\ UNCHANGED <<chip, work>> /\ asked.open /\ asked'.conf = conf
    BY <1>0, <1>7 DEF ConfChanges, Ready, AskedType
  <2>2. \A f \in {"listen", "retry"} : f \notin op'.changed => conf[f] = asked.conf[f]
    BY <1>0, <2>1, ConfsAssumption DEF Differs, AskedType
  <2> QED
    BY <1>0, <2>1, <2>2 DEF Configures, ConfDue
<1>8. ASSUME NEW bss \in Bsses, BssChanges(bss) PROVE Configures'
  BY <1>0, <1>8 DEF BssChanges, Ready, AskedType, Configures, ConfDue
<1>9. ASSUME NEW flags \in Filters, OpConfigureFilter(flags) PROVE Configures'
  <2>1. chip'.listen = chip.listen /\ chip'.retry = chip.retry
    BY <1>0, <1>9, AdjustOpmodeSets DEF OpConfigureFilter, Keeps, ChipFields
  <2>2. asked.open /\ asked'.conf = asked.conf /\ op' = op /\ work' = work
    BY <1>0, <1>9 DEF OpConfigureFilter, Ready, AskedType
  <2> QED
    BY <1>0, <2>1, <2>2 DEF Configures, ConfDue
<1>10. ASSUME NEW q \in Queues, NEW p \in Params, OpConfTx(q, p) PROVE Configures'
  <2>1. chip'.listen = chip.listen /\ chip'.retry = chip.retry
    BY <1>0, <1>10 DEF OpConfTx, QosParamsUpload, ChipFields
  <2>2. asked.open /\ asked'.conf = asked.conf /\ op' = op /\ work' = work
    BY <1>0, <1>10 DEF OpConfTx, Ready, AskedType
  <2> QED
    BY <1>0, <2>1, <2>2 DEF Configures, ConfDue
<1>11. CASE OpSwScan
  <2>1. chip'.listen = chip.listen /\ chip'.retry = chip.retry
    BY <1>0, <1>11 DEF OpSwScan, HostFlag, ChipFields
  <2>2. asked.open /\ asked'.conf = asked.conf /\ op' = op /\ work' = work
    BY <1>0, <1>11 DEF OpSwScan, Ready, AskedType
  <2> QED
    BY <1>0, <2>1, <2>2 DEF Configures, ConfDue
<1>12. CASE OpBssInfoChanged \/ ResetReloadsBss
  <2>1. Keeps(chip, chip', {"bssid", "template", "interval", "basic", "slot"}) /\ asked' = asked
    BY <1>12, BssCalls, BssChangedSets
  <2>2. chip'.listen = chip.listen /\ chip'.retry = chip.retry
    BY <1>0, <2>1 DEF Keeps, ChipFields
  <2>3. \/ op.pc = "bss" /\ work' = work
        \/ op' = op /\ work.pc = "bss"
    BY <1>12 DEF OpBssInfoChanged, ResetReloadsBss
  <2> QED
    BY <1>0, <2>1, <2>2, <2>3 DEF Configures, ConfDue
<1> QED
  BY <1>1, <1>2, <1>3, <1>4, <1>5, <1>6, <1>7, <1>8, <1>9, <1>10, <1>11, <1>12
     DEF Next, Mac80211Calls, ChipReset

(* Where the calls and the restart stand, and the device following struct  *)
(* b43_wl, with any number of interfaces.                                  *)
THEOREM WlInvariant == Spec => []WlInv
<1>1. WlInv /\ [Next]_vars => WlInv'
  BY AskedStep, PlacesStep, FollowsStep, DeviceStep, ConfigureStep DEF WlInv
<1> QED
  BY <1>1, WlInit, PTL DEF Spec

(* Without an interface the device answers to no address and keeps to the  *)
(* mode of a station, however the calls and the restarts interleaved.      *)
THEOREM Quiet == Spec => []Unaddressed
<1>1. WlInv => Unaddressed
  <2> SUFFICES ASSUME WlInv, asked.open, asked.vif = NULL
               PROVE  chip.self = Zero /\ chip.template[1] = Zero /\ chip.mode = "INFRA"
    BY DEF Unaddressed
  <2>1. SetAs(chip, wl) /\ wl.addr = Zero /\ ~wl.operating
    BY DEF WlInv, Follows, DeviceSet
  <2> QED
    BY <2>1 DEF SetAs, Mode, IsMode
<1> QED
  BY <1>1, WlInvariant, PTL

(***************************************************************************)
(* The settings of the interface.                                          *)
(***************************************************************************)
LEMMA BssInit == Init => BssSet
BY DEF Init, BssSet

LEMMA BssStep == WlInv /\ BssSet /\ SameVif /\ [Next]_vars => BssSet'
<1> SUFFICES ASSUME WlInv, BssSet, SameVif, [Next]_vars PROVE BssSet'
  OBVIOUS
<1>0. AskedType /\ Places /\ Follows /\ DOMAIN chip = ChipFields /\ DOMAIN wl = WlFields
  BY DEF WlInv, DeviceSet, Follows
<1> DEFINE Same == /\ wl'.bssid = wl.bssid /\ chip'.basic = chip.basic
                   /\ chip'.slot = chip.slot /\ chip'.interval = chip.interval
                   /\ wl'.type = wl.type
<1>1. CASE OpStartLocked \/ OpStop
  BY <1>0, <1>1 DEF OpStartLocked, OpStop, Ready, Places, BssSet, AskedType
<1>2. CASE OpStart
  BY <1>0, <1>2 DEF OpStart, Places, BssSet
<1>3. CASE OpConfig
  <2>1. Same
    <3>1. Keeps(chip, chip', {"listen", "retry"}) /\ wl' = wl
      BY <1>0, <1>3, ConfiguredSets DEF OpConfig
    <3> QED
      BY <1>0, <3>1 DEF Keeps, ChipFields
  <2>2. UNCHANGED <<asked, work>> /\ op.pc = "config"
    BY <1>3 DEF OpConfig
  <2> QED
    BY <2>1, <2>2 DEF BssSet, BssDue
<1>4. CASE OpRemoveInterface
  BY <1>0, <1>4 DEF OpRemoveInterface, BssSet, AskedType
<1>5. ASSUME NEW v \in Vifs, NEW type \in Types, NEW bss \in Bsses, OpAddInterface(v, type, bss)
      PROVE  BssSet'
  BY <1>5 DEF OpAddInterface, BssSet, BssDue, AllBss
<1>6. ASSUME NEW conf \in Confs, ConfChanges(conf) PROVE BssSet'
  BY <1>0, <1>6 DEF ConfChanges, Ready, AskedType, BssSet, BssDue
<1>7. ASSUME NEW bss \in Bsses, BssChanges(bss) PROVE BssSet'
  <2> DEFINE old == asked.bss[asked.vif]
  <2>1. /\ op.pc = "idle" /\ op' = [pc |-> "bss", changed |-> Differs(bss, old)]
        /\ UNCHANGED <<wl, chip, work>> /\ asked.vif # NULL /\ asked'.vif = asked.vif
        /\ asked'.bss[asked'.vif] = bss
    BY <1>0, <1>7 DEF BssChanges, Ready, AskedType
  <2>2. \A f \in {"bssid", "interval", "basic", "slot"} : f \notin op'.changed => bss[f] = old[f]
    BY <2>1, BssesAssumption DEF Differs
  <2> QED
    BY <2>1, <2>2 DEF BssSet, BssDue
<1>8. ASSUME NEW flags \in Filters, OpConfigureFilter(flags) PROVE BssSet'
  <2>1. Same
    BY <1>0, <1>8, AdjustOpmodeSets DEF OpConfigureFilter, Keeps, ChipFields, WlFields
  <2>2. UNCHANGED <<op, work>> /\ asked'.vif = asked.vif /\ asked'.bss = asked.bss
    BY <1>0, <1>8 DEF OpConfigureFilter, AskedType
  <2> QED
    BY <2>1, <2>2 DEF BssSet, BssDue
<1>9. ASSUME NEW q \in Queues, NEW p \in Params, OpConfTx(q, p) PROVE BssSet'
  <2>1. Same
    BY <1>0, <1>9 DEF OpConfTx, QosParamsUpload, ChipFields, WlFields
  <2>2. UNCHANGED <<op, work>> /\ asked'.vif = asked.vif /\ asked'.bss = asked.bss
    BY <1>0, <1>9 DEF OpConfTx, AskedType
  <2> QED
    BY <2>1, <2>2 DEF BssSet, BssDue
<1>10. CASE OpSwScan
  <2>1. Same
    BY <1>0, <1>10 DEF OpSwScan, HostFlag, ChipFields
  <2>2. UNCHANGED <<op, work>> /\ asked'.vif = asked.vif /\ asked'.bss = asked.bss
    BY <1>0, <1>10 DEF OpSwScan, AskedType
  <2> QED
    BY <2>1, <2>2 DEF BssSet, BssDue
<1>11. CASE OpBssInfoChanged \/ ResetReloadsBss
  <2>1. PICK v, changed : /\ BssChanged(v, changed)
                          /\ \/ /\ op.pc = "bss" /\ work' = work
                                /\ v = asked.vif /\ changed = op.changed
                             \/ /\ op' = op /\ work.pc = "bss"
                                /\ v = work.vif /\ changed = AllBss
    BY <1>11 DEF OpBssInfoChanged, ResetReloadsBss
  <2>2. asked' = asked
    BY <1>11, BssCalls
  <2> SUFFICES ASSUME asked.vif # NULL PROVE BssSet'
    BY <2>2 DEF BssSet
  <2>3. v = asked.vif
    BY <2>1 DEF SameVif
  <2>4. wl'.type = wl.type
    BY <1>11, <2>1, BssCalls, BssChangedSets DEF WlFields
  <2>5. CASE status >= STARTED
    <3>1. /\ wl'.bssid = IF "bssid" \in changed THEN asked.bss[v].bssid ELSE wl.bssid
          /\ chip'.basic = IF "basic" \in changed THEN asked.bss[v].basic ELSE chip.basic
          /\ chip'.slot = IF "slot" \in changed THEN SlotTime(asked.bss[v].slot) ELSE chip.slot
          /\ chip'.interval =
               IF "interval" \in changed /\ Beaconing(wl) /\ asked.bss[v].interval # 0
               THEN asked.bss[v].interval ELSE chip.interval
      BY <1>11, <2>1, <2>5, BssCalls, BssChangedSets
    <3>2. Beaconing(wl) \/ wl.type = "STATION"
      BY <1>0, TypesAssumption DEF Follows, Beaconing, IsMode
    <3>3. \/ op.pc = "bss" /\ changed = op.changed /\ work' = work
          \/ op' = op /\ changed = AllBss
      BY <2>1
    <3> QED
      BY <2>2, <2>3, <2>4, <3>1, <3>2, <3>3 DEF BssSet, BssDue, AllBss
  <2>6. CASE ~(status >= STARTED)
    <3>1. work'.pc = "stopped"
      BY <1>0, <1>11, <2>6
         DEF Places, OpBssInfoChanged, ResetReloadsBss, UNINIT, INITIALIZED, STARTED
    <3> QED
      BY <3>1 DEF BssSet, BssDue
  <2> QED
    BY <2>5, <2>6
<1>12. CASE RestartAsked \/ UNCHANGED vars
  <2>1. UNCHANGED <<asked, wl, chip, op>> /\ work'.pc = work.pc
    BY <1>0, <1>12 DEF RestartAsked, vars, Places
  <2> QED
    BY <2>1 DEF BssSet, BssDue
<1>13. CASE ResetStops \/ ResetStarts \/ ResetConfigs
  <2>1. work'.pc \in {"stopped", "config", "vif"}
    BY <1>0, <1>13 DEF ResetStops, ResetStarts, ResetConfigs, Places
  <2> QED
    BY <2>1 DEF BssSet, BssDue
<1>14. CASE ResetReadsVif
  <2>1. asked' = asked /\ (asked.vif # NULL => work'.pc = "bss")
    BY <1>0, <1>14 DEF ResetReadsVif, VifRead, Follows, Places
  <2> QED
    BY <2>1 DEF BssSet, BssDue
<1> QED
  BY <1>1, <1>2, <1>3, <1>4, <1>5, <1>6, <1>7, <1>8, <1>9, <1>10, <1>11, <1>12, <1>13, <1>14
     DEF Next, Mac80211Calls, ChipReset

LEMMA Settled == WlInv /\ BssSet => SettingsHold
<1> SUFFICES ASSUME WlInv, BssSet, Served, work.pc = "idle" PROVE Agrees
  BY DEF SettingsHold
<1>1. asked.open /\ asked.vif # NULL /\ op.pc = "idle" /\ wl.type \in Types
  BY DEF WlInv, Places, Follows, Served, AskedType
<1>2. /\ SetAs(chip, wl) /\ (chip.skcfpup <=> asked.scanning /\ ~dropped)
      /\ wl.addr = asked.vif /\ wl.filter = asked.filter /\ wl.qos = asked.qos
  BY <1>1 DEF WlInv, Follows, DeviceSet
<1>3. Mode(wl) = IF wl.type = "STATION" THEN "INFRA" ELSE wl.type
  BY <1>1, TypesAssumption DEF WlInv, Follows, Mode, IsMode
<1>4. /\ chip.listen = AtMost(255, asked.conf.listen)
      /\ chip.retry = AtMost(15, asked.conf.retry)
  BY <1>1 DEF WlInv, Configures, ConfDue
<1>5. LET bss == asked.bss[asked.vif]
      IN /\ wl.bssid = bss.bssid /\ chip.basic = bss.basic /\ chip.slot = SlotTime(bss.slot)
         /\ wl.type = "STATION" \/ bss.interval = 0 \/ chip.interval = bss.interval
  BY <1>1 DEF BssSet, BssDue
<1> QED
  BY <1>2, <1>3, <1>4, <1>5 DEF Agrees, SetAs

(* As long as no interface is exchanged for another between a restart's    *)
(* reading of wl->vif and its reload, the device is set as asked whenever  *)
(* neither a call nor a restart is under way.                              *)
THEOREM SetAsAsked == Spec /\ []SameVif => []SettingsHold
BY WlInvariant, BssInit, BssStep, Settled, PTL DEF Spec

(* With one interface, added and removed as often as mac80211 likes, it    *)
(* always is.                                                              *)
THEOREM OneInterface ==
  ASSUME NEW v, Vifs = {v}
  PROVE  Spec => []SettingsHold
<1>1. WlInv => SameVif
  BY DEF WlInv, AskedType, Places, SameVif
<1> QED
  BY <1>1, WlInvariant, SetAsAsked, PTL
=============================================================================
