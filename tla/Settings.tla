------------------------------ MODULE Settings ------------------------------
(***************************************************************************)
(* What mac80211 has asked of the device and what the device is set to, in *)
(* b43/main.c.  The settings reach the hardware one call at a time, each   *)
(* under wl->mutex; the driver remembers some of them in struct b43_wl,    *)
(* others only mac80211 knows.  A controller restart (b43_chip_reset, on   *)
(* the workqueue) throws away all that is in the hardware and has to put   *)
(* it back from both, while mac80211 goes on changing it: the restart      *)
(* drops the mutex in core_stop, again before it reloads the channel       *)
(* configuration, and again before it reloads the interface's.             *)
(*                                                                         *)
(* A section under the mutex is one step here.  mac80211 makes one call at *)
(* a time, and writes hw->conf and vif->bss_conf before it calls.  Its     *)
(* flush of the workqueue before op_stop is taken to leave no restart      *)
(* behind; what happens when one is asked for after it is the matter of    *)
(* CoreLifecycle.                                                          *)
(*                                                                         *)
(* A definition directly above another and named for what it gets wrong is *)
(* a seeded fault, as in CoreLifecycle.                                    *)
(***************************************************************************)
EXTENDS Naturals

CONSTANTS
  Vifs,     (* the interfaces mac80211 may add, one at a time; also addresses *)
  Types,    (* their types                                                    *)
  Filters,  (* sets of filter flags mac80211 may ask for                      *)
  Queues,   (* mac80211's transmit queues                                     *)
  Params,   (* parameters it may give to one, besides the driver's own        *)
  Confs,    (* values of hw->conf: the listen interval and a retry limit      *)
  Bsses     (* values of a bss_conf: bssid, interval, basic rates, short slot *)

ASSUME TypesAssumption == Types \subseteq {"AP", "STATION", "ADHOC"}
ASSUME VifsAssumption == "NULL" \notin Vifs
ASSUME ConfsAssumption == Confs \subseteq [listen : Nat, retry : Nat]
ASSUME BssesAssumption ==
  /\ Bsses # {}
  /\ \A b \in Bsses : DOMAIN b = {"bssid", "interval", "basic", "slot"} /\ b.interval \in Nat

VARIABLES
  asked,   (* mac80211: the device open or not, its interface, hw->conf, each *)
           (* interface's bss_conf, the filter, the queues, scanning or not   *)
  wl,      (* struct b43_wl                                                   *)
  status,  (* b43_status(dev)                                                 *)
  chip,    (* the registers and the memory of the device                      *)
  op,      (* mac80211's call: where it stands and what it says has changed   *)
  work,    (* the restart: asked for or not, where it stands, and the vif it  *)
           (* goes by                                                         *)
  dropped  (* history: a restart has come during the scan under way           *)

vars == <<asked, wl, status, chip, op, work, dropped>>

NULL == "NULL"
Zero == "zero"
Own == "own"

UNINIT == 0
INITIALIZED == 1
STARTED == 2

AllConf == {"listen", "retry"}
AllBss == {"bssid", "interval", "basic", "slot"}

Differs(a, b) == {f \in DOMAIN a : a[f] # b[f]}

------------------------------------------------------------------------------
(* Registers and memory.                                                     *)

(* What upload_microcode leaves: the shared memory and the scratch registers *)
(* are zeroed, the rest is what the initial values say.                      *)
Blank ==
  [mode |-> "none", keep |-> {}, cfp |-> 0, pretbtt |-> 0, synth |-> 0,
   self |-> Zero, bssid |-> Zero, template |-> <<Zero, Zero>>,
   qos |-> [q \in Queues |-> Zero], edcf |-> FALSE, skcfpup |-> FALSE,
   listen |-> 0, retry |-> 0, slot |-> 0, interval |-> 0, basic |-> Zero]

IsMode(w, type) == w.operating /\ w.type = type

(* The flags of the filter that have a bit of MACCTL. *)
Kept == {"control", "fcsfail", "plcpfail", "bcn_prbresp"}

(* b43_adjust_opmode: everything is cleared and set again. *)
AdjustOpmode(c, w) ==
  [c EXCEPT !.mode = IF IsMode(w, "AP") THEN "AP"
                     ELSE IF IsMode(w, "ADHOC") THEN "ADHOC" ELSE "INFRA",
            !.keep = w.filter \cap Kept,
            !.cfp = IF IsMode(w, "AP") \/ IsMode(w, "ADHOC") THEN 2 ELSE 50]

MacFilterBssid(c, mac) == [c EXCEPT !.bssid = mac]

(* The address and the bssid together, for frames the firmware makes. *)
WriteMacBssidTemplates(c, w) ==
  [MacFilterBssid(c, w.bssid) EXCEPT !.template = <<w.addr, w.bssid>>]

UploadMacForgotten(c, w) == c

UploadCardMacAddress(c, w) == [WriteMacBssidTemplates(c, w) EXCEPT !.self = w.addr]

SetPretbtt(c, w) == [c EXCEPT !.pretbtt = IF IsMode(w, "ADHOC") THEN 2 ELSE 250]

SetSynthPuDelay(c, w, idle) ==
  [c EXCEPT !.synth = IF IsMode(w, "ADHOC") \/ idle THEN 500 ELSE 1050]

AtMost(bound, n) == IF n > bound THEN bound ELSE n

(* A retry limit is a counter of 4 bits, the listen interval one of 8. *)
SetRetryLimits(c, n) == [c EXCEPT !.retry = AtMost(15, n)]

SetListenInterval(c, n) == [c EXCEPT !.listen = AtMost(255, n)]

QosParamsUpload(c, q, p) == [c EXCEPT !.qos[q] = p]

QosUploadAll(c, w) == [c EXCEPT !.qos = w.qos]

QosInit(c, w) == [QosUploadAll(c, w) EXCEPT !.edcf = TRUE]

(* The driver's own parameters, until mac80211 sends some. *)
QosClear == [q \in Queues |-> Own]

SetBeaconInt(c, n) == [c EXCEPT !.interval = n]

UpdateBasicRates(c, rates) == [c EXCEPT !.basic = rates]

SlotTime(short) == 510 + IF short THEN 9 ELSE 20

SetSlotTime(c, short) == [c EXCEPT !.slot = SlotTime(short)]

(* The basic map of the rates, before mac80211 gives one. *)
RateMemoryInit(c) == [c EXCEPT !.basic = Own]

HostFlag(c, scanning) == [c EXCEPT !.skcfpup = scanning]

------------------------------------------------------------------------------
(* Bringing the core up: chip_init with the firmware's upload in it, then    *)
(* what core_init sets on its own.                                           *)

ChipInit(w) == AdjustOpmode(Blank, w)

CoreInit(w) ==
  LET limits == SetRetryLimits(HostFlag(ChipInit(w), FALSE), 7)
      queues == QosInit(RateMemoryInit(limits), w)
  IN UploadCardMacAddress(SetSynthPuDelay(queues, w, TRUE), w)

------------------------------------------------------------------------------
(* The two calls that a restart repeats for itself.                          *)

(* b43_op_config, of which the rest is NphyCal's. *)
Configured(c, changed) ==
  LET listens == IF "listen" \in changed THEN SetListenInterval(c, asked.conf.listen) ELSE c
  IN IF "retry" \in changed THEN SetRetryLimits(listens, asked.conf.retry) ELSE listens

(* Types that send beacons, to which alone the interval matters. *)
Beaconing(w) == \E type \in {"AP", "ADHOC"} : IsMode(w, type)

(* b43_op_bss_info_changed, with the conf of the vif it is called for.  A    *)
(* core that is not started takes nothing: it is reloaded when it starts.    *)
BssChanged(v, changed) ==
  IF status < STARTED THEN UNCHANGED <<wl, chip>>
  ELSE LET conf == asked.bss[v]
           w == IF "bssid" \in changed THEN [wl EXCEPT !.bssid = conf.bssid] ELSE wl
           c1 == IF "bssid" \in changed THEN WriteMacBssidTemplates(chip, w) ELSE chip
           c2 == IF "interval" \in changed /\ Beaconing(w) /\ conf.interval # 0
                 THEN SetBeaconInt(c1, conf.interval) ELSE c1
           c3 == IF "basic" \in changed THEN UpdateBasicRates(c2, conf.basic) ELSE c2
       IN /\ wl' = w
          /\ chip' = IF "slot" \in changed THEN SetSlotTime(c3, conf.slot) ELSE c3

------------------------------------------------------------------------------
(* mac80211's calls.                                                         *)

Idle == [pc |-> "idle", changed |-> {}]

Ready == op.pc = "idle" /\ asked.open

(* b43_op_start before it takes the mutex: forget the old instance. *)
OpStart ==
  /\ op.pc = "idle" /\ ~asked.open
  /\ wl' = [wl EXCEPT !.bssid = Zero, !.addr = Zero, !.filter = {}, !.qos = QosClear]
  /\ op' = [pc |-> "start", changed |-> {}]
  /\ UNCHANGED <<asked, status, chip, work, dropped>>

(* The core comes up. *)
OpStartLocked ==
  /\ op.pc = "start"
  /\ chip' = IF status < INITIALIZED THEN CoreInit(wl) ELSE chip
  /\ status' = STARTED
  /\ op' = [pc |-> "config", changed |-> AllConf]
  /\ asked' = [asked EXCEPT !.open = TRUE, !.filter = {}, !.qos = QosClear]
  /\ UNCHANGED <<wl, work, dropped>>

OpConfig ==
  /\ op.pc = "config"
  /\ chip' = Configured(chip, op.changed)
  /\ op' = Idle
  /\ UNCHANGED <<asked, wl, status, work, dropped>>

(* The last interface is gone and the workqueue is flushed. *)
OpStop ==
  /\ Ready /\ asked.vif = NULL
  /\ ~work.asked /\ work.pc = "idle"
  /\ status' = UNINIT
  /\ asked' = [asked EXCEPT !.open = FALSE]
  /\ UNCHANGED <<wl, chip, op, work, dropped>>

(* b43_op_add_interface up to its unlock. *)
OpAddInterface(v, type, bss) ==
  /\ Ready /\ asked.vif = NULL
  /\ ~wl.operating
  /\ asked' = [asked EXCEPT !.vif = v, !.bss[v] = bss]
  /\ LET w == [wl EXCEPT !.operating = TRUE, !.vif = v, !.type = type, !.addr = v]
         timed == SetSynthPuDelay(SetPretbtt(AdjustOpmode(chip, w), w), w, FALSE)
     IN wl' = w /\ chip' = UploadCardMacAddress(timed, w)
  /\ op' = [pc |-> "bss", changed |-> AllBss]
  /\ UNCHANGED <<status, work, dropped>>

OpBssInfoChanged ==
  /\ op.pc = "bss"
  /\ BssChanged(asked.vif, op.changed)
  /\ op' = Idle
  /\ UNCHANGED <<asked, status, work, dropped>>

(* A scan is completed before its interface goes. *)
OpRemoveInterface ==
  /\ Ready /\ asked.vif # NULL /\ ~asked.scanning
  /\ asked' = [asked EXCEPT !.vif = NULL]
  /\ LET w == [wl EXCEPT !.operating = FALSE, !.vif = NULL, !.addr = Zero]
     IN /\ wl' = w
        /\ chip' = UploadCardMacAddress(AdjustOpmode(chip, w), w)
  /\ UNCHANGED <<status, op, work, dropped>>

(* mac80211 changes hw->conf, then calls. *)
ConfChanges(conf) ==
  /\ Ready /\ conf # asked.conf
  /\ asked' = [asked EXCEPT !.conf = conf]
  /\ op' = [pc |-> "config", changed |-> Differs(conf, asked.conf)]
  /\ UNCHANGED <<wl, status, chip, work, dropped>>

(* And so for the conf of its interface. *)
BssChanges(bss) ==
  /\ Ready /\ asked.vif # NULL /\ bss # asked.bss[asked.vif]
  /\ asked' = [asked EXCEPT !.bss[asked.vif] = bss]
  /\ op' = [pc |-> "bss", changed |-> Differs(bss, asked.bss[asked.vif])]
  /\ UNCHANGED <<wl, status, chip, work, dropped>>

OpConfigureFilter(flags) ==
  /\ Ready /\ flags # asked.filter
  /\ asked' = [asked EXCEPT !.filter = flags]
  /\ wl' = [wl EXCEPT !.filter = flags]
  /\ chip' = IF status >= INITIALIZED THEN AdjustOpmode(chip, wl') ELSE chip
  /\ UNCHANGED <<status, op, work, dropped>>

(* Refused, and so not asked for, if the core is down. *)
OpConfTx(q, p) ==
  /\ Ready /\ status >= INITIALIZED
  /\ asked' = [asked EXCEPT !.qos[q] = p]
  /\ wl' = [wl EXCEPT !.qos[q] = p]
  /\ chip' = QosParamsUpload(chip, q, p)
  /\ UNCHANGED <<status, op, work, dropped>>

(* The start of a scan and its end. *)
OpSwScan ==
  /\ Ready /\ asked.vif # NULL
  /\ asked' = [asked EXCEPT !.scanning = ~@]
  /\ chip' = IF status >= INITIALIZED THEN HostFlag(chip, ~asked.scanning) ELSE chip
  /\ dropped' = FALSE
  /\ UNCHANGED <<wl, status, op, work>>

Mac80211Calls ==
  \/ OpStart \/ OpStartLocked \/ OpConfig \/ OpStop
  \/ \E v \in Vifs, type \in Types, bss \in Bsses : OpAddInterface(v, type, bss)
  \/ OpBssInfoChanged \/ OpRemoveInterface
  \/ \E conf \in Confs : ConfChanges(conf)
  \/ \E bss \in Bsses : BssChanges(bss)
  \/ \E flags \in Filters : OpConfigureFilter(flags)
  \/ \E q \in Queues, p \in Params : OpConfTx(q, p)
  \/ OpSwScan

------------------------------------------------------------------------------
(* The restart.                                                              *)

NoWork == [asked |-> FALSE, pc |-> "idle", vif |-> NULL]

(* b43_controller_restart, for a fault of the device or its firmware. *)
RestartAsked ==
  /\ status >= INITIALIZED
  /\ work' = [work EXCEPT !.asked = TRUE]
  /\ UNCHANGED <<asked, wl, status, chip, op, dropped>>

(* b43_chip_reset enters core_stop, which turns the interrupts off and waits *)
(* for the handlers with the mutex released.                                 *)
ResetStops ==
  /\ work.asked /\ work.pc = "idle" /\ status = STARTED
  /\ status' = INITIALIZED
  /\ work' = [work EXCEPT !.asked = FALSE, !.pc = "stopped"]
  /\ UNCHANGED <<asked, wl, chip, op, dropped>>

(* Down, and up again. *)
ResetStarts ==
  /\ work.pc = "stopped"
  /\ chip' = CoreInit(wl)
  /\ status' = STARTED
  /\ work' = [work EXCEPT !.pc = "config"]
  /\ dropped' = asked.scanning
  /\ UNCHANGED <<asked, wl, op>>

(* b43_op_config(~0). *)
ResetConfigs ==
  /\ work.pc = "config"
  /\ chip' = Configured(chip, AllConf)
  /\ work' = [work EXCEPT !.pc = "vif"]
  /\ UNCHANGED <<asked, wl, status, op, dropped>>

VifForgotten == NoWork

(* With an interface there is more to reload. *)
VifRead == IF wl.vif = NULL THEN [work EXCEPT !.pc = "idle"]
           ELSE [work EXCEPT !.pc = "bss", !.vif = wl.vif]

(* wl->vif is read without the mutex. *)
ResetReadsVif ==
  /\ work.pc = "vif"
  /\ work' = VifRead
  /\ UNCHANGED <<asked, wl, status, chip, op, dropped>>

(* b43_op_bss_info_changed(~0) for that interface. *)
ResetReloadsBss ==
  /\ work.pc = "bss"
  /\ BssChanged(work.vif, AllBss)
  /\ work' = [work EXCEPT !.pc = "idle", !.vif = NULL]
  /\ UNCHANGED <<asked, status, op, dropped>>

ChipReset == ResetStops \/ ResetStarts \/ ResetConfigs \/ ResetReadsVif \/ ResetReloadsBss

------------------------------------------------------------------------------
Init ==
  /\ asked \in [open : {FALSE}, vif : {NULL}, conf : Confs,
                bss : {[v \in Vifs |-> CHOOSE b \in Bsses : TRUE]},
                filter : {{}}, qos : {QosClear}, scanning : {FALSE}]
  /\ wl = [operating |-> FALSE, vif |-> NULL, type |-> NULL, addr |-> Zero,
           bssid |-> Zero, filter |-> {}, qos |-> QosClear]
  /\ status = UNINIT
  /\ chip = Blank
  /\ op = Idle
  /\ work = NoWork
  /\ dropped = FALSE

Next == Mac80211Calls \/ RestartAsked \/ ChipReset

Spec == Init /\ [][Next]_vars

(* A restart that was asked for runs, and a call that has begun goes on.     *)
FairSpec ==
  /\ Spec
  /\ WF_vars(ChipReset)
  /\ WF_vars(OpStartLocked \/ OpConfig \/ OpBssInfoChanged)

------------------------------------------------------------------------------
(* Properties.                                                               *)

(* The device is set to what mac80211 has asked for, but for the host flag   *)
(* SKCFPUP of a scan that a restart has come into: the core's init clears it *)
(* and nothing sets it again before the next scan.                           *)
Agrees ==
  LET v == asked.vif
      bss == asked.bss[v]
  IN /\ chip.self = v /\ chip.template = <<v, bss.bssid>> /\ chip.bssid = bss.bssid
     /\ chip.mode = IF wl.type = "STATION" THEN "INFRA" ELSE wl.type
     /\ chip.keep = asked.filter \cap Kept
     /\ chip.qos = asked.qos /\ chip.edcf
     /\ chip.listen = AtMost(255, asked.conf.listen)
     /\ chip.retry = AtMost(15, asked.conf.retry)
     /\ chip.basic = bss.basic /\ chip.slot = SlotTime(bss.slot)
     /\ wl.type # "STATION" /\ bss.interval # 0 => chip.interval = bss.interval
     /\ (chip.skcfpup <=> asked.scanning /\ ~dropped)

Served == asked.vif # NULL /\ op.pc = "idle"

(* Between calls and outside a restart the device does what it was asked, in *)
(* whatever order calls, filters and restarts came, with the one exception   *)
(* Agrees names.                                                             *)
SettingsHold == Served /\ work.pc = "idle" => Agrees

(* Without an interface the device answers to no address and keeps to the    *)
(* mode of a station, whatever interface it had and whenever it was reset.   *)
Unaddressed ==
  asked.open /\ asked.vif = NULL /\ op.pc = "idle" =>
    chip.self = Zero /\ chip.template[1] = Zero /\ chip.mode = "INFRA"

(* A restart does not leave the device unset: unless it is reset again and   *)
(* again, it is set as asked in the end (all but that flag), or its          *)
(* interface taken away.                                                     *)
Reloaded ==
  <>[]~work.asked => ((Served /\ ~Agrees) ~> (Agrees \/ asked.vif = NULL))

(* b43_op_bss_info_changed is called for the interface the driver has (its   *)
(* B43_WARN_ON(wl->vif != vif)).                                             *)
VifAgrees == work.pc = "bss" /\ status = STARTED => work.vif = wl.vif

(* What depends on the type of the interface only (the wake-up time of the   *)
(* synthesizer and the time before a beacon) is set when it is added.        *)
TimingsHold ==
  Served /\ work.pc = "idle" =>
    /\ chip.pretbtt = IF wl.type = "ADHOC" THEN 2 ELSE 250
    /\ chip.synth = IF wl.type = "ADHOC" THEN 500 ELSE 1050
==============================================================================
