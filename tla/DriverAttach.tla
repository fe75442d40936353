---------------------------- MODULE DriverAttach ----------------------------
(***************************************************************************)
(* b43/main.c from b43_bcma_probe to b43_bcma_remove: the core is attached *)
(* and put back to sleep, a work of the system's queue loads the firmware  *)
(* and registers with mac80211, and removal undoes what was reached.  The  *)
(* interface, the controller restart and the random number generator run   *)
(* beside all of it.                                                       *)
(*                                                                         *)
(* A removal has steps because others run between them; what touches a     *)
(* device that is gone or has no clock is kept in faults.  The core's      *)
(* revision is one b43_try_request_fw() has a microcode name for.          *)
(***************************************************************************)
EXTENDS BcmaBus

VARIABLES
  alive,    (* which of struct b43_wldev and struct b43_wl exist             *)
  current,  (* wl->current_dev: "dev" or "NULL"                              *)
  fw,       (* firmware_load: "idle", "pending", "asking", "trying", "loaded" *)
  kind,     (* ctx->req_type: "proprietary", "opensource"                    *)
  ucode,    (* dev->fw.ucode.data                                            *)
  known,    (* mac80211 has the hardware registered (hw_registered)          *)
  rng,      (* the random number generator is registered                     *)
  iface,    (* mac80211's interface: "open", "closed"                        *)
  up,       (* the core's status is INITIALIZED or more                      *)
  restart,  (* restart_work is queued                                        *)
  reload,   (* who is between unlocking the mutex and b43_op_config()        *)
  removal,  (* b43_bcma_remove: "no" or the step it is at                    *)
  faults    (* history: what touched the device when it should not           *)

attachVars == <<alive, current, fw, kind, ucode, known, rng, iface, up,
                restart, reload, removal, faults>>
vars == <<busVars, attachVars>>

Fault(who, what) == faults' = faults \union {[who |-> who, what |-> what, current |-> current]}

(* A thread that follows a NULL device dies with the mutex held.            *)
Sound == \A f \in faults : f.what # "null"

(* What wl->current_dev, or wl itself, points at was freed.                 *)
Gone == "wl" \notin alive \/ (current = "dev" /\ "wldev" \notin alive)

BusStays == UNCHANGED busVars
MacChanges == UNCHANGED <<scanVars, host, probes, power, todo, refs, added,
                          driverVars, watchdog, lost>>

(* b43_wireless_core_reset by way of the bus, and b43_device_disable.       *)
CoreReset(m) == CoreEnable(m, {"PHYCLK"})
CoreOff(m) == CoreDisable(m, {})

(***************************************************************************)
(* Attaching.                                                              *)
(***************************************************************************)
(* The first reset finds the PHY, the second turns its analog part on; the  *)
(* core sleeps again until the interface is opened.  Calls and a restart of *)
(* an earlier life have returned by then.                                   *)
AttachOk(i) ==
  /\ i \in toProbe /\ Sound /\ reload = {} /\ ~restart
  /\ DeviceProbe(i, TRUE)
  /\ mac' = CoreOff(CoreReset(CoreReset(mac)))
  /\ alive' = {"wldev", "wl"}
  /\ current' = "dev" /\ fw' = "pending" /\ kind' = "proprietary" /\ ucode' = FALSE
  /\ known' = FALSE /\ rng' = FALSE /\ iface' = "closed" /\ up' = FALSE
  /\ UNCHANGED <<restart, reload, removal, faults>>

(* No memory, a PHY that is not known or a band that is not supported: what *)
(* was allocated is freed, and the core stays as the last reset left it.    *)
AttachFails(i) ==
  /\ i \in toProbe /\ Sound
  /\ DeviceProbe(i, FALSE)
  /\ mac' \in {mac, CoreReset(mac)}
  /\ alive' = {}
  /\ UNCHANGED <<current, fw, kind, ucode, known, rng, iface, up, restart,
                 reload, removal, faults>>

(***************************************************************************)
(* The firmware_load work.                                                 *)
(***************************************************************************)
FwStart ==
  /\ fw = "pending" /\ Sound
  /\ fw' \in {"asking", "idle"}
  /\ kind' = "proprietary"
  /\ BusStays
  /\ UNCHANGED <<alive, current, ucode, known, rng, iface, up, restart, reload, removal, faults>>

(* b43_fw_cb: the answer, with a file or without, completes the wait.       *)
FwAnswer ==
  /\ fw = "asking" /\ Sound
  /\ fw' = "trying"
  /\ BusStays
  /\ UNCHANGED <<alive, current, kind, ucode, known, rng, iface, up, restart,
                 reload, removal, faults>>

(* The microcode, the PCM and both initial value files, or nothing kept;    *)
(* without proprietary files the open ones are asked for, without initial   *)
(* values for the device nothing more is tried.                             *)
FwTryForever ==
  /\ fw = "trying" /\ Sound
  /\ \/ fw' = "loaded" /\ ucode' = TRUE /\ UNCHANGED kind
     \/ ucode' = FALSE /\ kind' = "opensource" /\ fw' = "asking"
     \/ ucode' = FALSE /\ fw' = "idle" /\ kind' = "proprietary"
  /\ BusStays
  /\ UNCHANGED <<alive, current, known, rng, iface, up, restart, reload, removal, faults>>

FwTry ==
  /\ fw = "trying" /\ Sound
  /\ \/ fw' = "loaded" /\ ucode' = TRUE /\ UNCHANGED kind
     \/ /\ kind = "proprietary"
        /\ ucode' = FALSE /\ kind' = "opensource" /\ fw' = "asking"
     \/ ucode' = FALSE /\ fw' = "idle" /\ kind' = "proprietary"
  /\ BusStays
  /\ UNCHANGED <<alive, current, known, rng, iface, up, restart, reload, removal, faults>>

(* ieee80211_register_hw and b43_rng_init, either of which may fail.        *)
FwRegister ==
  /\ fw = "loaded" /\ Sound
  /\ fw' = "idle" /\ kind' = "proprietary"
  /\ \/ known' = TRUE /\ rng' \in BOOLEAN
     \/ UNCHANGED <<known, rng>>
  /\ BusStays
  /\ UNCHANGED <<alive, current, ucode, iface, up, restart, reload, removal, faults>>

(***************************************************************************)
(* mac80211's interface, the restart and the random number generator.      *)
(***************************************************************************)
(* mac80211 calls the operations one at a time, and none once it lets the   *)
(* hardware go.                                                             *)
Calls == known /\ removal \in {"no", "cancelled", "skipped", "detached"} /\ "start" \notin reload

(* b43_op_start: the core is initialised and started, or put down again.    *)
Open ==
  /\ Calls /\ iface = "closed" /\ Sound
  /\ \/ /\ Gone
        /\ Fault("start", "freed")
        /\ BusStays /\ UNCHANGED <<iface, up, reload>>
     \/ /\ ~Gone /\ current = "NULL"
        /\ Fault("start", "null")
        /\ BusStays /\ UNCHANGED <<iface, up, reload>>
     \/ /\ ~Gone /\ current = "dev"
        /\ \/ /\ mac' = CoreReset(mac) /\ up' = TRUE /\ iface' = "open"
              /\ reload' = reload \union {"start"}
           \/ /\ mac' \in {CoreReset(mac), CoreOff(CoreReset(mac))}
              /\ UNCHANGED <<up, iface, reload>>
        /\ MacChanges /\ UNCHANGED faults
  /\ UNCHANGED <<alive, current, fw, kind, ucode, known, rng, restart, removal>>

(* b43_op_stop: the core goes down, if there is still one.                  *)
Close ==
  /\ known /\ removal \in {"no", "cancelled", "unregistering", "skipped", "detached"}
  /\ "start" \notin reload /\ iface = "open" /\ Sound
  /\ iface' = "closed"
  /\ up' = FALSE
  /\ mac' = IF up THEN CoreOff(mac) ELSE mac
  /\ IF Gone THEN Fault("stop", "freed") ELSE UNCHANGED faults
  /\ MacChanges
  /\ UNCHANGED <<alive, current, fw, kind, ucode, known, rng, restart, reload, removal>>

(* b43_controller_restart, from an interrupt or a work, while the core is   *)
(* initialised.                                                             *)
RestartAsked ==
  /\ up /\ ~restart /\ Sound
  /\ restart' = TRUE
  /\ BusStays
  /\ UNCHANGED <<alive, current, fw, kind, ucode, known, rng, iface, up, reload, removal, faults>>

(* b43_chip_reset up to its unlock; it may be asked for again while it      *)
(* waits for the mutex.  A core that is down already stays down.            *)
RestartRun ==
  /\ restart /\ "restart" \notin reload /\ "wldev" \in alive /\ Sound
  /\ restart' \in {FALSE, up}
  /\ \/ /\ up
        /\ mac' = CoreReset(CoreOff(mac)) /\ reload' = reload \union {"restart"}
        /\ UNCHANGED <<current, up>>
     \/ /\ up
        /\ mac' \in {CoreReset(CoreOff(mac)), CoreOff(mac)}
        /\ current' = "NULL" /\ up' = FALSE
        /\ UNCHANGED reload
     \/ /\ ~up
        /\ reload' = reload \union {"restart"}
        /\ UNCHANGED <<mac, current, up>>
  /\ MacChanges
  /\ UNCHANGED <<alive, fw, kind, ucode, known, rng, iface, removal, faults>>

(* The work is part of struct b43_wldev: one left queued is freed with it.  *)
RestartFreed ==
  /\ restart /\ "restart" \notin reload /\ "wldev" \notin alive /\ Sound
  /\ restart' = FALSE
  /\ Fault("restart", "freed")
  /\ BusStays
  /\ UNCHANGED <<alive, current, fw, kind, ucode, known, rng, iface, up, reload, removal>>

(* b43_op_config after the unlock: it suspends the MAC of whatever device   *)
(* is current by now.                                                       *)
Reload(who) ==
  /\ who \in reload /\ Sound
  /\ reload' = reload \ {who}
  /\ \/ Gone /\ Fault(who, "freed")
     \/ ~Gone /\ current = "NULL" /\ Fault(who, "null")
     \/ ~Gone /\ current = "dev" /\ ~Clocked /\ Fault(who, "unclocked")
     \/ ~Gone /\ current = "dev" /\ Clocked /\ UNCHANGED faults
  /\ BusStays
  /\ UNCHANGED <<alive, current, fw, kind, ucode, known, rng, iface, up, restart, removal>>

(* b43_rng_read: under the mutex, of an initialised device.                 *)
RngRead ==
  /\ rng /\ Sound
  /\ Gone \/ (current = "dev" /\ up /\ ~Clocked)
  /\ Fault("rng", IF Gone THEN "freed" ELSE "unclocked")
  /\ BusStays
  /\ UNCHANGED <<alive, current, fw, kind, ucode, known, rng, iface, up, restart, reload, removal>>

(***************************************************************************)
(* b43_bcma_remove.                                                        *)
(***************************************************************************)
(* Both works are cancelled, which waits for one that runs.                 *)
RemoveBeginNoWait(i) ==
  /\ Unbinds(i) /\ removal = "no" /\ Sound
  /\ "restart" \notin reload
  /\ restart' = FALSE
  /\ removal' = "cancelled"
  /\ BusStays
  /\ UNCHANGED <<alive, current, fw, kind, ucode, known, rng, iface, up, reload, faults>>

RemoveBegin(i) ==
  /\ Unbinds(i) /\ removal = "no" /\ Sound
  /\ "restart" \notin reload /\ fw \in {"idle", "pending"}
  /\ restart' = FALSE /\ fw' = "idle"
  /\ removal' = "cancelled"
  /\ BusStays
  /\ UNCHANGED <<alive, current, kind, ucode, known, rng, iface, up, reload, faults>>

(* Without firmware nothing more is undone, and nothing is freed.           *)
RemoveNothing(i) ==
  /\ i \in bound /\ removal = "cancelled" /\ ~ucode /\ Sound
  /\ removal' = "no"
  /\ DeviceRemove(i)
  /\ UNCHANGED <<alive, current, fw, kind, ucode, known, rng, iface, up, restart, reload, faults>>

NeverUnregister ==
  /\ removal = "cancelled" /\ ucode /\ Sound
  /\ removal' = "skipped"
  /\ BusStays
  /\ UNCHANGED <<alive, current, fw, kind, ucode, known, rng, iface, up, restart, reload, faults>>

RemoveDecide ==
  /\ removal = "cancelled" /\ ucode /\ Sound
  /\ removal' = IF current = "dev" /\ known THEN "unregistering" ELSE "skipped"
  /\ BusStays
  /\ UNCHANGED <<alive, current, fw, kind, ucode, known, rng, iface, up, restart, reload, faults>>

(* ieee80211_unregister_hw closes the interface and drains the work queue.  *)
RemoveUnregister ==
  /\ removal = "unregistering" /\ iface = "closed" /\ ~restart /\ reload = {} /\ Sound
  /\ known' = FALSE
  /\ removal' = "unregistered"
  /\ BusStays
  /\ UNCHANGED <<alive, current, fw, kind, ucode, rng, iface, up, restart, reload, faults>>

(* b43_one_core_detach                                                      *)
RemoveDetach ==
  /\ removal \in {"unregistered", "skipped"} /\ Sound
  /\ alive' = alive \ {"wldev"} /\ ucode' = FALSE
  /\ removal' = "detached"
  /\ BusStays
  /\ UNCHANGED <<current, fw, kind, known, rng, iface, up, restart, reload, faults>>

(* b43_rng_exit and ieee80211_free_hw                                       *)
RemoveFree(i) ==
  /\ i \in bound /\ removal = "detached" /\ Sound
  /\ rng' = FALSE
  /\ alive' = {}
  /\ removal' = "no"
  /\ DeviceRemove(i)
  /\ UNCHANGED <<current, fw, kind, ucode, known, iface, up, restart, reload, faults>>

(***************************************************************************)
(* The system.                                                             *)
(***************************************************************************)
Init ==
  /\ BusInit
  /\ alive = {} /\ current = "NULL" /\ fw = "idle" /\ kind = "proprietary"
  /\ ucode = FALSE /\ known = FALSE /\ rng = FALSE /\ iface = "closed" /\ up = FALSE
  /\ restart = FALSE /\ reload = {} /\ removal = "no" /\ faults = {}

BusSteps == BusNext /\ UNCHANGED attachVars

Attaching == \E i \in toProbe : AttachOk(i) \/ AttachFails(i)

Firmware == FwStart \/ FwAnswer \/ FwTry \/ FwRegister

Running == Open \/ Close \/ RestartAsked \/ RestartRun \/ RestartFreed \/ RngRead
           \/ Reload("start") \/ Reload("restart")

Removing ==
  \/ \E i \in bound : RemoveBegin(i) \/ RemoveNothing(i) \/ RemoveFree(i)
  \/ RemoveDecide \/ RemoveUnregister \/ RemoveDetach

Next == BusSteps \/ Attaching \/ Firmware \/ Running \/ Removing

Spec == Init /\ [][Next]_vars

(* The work queues run, a firmware request is answered, and a removal goes  *)
(* on; mac80211 closes the interface of hardware it is made to let go.      *)
(* cancel_work_sync does not let a work start again while it waits for it,  *)
(* so that a restart asked for over and over cannot keep a removal out; nor *)
(* can a driver loaded over and over, for the device's lock is handed on.   *)
Fairness ==
  /\ WF_vars(Firmware)
  /\ WF_vars(Removing)
  /\ SF_vars(\E i \in bound : RemoveBegin(i))
  /\ WF_vars(RestartRun \/ RestartFreed) /\ WF_vars(Reload("start")) /\ WF_vars(Reload("restart"))
  /\ WF_vars(removal = "unregistering" /\ Close)
  /\ WF_vars(Attaching)
  /\ SF_vars(HostLeaves /\ UNCHANGED attachVars)

FairSpec == Spec /\ Fairness

(***************************************************************************)
(* Once no device is bound, nothing of the driver is left to be called: no *)
(* firmware work, no random number generator, no registered hardware, no   *)
(* queued restart (b43_bcma_remove).  The exception to the last two is a   *)
(* restart that failed: removal then skips ieee80211_unregister_hw (5744), *)
(* and with it what drains a restart asked for after it cancelled the work *)
(* (5738).                                                                 *)
(***************************************************************************)
NoCallbackOutlives ==
  bound = {} =>
    /\ fw = "idle" /\ ~rng /\ removal = "no"
    /\ known => current = "NULL"
    /\ restart => known
    /\ "wl" \notin alive => ~ucode

(***************************************************************************)
(* Who reaches a device that was freed is the random number generator, in  *)
(* the window between b43_one_core_detach and b43_rng_exit, and, after a   *)
(* restart that failed, mac80211 and a restart left queued; who reaches a  *)
(* core without a clock is the configuration a restart reloads after       *)
(* unlocking; and a NULL device is followed by op_start and by that reload *)
(* only.                                                                   *)
(***************************************************************************)
AccessSafe ==
  \A f \in faults :
    /\ f.what = "freed" => f.who = "rng" \/ f.current = "NULL"
    /\ f.what = "unclocked" => f.who = "restart"
    /\ f.what = "null" => f.who \in {"start", "restart"}

(* main.c:5138: the configuration is reloaded only after an initialisation  *)
(* that succeeded, as reloading it after one that failed may hang.          *)
ConfigOnlyWhenUp == \A f \in faults : f.what # "unclocked"

(* The host's removal ends, whatever the firmware work was doing.           *)
RemovalEnds == [](host = "removing" => <>(host = "off" \/ ~Sound))
=============================================================================
