---------------------------- MODULE BeaconUpdate ----------------------------
(***************************************************************************)
(* The asynchronous beacon update of b43/main.c.  b43_update_templates     *)
(* swaps wl->current_beacon under wl->beacon_lock and asks for the bottom  *)
(* half, handle_irq_beacon, which the trigger work or the beacon interrupt *)
(* runs under wl->mutex: it copies the beacon into one of two templates    *)
(* the firmware is not using and marks it valid.                           *)
(*                                                                         *)
(* b43_op_bss_info_changed updates under wl->mutex; b43_op_beacon_set_tim  *)
(* does not take it.  A controller restart frees the beacon, resets the    *)
(* device and ends with an update of its own.                              *)
(*                                                                         *)
(* A definition directly above another and named for what it gets wrong is *)
(* a seeded fault, as in CoreLifecycle.                                    *)
(***************************************************************************)
EXTENDS Naturals

CONSTANT MaxBeacon   (* bound: beacons mac80211 hands out *)

ASSUME MaxBeaconAssumption == MaxBeacon \in Nat

NULL == 0
Beacons == 1..MaxBeacon
Templates == {0, 1}

VARIABLES
  current,    (* wl->current_beacon                                          *)
  made,       (* beacons handed out so far                                   *)
  freed,      (* beacons given to dev_kfree_skb_any                          *)
  uploaded,   (* the templates whose beaconN_uploaded is set                 *)
  virgin,     (* wl->beacon_templates_virgin: "yes" or "no"                  *)
  trigger,    (* wl->beacon_update_trigger: "queued" or "none"               *)
  irq,        (* B43_IRQ_BEACON in dev->irq_mask: "wanted" or "ignored"      *)
  template,   (* the beacon in each template of the device's RAM             *)
  valid,      (* the templates marked valid in B43_MMIO_MACCMD               *)
  wpc,        (* the bottom half: "idle", "upload", "write", "mark", "oops"  *)
  todo,       (* the templates it has still to upload                        *)
  clone,      (* its copy of the beacon                                      *)
  marks,      (* the template it marks valid at the end                      *)
  tpc,        (* op_beacon_set_tim: "idle" or "free"                         *)
  old,        (* its old_beacon                                              *)
  rpc,        (* the restart: "idle", "free", "null", "init", "update"       *)
  skipped,    (* history: the templates whose last upload wrote nothing      *)
  spoilt      (* history: "raced" once op_beacon_set_tim has overlapped a    *)
              (* section of wl->mutex that uses the beacon, "missed" once a  *)
              (* restart's own update got no beacon                          *)

vars == <<current, made, freed, uploaded, virgin, trigger, irq, template, valid,
          wpc, todo, clone, marks, tpc, old, rpc, skipped, spoilt>>

Driver == <<uploaded, virgin, trigger, irq>>
Device == <<template, valid, skipped>>
Worker == <<wpc, todo, clone, marks>>
Tim == <<tpc, old>>

MutexFree == wpc = "idle" /\ rpc \in {"idle", "update"}

(***************************************************************************)
(* b43_update_templates().                                                 *)
(***************************************************************************)
NotUploaded == uploaded' = {}

(* A new beacon replaces the current one; both templates need it.          *)
SwapBeacon ==
  /\ made < MaxBeacon
  /\ made' = made + 1
  /\ current' = made + 1
  /\ NotUploaded
  /\ trigger' = "queued"

Free(b) == freed' = IF b = NULL THEN freed ELSE freed \union {b}

(* bound: a restart under way keeps one beacon for its own update. *)
OneLeft == rpc # "idle" => made + 1 < MaxBeacon

(* b43_op_bss_info_changed(), wl->mutex held throughout. *)
BssInfoChanged ==
  /\ MutexFree /\ OneLeft
  /\ SwapBeacon
  /\ Free(current)
  /\ UNCHANGED <<virgin, irq, Device, Worker, Tim, rpc, spoilt>>

(* b43_op_beacon_set_tim(): swaps, and frees the old beacon unlocked.      *)
BeaconSetTim ==
  /\ tpc = "idle" /\ OneLeft
  /\ SwapBeacon
  /\ old' = current
  /\ tpc' = "free"
  /\ spoilt' = IF MutexFree THEN spoilt ELSE spoilt \union {"raced"}
  /\ UNCHANGED <<freed, virgin, irq, Device, Worker, rpc>>

BeaconSetTimFrees ==
  /\ tpc = "free"
  /\ Free(old)
  /\ tpc' = "idle"
  /\ UNCHANGED <<current, made, Driver, Device, Worker, old, rpc, spoilt>>

(***************************************************************************)
(* handle_irq_beacon(), run by the trigger work or the interrupt thread.   *)
(***************************************************************************)
Busy == valid = Templates

PicksUsed ==
  /\ todo' = IF virgin = "yes" THEN Templates ELSE IF 0 \in valid THEN {0} ELSE {1}
  /\ marks' = IF virgin = "yes" \/ 0 \notin valid THEN 0 ELSE 1

(* Both templates the first time, then the one the firmware leaves alone. *)
PickTemplates ==
  /\ todo' = IF virgin = "yes" THEN Templates ELSE IF 0 \notin valid THEN {0} ELSE {1}
  /\ marks' = IF virgin = "yes" \/ 0 \notin valid THEN 0 ELSE 1

HandleIrqBeacon ==
  \/ /\ Busy
     /\ irq' = "wanted"
     /\ UNCHANGED <<virgin, wpc, todo, marks>>
  \/ /\ ~Busy
     /\ irq' = "ignored"
     /\ PickTemplates
     /\ virgin' = "no"
     /\ wpc' = "upload"

(* b43_beacon_update_trigger_work(), on the workqueue the restart is on.   *)
TriggerWork ==
  /\ trigger = "queued" /\ MutexFree /\ rpc = "idle"
  /\ trigger' = "none"
  /\ HandleIrqBeacon
  /\ UNCHANGED <<current, made, freed, uploaded, Device, clone, Tim, rpc, spoilt>>

(* The beacon interrupt: the bottom half again, until it is no more wanted. *)
BeaconIrq ==
  /\ irq = "wanted" /\ MutexFree
  /\ HandleIrqBeacon
  /\ UNCHANGED <<current, made, freed, uploaded, trigger, Device, clone, Tim, rpc, spoilt>>

First == CHOOSE i \in todo : \A j \in todo : i <= j

(* b43_upload_beaconN() and the clone under wl->beacon_lock, for which     *)
(* GFP_ATOMIC may find no memory.                                          *)
Upload ==
  /\ wpc = "upload" /\ todo # {}
  /\ \/ /\ First \in uploaded
        /\ todo' = todo \ {First}
        /\ UNCHANGED <<wpc, clone>>
     \/ /\ First \notin uploaded /\ current = NULL
        /\ wpc' = "oops"
        /\ UNCHANGED <<todo, clone>>
     \/ /\ First \notin uploaded /\ current # NULL
        /\ clone' \in {current, NULL}
        /\ wpc' = "write"
        /\ UNCHANGED todo
  /\ UNCHANGED <<current, made, freed, Driver, Device, marks, Tim, rpc, spoilt>>

SetUploaded == uploaded' = uploaded \union {First}

(* Without a copy nothing is written, and the template counts as uploaded. *)
WriteTemplate ==
  /\ wpc = "write"
  /\ IF clone = NULL
     THEN skipped' = skipped \union {First} /\ UNCHANGED template
     ELSE skipped' = skipped \ {First} /\ template' = [template EXCEPT ![First] = clone]
  /\ SetUploaded
  /\ todo' = todo \ {First}
  /\ wpc' = "upload"
  /\ UNCHANGED <<current, made, freed, virgin, trigger, irq, valid, clone, marks, Tim, rpc, spoilt>>

MarkForgotten == UNCHANGED valid
SetValid == valid' = valid \union {marks}

MarkValid ==
  /\ wpc = "upload" /\ todo = {}
  /\ SetValid
  /\ wpc' = "idle"
  /\ UNCHANGED <<current, made, freed, Driver, template, skipped, todo, clone, marks, Tim, rpc, spoilt>>

(* With both valid the firmware goes over to the template marked last and  *)
(* gives the other back; a single one it keeps sending.                    *)
FirmwareFrees ==
  /\ Busy
  /\ valid' = {marks}
  /\ UNCHANGED <<current, made, freed, Driver, template, skipped, Worker, Tim, rpc, spoilt>>

(***************************************************************************)
(* b43_chip_reset(): core_exit frees the beacon, the core is initialised   *)
(* and started, and the update follows with the mutex taken anew.          *)
(***************************************************************************)
CoreExit ==
  /\ MutexFree /\ rpc = "idle" /\ made < MaxBeacon
  /\ rpc' = IF current = NULL THEN "init" ELSE "free"
  /\ UNCHANGED <<current, made, freed, Driver, Device, Worker, Tim, spoilt>>

CoreExitFrees ==
  /\ rpc = "free"
  /\ Free(current)
  /\ rpc' = "null"
  /\ UNCHANGED <<current, made, Driver, Device, Worker, Tim, spoilt>>

CoreExitKeeps ==
  /\ rpc = "null"
  /\ rpc' = "init"
  /\ UNCHANGED <<current, made, freed, Driver, Device, Worker, Tim, spoilt>>

CoreExitClears ==
  /\ rpc = "null"
  /\ current' = NULL
  /\ rpc' = "init"
  /\ UNCHANGED <<made, freed, Driver, Device, Worker, Tim, spoilt>>

CoreInit ==
  /\ rpc = "init"
  /\ template' = [i \in Templates |-> NULL] /\ valid' = {}
  /\ irq' = "ignored"
  /\ rpc' = "update"
  /\ UNCHANGED <<current, made, freed, uploaded, virgin, trigger, skipped, Worker, Tim, spoilt>>

UpdateForgotten ==
  /\ rpc = "update" /\ MutexFree
  /\ rpc' = "idle"
  /\ UNCHANGED <<current, made, freed, Driver, Device, Worker, Tim, spoilt>>

ResetUpdates ==
  /\ rpc = "update" /\ MutexFree
  /\ \/ SwapBeacon /\ Free(current) /\ UNCHANGED spoilt
     \/ /\ spoilt' = spoilt \union {"missed"}
        /\ UNCHANGED <<current, made, freed, uploaded, trigger>>
  /\ rpc' = "idle"
  /\ UNCHANGED <<virgin, irq, Device, Worker, Tim>>

(***************************************************************************)
(* Specification.                                                          *)
(***************************************************************************)
Init ==
  /\ current = NULL /\ made = 0 /\ freed = {}
  /\ uploaded = {} /\ virgin = "yes" /\ trigger = "none" /\ irq = "ignored"
  /\ template = [i \in Templates |-> NULL] /\ valid = {}
  /\ wpc = "idle" /\ todo = {} /\ clone = NULL /\ marks = 0
  /\ tpc = "idle" /\ old = NULL /\ rpc = "idle"
  /\ skipped = {} /\ spoilt = {}

BottomHalf == Upload \/ WriteTemplate \/ MarkValid

Restart == CoreExit \/ CoreExitFrees \/ CoreExitClears \/ CoreInit \/ ResetUpdates

Next ==
  \/ BssInfoChanged \/ BeaconSetTim \/ BeaconSetTimFrees
  \/ TriggerWork \/ BeaconIrq \/ BottomHalf
  \/ FirmwareFrees
  \/ Restart

Spec == Init /\ [][Next]_vars

(* The workqueue runs the trigger, the bottom half and a restart that has  *)
(* begun go on, and the firmware gives templates back and interrupts while *)
(* the beacon interrupt is wanted.                                         *)
Fairness ==
  /\ SF_vars(TriggerWork) /\ SF_vars(BeaconIrq) /\ WF_vars(BottomHalf)
  /\ WF_vars(FirmwareFrees)
  /\ WF_vars(CoreExitFrees \/ CoreExitClears \/ CoreInit \/ ResetUpdates)

FairSpec == Spec /\ Fairness

(***************************************************************************)
(* Properties.                                                             *)
(***************************************************************************)

(* Beacons are numbered in the order mac80211 hands them out. *)
TypeOK ==
  /\ made \in 0..MaxBeacon /\ current \in 0..made /\ freed \subseteq 1..made
  /\ uploaded \subseteq Templates /\ valid \subseteq Templates
  /\ virgin \in {"yes", "no"} /\ trigger \in {"queued", "none"}
  /\ irq \in {"wanted", "ignored"}
  /\ template \in [Templates -> 0..made]
  /\ wpc \in {"idle", "upload", "write", "oops"}
  /\ todo \subseteq Templates /\ clone \in 0..made /\ marks \in Templates
  /\ tpc \in {"idle", "free"} /\ old \in 0..made
  /\ rpc \in {"idle", "free", "null", "init", "update"}
  /\ skipped \subseteq Templates /\ spoilt \subseteq {"raced", "missed"}

(* The firmware never sends a beacon that is being written: "Beacon update *)
(* must be asynchronous to avoid sending an invalid beacon."               *)
NeverWriteValid == wpc = "write" => First \notin valid

(* A template whose flag says uploaded holds the newest beacon, unless its *)
(* upload found no memory.                                                 *)
UploadedIsCurrent == current # NULL => \A i \in uploaded \ skipped : template[i] = current

(* What is marked valid has been written, with the same exception.         *)
ValidIsWritten == \A i \in valid \ skipped : template[i] # NULL

(* Every beacon handed out is freed exactly once: what is still referred   *)
(* to has not been freed, and what is no more referred to has.             *)
FreedOnce ==
  /\ tpc = "free" => old \notin freed
  /\ rpc # "null" => current \notin freed
  /\ rpc = "idle" => 1..made \subseteq freed \union {current} \union (IF tpc = "free" THEN {old} ELSE {})

(* "Every operation must run with this mutex locked": until                *)
(* op_beacon_set_tim first overlaps a holder of the mutex, all three hold, *)
(* but for the uploads that found no memory and that a restart whose       *)
(* update got no beacon leaves the flags of a RAM that was lost, by which  *)
(* a trigger from before marks what nobody wrote.                          *)
LockedUpdatesAreSound ==
  "raced" \notin spoilt =>
    UploadedIsCurrent /\ FreedOnce /\ ("missed" \in spoilt \/ ValidIsWritten)

(* The bottom half finds current_beacon NULL only by a trigger left over   *)
(* from before a restart whose own update got no beacon.                   *)
NoNullBeacon == wpc = "oops" => "missed" \in spoilt

(* The newest beacon reaches a template the firmware sends from, unless a  *)
(* restart takes it, or the template to be marked counts as uploaded with  *)
(* it though the upload found no memory, which nothing tries again.        *)
OnAir == \E i \in valid : template[i] = current
NotWritten == marks \in uploaded \intersect skipped
BeaconReachesAir ==
  (current # NULL) ~> (OnAir \/ current = NULL \/ wpc = "oops" \/ "raced" \in spoilt \/ NotWritten)
============================================================================
