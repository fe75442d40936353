------------------------- MODULE BeaconUpdateProofs -------------------------
(***************************************************************************)
(* Proofs about BeaconUpdate, for any number of beacons.                   *)
(***************************************************************************)
EXTENDS BeaconUpdate, TLAPS

(* The bottom half runs only while no restart is under way: CoreInit masks *)
(* the beacon interrupt, and the trigger shares the restart's workqueue.   *)
Apart ==
  /\ wpc # "idle" => rpc = "idle"
  /\ rpc = "update" => irq = "ignored"

(* The templates it picked are not valid, and it marks one of them.        *)
Chosen ==
  /\ virgin = "yes" => valid = {} /\ wpc = "idle"
  /\ wpc \in {"upload", "write"} => todo \intersect valid = {}
  /\ wpc = "write" => todo # {}

(* Who asks for it has set a beacon, and only a restart takes that away.   *)
Asked ==
  /\ trigger = "queued" \/ irq = "wanted" \/ wpc # "idle" => made > 0
  /\ rpc = "idle" /\ made > 0 => current # NULL \/ "missed" \in spoilt
  /\ wpc = "oops" => "missed" \in spoilt

(* What happens under wl->mutex alone.                                     *)
Stages ==
  /\ rpc = "free" => current # NULL
  /\ rpc = "null" => current \in freed
  /\ rpc = "init" => current = NULL
  /\ wpc = "write" => clone \in {current, NULL}

Pending == IF tpc = "free" THEN {old} ELSE {}

Referred ==
  /\ tpc = "free" => old \notin freed /\ (old # NULL => old # current)
  /\ rpc # "null" => current \notin freed
  /\ 1..made \subseteq freed \union {current} \union Pending

(* What the bottom half will mark has been written or is still to be, or   *)
(* its upload found no memory.                                             *)
Written ==
  /\ ValidIsWritten
  /\ wpc \in {"upload", "write"} => marks \in todo \union skipped \/ template[marks] # NULL

Calm == "raced" \notin spoilt =>
  Stages /\ Referred /\ UploadedIsCurrent /\ ("missed" \in spoilt \/ Written)

Known == TypeOK /\ Apart /\ Chosen /\ Asked

BeaconInv == Known /\ Calm

LEMMA FirstOfTodo ==
  ASSUME todo \subseteq Templates, todo # {}
  PROVE  First \in todo
<1>1. \E i \in todo : \A j \in todo : i <= j
  <2>1. CASE 0 \in todo
    BY <2>1 DEF Templates
  <2>2. CASE todo = {1}
    BY <2>2
  <2> QED
    BY <2>1, <2>2 DEF Templates
<1> QED
  BY <1>1 DEF First

LEMMA Swapped ==
  ASSUME TypeOK, SwapBeacon
  PROVE  /\ made' \in 0..MaxBeacon /\ made < made' /\ made' = made + 1
         /\ current' \in 0..made' /\ current' = made' /\ current' # NULL
         /\ uploaded' = {} /\ trigger' = "queued"
         /\ 0..made \subseteq 0..made' /\ template \in [Templates -> 0..made']
<1> USE MaxBeaconAssumption DEF SwapBeacon, NotUploaded, TypeOK, NULL
<1>1. made' \in 0..MaxBeacon /\ made < made' /\ made' = made + 1
  OBVIOUS
<1>2. 0..made \subseteq 0..made'
  BY <1>1
<1>3. template \in [Templates -> 0..made']
  BY <1>2
<1> QED
  BY <1>1, <1>2, <1>3

LEMMA BeaconInit == Init => BeaconInv
<1> USE MaxBeaconAssumption DEF Init, NULL
<1>1. Init => TypeOK
  BY DEF TypeOK, Templates
<1>2. Init => Apart /\ Chosen /\ Asked
  BY DEF Apart, Chosen, Asked
<1>3. Init => Calm
  BY DEF Calm, Stages, Referred, Pending, UploadedIsCurrent, Written, ValidIsWritten
<1> QED
  BY <1>1, <1>2, <1>3 DEF BeaconInv, Known

LEMMA TypeStep == TypeOK /\ Chosen /\ [Next]_vars => TypeOK'
<1> SUFFICES ASSUME TypeOK, Chosen, [Next]_vars PROVE TypeOK'
  OBVIOUS
<1> USE MaxBeaconAssumption DEF TypeOK, Driver, Device, Worker, Tim, Templates, NULL
<1>1. CASE BssInfoChanged
  <2>1. SwapBeacon /\ Free(current)
    BY <1>1 DEF BssInfoChanged
  <2>2. freed' \subseteq 1..made'
    BY <2>1, Swapped DEF Free
  <2> QED
    BY <1>1, <2>1, <2>2, Swapped DEF BssInfoChanged
<1>2. CASE BeaconSetTim
  <2>1. SwapBeacon /\ freed' \subseteq 1..made'
    BY <1>2, Swapped DEF BeaconSetTim
  <2>2. spoilt' \subseteq {"raced", "missed"}
    BY <1>2 DEF BeaconSetTim
  <2> QED
    BY <1>2, <2>1, <2>2, Swapped DEF BeaconSetTim
<1>3. CASE BeaconSetTimFrees
  BY <1>3 DEF BeaconSetTimFrees, Free
<1>4. CASE TriggerWork
  BY <1>4 DEF TriggerWork, HandleIrqBeacon, PickTemplates
<1>5. CASE BeaconIrq
  BY <1>5 DEF BeaconIrq, HandleIrqBeacon, PickTemplates
<1>6. CASE Upload
  <2>1. clone' \in 0..made'
    BY <1>6 DEF Upload
  <2>2. todo' \subseteq Templates /\ wpc' \in {"idle", "upload", "write", "oops"}
    BY <1>6 DEF Upload
  <2>3. UNCHANGED <<current, made, freed, Driver, Device, marks, Tim, rpc, spoilt>>
    BY <1>6 DEF Upload
  <2> QED
    BY <2>1, <2>2, <2>3
<1>7. CASE WriteTemplate
  <2>1. First \in todo
    BY <1>7, FirstOfTodo DEF Chosen, WriteTemplate
  <2>2. template' \in [Templates -> 0..made'] /\ skipped' \subseteq Templates
    BY <1>7, <2>1 DEF WriteTemplate
  <2>3. uploaded' \subseteq Templates
    BY <1>7, <2>1 DEF WriteTemplate, SetUploaded
  <2> QED
    BY <1>7, <2>2, <2>3 DEF WriteTemplate
<1>8. CASE MarkValid
  BY <1>8 DEF MarkValid, SetValid
<1>9. CASE FirmwareFrees
  BY <1>9 DEF FirmwareFrees
<1>10. CASE CoreExit \/ CoreExitFrees \/ CoreExitClears
  <2>1. CASE CoreExitFrees
    <3>1. freed' \subseteq 1..made'
      BY <2>1 DEF CoreExitFrees, Free
    <3> QED
      BY <2>1, <3>1 DEF CoreExitFrees
  <2>2. CASE CoreExit
    BY <2>2 DEF CoreExit
  <2>3. CASE CoreExitClears
    BY <2>3 DEF CoreExitClears
  <2> QED
    BY <1>10, <2>1, <2>2, <2>3
<1>11. CASE CoreInit
  BY <1>11 DEF CoreInit
<1>12. CASE ResetUpdates
  <2>1. CASE SwapBeacon /\ Free(current) /\ UNCHANGED spoilt
    <3>1. freed' \subseteq 1..made'
      BY <2>1, Swapped DEF Free
    <3> QED
      BY <1>12, <2>1, <3>1, Swapped DEF ResetUpdates
  <2>2. CASE /\ spoilt' = spoilt \union {"missed"}
             /\ UNCHANGED <<current, made, freed, uploaded, trigger>>
    BY <1>12, <2>2 DEF ResetUpdates
  <2> QED
    BY <1>12, <2>1, <2>2 DEF ResetUpdates
<1>13. CASE UNCHANGED vars
  BY <1>13 DEF vars
<1> QED
  BY <1>1, <1>2, <1>3, <1>4, <1>5, <1>6, <1>7, <1>8, <1>9, <1>10, <1>11, <1>12, <1>13
     DEF Next, BottomHalf, Restart

(* Apart, Chosen and Asked need nothing of who raced.                      *)
LEMMA KnownStep == Known /\ [Next]_vars => Apart' /\ Chosen' /\ Asked'
<1> SUFFICES ASSUME Known, [Next]_vars PROVE Apart' /\ Chosen' /\ Asked'
  OBVIOUS
<1> USE DEF Known, Driver, Device, Worker, Tim, MutexFree, Busy
<1>0. made \in Nat
  BY MaxBeaconAssumption DEF TypeOK
<1>1. CASE BssInfoChanged
  <2>1. made' > 0 /\ current' # NULL
    BY <1>0, <1>1, Swapped DEF BssInfoChanged
  <2> QED
    BY <1>1, <2>1 DEF BssInfoChanged, SwapBeacon, NotUploaded, Apart, Chosen, Asked
<1>2. CASE BeaconSetTim
  <2>1. SwapBeacon /\ spoilt \subseteq spoilt'
    BY <1>2 DEF BeaconSetTim
  <2>2. made' > 0 /\ current' # NULL
    BY <1>0, <2>1, Swapped
  <2> QED
    BY <1>2, <2>1, <2>2 DEF BeaconSetTim, Apart, Chosen, Asked
<1>3. CASE BeaconSetTimFrees
  BY <1>3 DEF BeaconSetTimFrees, Apart, Chosen, Asked
<1>4. CASE TriggerWork \/ BeaconIrq
  <2>1. wpc = "idle" /\ rpc = "idle" /\ made > 0 /\ HandleIrqBeacon
    BY <1>4 DEF TriggerWork, BeaconIrq, Apart, Asked
  <2>2. UNCHANGED <<current, made, valid, rpc, spoilt>> /\ valid \subseteq Templates
    BY <1>4 DEF TriggerWork, BeaconIrq, TypeOK
  <2>3. CASE ~Busy /\ PickTemplates /\ virgin' = "no" /\ wpc' = "upload"
    <3>1. todo' \intersect valid' = {}
      BY <2>2, <2>3 DEF PickTemplates, Chosen, Templates
    <3> QED
      BY <2>1, <2>2, <2>3, <3>1 DEF Apart, Chosen, Asked
  <2>4. CASE Busy /\ UNCHANGED <<virgin, wpc, todo, marks>>
    BY <2>1, <2>2, <2>4 DEF Apart, Chosen, Asked
  <2> QED
    BY <2>1, <2>3, <2>4 DEF HandleIrqBeacon
<1>6. CASE Upload
  <2>1. rpc = "idle" /\ made > 0 /\ virgin # "yes"
    BY <1>6 DEF Upload, Apart, Asked, Chosen
  <2>2. UNCHANGED <<current, made, valid, virgin, irq, rpc, spoilt>>
    BY <1>6 DEF Upload
  <2>3. /\ todo' \subseteq todo
        /\ wpc' \in {"upload", "write", "oops"}
        /\ wpc' = "write" => todo' = todo
        /\ wpc' = "oops" => current = NULL
    BY <1>6 DEF Upload
  <2> QED
    BY <1>6, <2>1, <2>2, <2>3 DEF Upload, Apart, Asked, Chosen
<1>7. CASE WriteTemplate
  BY <1>7 DEF WriteTemplate, Apart, Chosen, Asked
<1>8. CASE MarkValid
  BY <1>8 DEF MarkValid, Apart, Chosen, Asked
<1>9. CASE FirmwareFrees
  <2>1. wpc \in {"upload", "write"} => todo = {}
    BY <1>9 DEF FirmwareFrees, Chosen, TypeOK
  <2>2. virgin # "yes"
    BY <1>9 DEF FirmwareFrees, Chosen, Templates
  <2> QED
    BY <1>9, <2>1, <2>2 DEF FirmwareFrees, Apart, Chosen, Asked
<1>10. CASE CoreExit \/ CoreExitFrees \/ CoreExitClears
  BY <1>10 DEF CoreExit, CoreExitFrees, CoreExitClears, Free, Apart, Chosen, Asked
<1>11. CASE CoreInit
  BY <1>11 DEF CoreInit, Apart, Chosen, Asked
<1>12. CASE ResetUpdates
  <2>1. CASE SwapBeacon /\ UNCHANGED spoilt
    <3>1. made' > 0 /\ current' # NULL
      BY <1>0, <2>1, Swapped
    <3> QED
      BY <1>12, <2>1, <3>1 DEF ResetUpdates, Apart, Chosen, Asked
  <2>2. CASE /\ spoilt' = spoilt \union {"missed"}
             /\ UNCHANGED <<current, made, freed, uploaded, trigger>>
    BY <1>12, <2>2 DEF ResetUpdates, Apart, Chosen, Asked
  <2> QED
    BY <1>12, <2>1, <2>2 DEF ResetUpdates
<1>13. CASE UNCHANGED vars
  BY <1>13 DEF vars, Apart, Chosen, Asked
<1> QED
  BY <1>1, <1>2, <1>3, <1>4, <1>6, <1>7, <1>8, <1>9, <1>10, <1>11, <1>12, <1>13
     DEF Next, BottomHalf, Restart

(* Until op_beacon_set_tim overlaps a holder of the mutex, a beacon is     *)
(* replaced only when neither the bottom half nor a restart has hold of it. *)
LEMMA CalmStep == Known /\ Calm /\ [Next]_vars => Calm'
<1> SUFFICES ASSUME Known, Calm, [Next]_vars, "raced" \notin spoilt'
             PROVE  /\ Stages' /\ Referred' /\ UploadedIsCurrent'
                    /\ "missed" \in spoilt' \/ Written'
  BY DEF Calm
<1> USE DEF Known, Driver, Device, Worker, Tim, MutexFree
<1>0. spoilt \subseteq spoilt'
  BY DEF Next, BssInfoChanged, BeaconSetTim, BeaconSetTimFrees, TriggerWork, BeaconIrq,
         BottomHalf, Upload, WriteTemplate, MarkValid, FirmwareFrees, Restart, CoreExit,
         CoreExitFrees, CoreExitClears, CoreInit, ResetUpdates, vars
<1>a. /\ Stages /\ Referred /\ UploadedIsCurrent
      /\ "missed" \in spoilt \/ Written
  BY <1>0 DEF Calm
<1>b. made \in Nat /\ freed \subseteq 1..made /\ current \in 0..made
  BY MaxBeaconAssumption DEF TypeOK
<1>c. \* a beacon that replaces the current one is none of those referred to
      ASSUME SwapBeacon, tpc' # tpc => old' = current /\ tpc' = "free" /\ tpc = "idle" /\ freed' = freed,
             tpc' = tpc => UNCHANGED old /\ Free(current), rpc # "null"
      PROVE  Referred' /\ UploadedIsCurrent'
  <2>1. /\ made' = made + 1 /\ current' = made' /\ current' # NULL /\ uploaded' = {}
    BY <1>c, Swapped
  <2>2. UploadedIsCurrent'
    BY <2>1 DEF UploadedIsCurrent
  <2>3. current' \notin freed'
    BY <1>b, <1>c, <2>1 DEF Free
  <2>4. tpc' = "free" => old' \notin freed' /\ (old' # NULL => old' # current')
    BY <1>a, <1>b, <1>c, <2>1 DEF Free, Referred, TypeOK, NULL
  <2>5. 1..made' = (1..made) \union {current'}
    BY <1>b, <2>1
  <2>6. 1..made' \subseteq freed' \union {current'} \union Pending'
    <3>1. CASE tpc' = tpc
      BY <1>a, <1>b, <1>c, <2>5, <3>1 DEF Free, Referred, Pending, NULL
    <3>2. CASE tpc' # tpc
      BY <1>a, <1>b, <1>c, <2>5, <3>2 DEF Referred, Pending
    <3> QED
      BY <3>1, <3>2
  <2> QED
    BY <2>2, <2>3, <2>4, <2>6 DEF Referred
<1>d. ASSUME UNCHANGED <<current, made, freed, Tim>>, rpc' # "null", rpc # "null"
      PROVE  Referred'
  BY <1>a, <1>d DEF Referred, Pending
<1>1. CASE BssInfoChanged
  <2>1. Referred' /\ UploadedIsCurrent'
    BY <1>1, <1>c DEF BssInfoChanged
  <2> QED
    BY <1>1, <1>a, <2>1 DEF BssInfoChanged, Stages, Written, ValidIsWritten
<1>2. CASE BeaconSetTim
  <2>1. wpc = "idle" /\ rpc \in {"idle", "update"} /\ UNCHANGED spoilt
    BY <1>2 DEF BeaconSetTim
  <2>2. Referred' /\ UploadedIsCurrent'
    BY <1>2, <2>1, <1>c DEF BeaconSetTim
  <2> QED
    BY <1>2, <1>a, <2>1, <2>2 DEF BeaconSetTim, Stages, Written, ValidIsWritten
<1>3. CASE BeaconSetTimFrees
  <2>1. Referred'
    BY <1>3, <1>a, <1>b DEF BeaconSetTimFrees, Referred, Pending, Free, Stages, TypeOK, NULL
  <2>2. Stages'
    BY <1>3, <1>a DEF BeaconSetTimFrees, Stages, Free
  <2> QED
    BY <1>3, <1>a, <2>1, <2>2 DEF BeaconSetTimFrees, UploadedIsCurrent, Written, ValidIsWritten
<1>4. CASE TriggerWork \/ BeaconIrq
  <2>1. wpc = "idle" /\ HandleIrqBeacon /\ UNCHANGED <<current, made, freed, uploaded, Device, clone, Tim, rpc, spoilt>>
    BY <1>4 DEF TriggerWork, BeaconIrq
  <2>2. wpc' \in {"idle", "upload"} /\ (wpc' = "upload" => marks' \in todo')
    BY <2>1 DEF HandleIrqBeacon, PickTemplates, Templates
  <2> QED
    BY <1>a, <2>1, <2>2 DEF Stages, Referred, Pending, UploadedIsCurrent, Written, ValidIsWritten
<1>6. CASE Upload
  <2>1. UNCHANGED <<current, made, freed, Driver, Device, marks, Tim, rpc, spoilt>> /\ wpc = "upload"
    BY <1>6 DEF Upload
  <2>2. Stages' /\ Referred' /\ UploadedIsCurrent'
    BY <1>6, <1>a, <2>1 DEF Upload, Stages, Referred, Pending, UploadedIsCurrent
  <2>3. ASSUME "missed" \notin spoilt, First \in uploaded, todo' = todo \ {First}
        PROVE  Written'
    <3>1. current # NULL
      BY <1>6, <2>1, <2>3 DEF Asked, Apart
    <3>2. First \in skipped \/ template[First] # NULL
      BY <1>a, <2>3, <3>1 DEF UploadedIsCurrent
    <3> QED
      BY <1>a, <2>1, <2>3, <3>2 DEF Written, ValidIsWritten
  <2>4. ASSUME "missed" \notin spoilt, todo' = todo  PROVE Written'
    BY <1>a, <2>1, <2>4 DEF Written, ValidIsWritten
  <2> QED
    BY <1>6, <2>1, <2>2, <2>3, <2>4 DEF Upload
<1>7. CASE WriteTemplate
  <2>1. UNCHANGED <<current, made, freed, valid, clone, marks, Tim, rpc, spoilt>> /\ wpc' = "upload"
    BY <1>7 DEF WriteTemplate
  <2>2. First \in todo /\ First \in Templates /\ uploaded' = uploaded \union {First} /\ todo' = todo \ {First}
    BY <1>7, FirstOfTodo DEF WriteTemplate, SetUploaded, Chosen, TypeOK
  <2>3. CASE clone = NULL
    <3>1. skipped' = skipped \union {First} /\ UNCHANGED template
      BY <1>7, <2>3 DEF WriteTemplate
    <3>2. UploadedIsCurrent' /\ ("missed" \in spoilt \/ Written')
      BY <1>7, <1>a, <2>1, <2>2, <3>1 DEF UploadedIsCurrent, Written, ValidIsWritten, WriteTemplate
    <3> QED
      BY <1>a, <2>1, <3>2 DEF Stages, Referred, Pending
  <2>4. CASE clone # NULL
    <3>1. /\ skipped' = skipped \ {First} /\ clone = current
          /\ template' = [template EXCEPT ![First] = clone] /\ template \in [Templates -> 0..made]
      BY <1>7, <1>a, <2>4 DEF WriteTemplate, Stages, TypeOK
    <3>2. \A i \in Templates : template'[i] = IF i = First THEN clone ELSE template[i]
      BY <3>1
    <3>3. UploadedIsCurrent'
      BY <1>a, <2>1, <2>2, <3>1, <3>2 DEF UploadedIsCurrent, TypeOK
    <3>4. "missed" \in spoilt \/ Written'
      BY <1>7, <1>a, <2>1, <2>2, <2>4, <3>1, <3>2 DEF Written, ValidIsWritten, TypeOK, WriteTemplate
    <3> QED
      BY <1>a, <2>1, <3>3, <3>4 DEF Stages, Referred, Pending
  <2> QED
    BY <2>3, <2>4
<1>8. CASE MarkValid
  <2>1. "missed" \in spoilt \/ Written'
    BY <1>8, <1>a DEF MarkValid, SetValid, Written, ValidIsWritten
  <2> QED
    BY <1>8, <1>a, <2>1 DEF MarkValid, Stages, Referred, Pending, UploadedIsCurrent
<1>9. CASE FirmwareFrees
  <2>1. "missed" \in spoilt \/ Written'
    BY <1>9, <1>a DEF FirmwareFrees, Busy, Written, ValidIsWritten, TypeOK
  <2> QED
    BY <1>9, <1>a, <2>1 DEF FirmwareFrees, Stages, Referred, Pending, UploadedIsCurrent
<1>10. CASE CoreExit
  BY <1>10, <1>a DEF CoreExit, Stages, Referred, Pending, UploadedIsCurrent, Written, ValidIsWritten
<1>11. CASE CoreExitFrees
  <2>1. Referred' /\ Stages'
    BY <1>11, <1>a, <1>b DEF CoreExitFrees, Free, Referred, Pending, Stages, TypeOK, NULL
  <2> QED
    BY <1>11, <1>a, <2>1 DEF CoreExitFrees, UploadedIsCurrent, Written, ValidIsWritten
<1>12. CASE CoreExitClears
  <2>1. Referred'
    BY <1>12, <1>a, <1>b DEF CoreExitClears, Referred, Pending, Stages, TypeOK, NULL
  <2>2. wpc = "idle"
    BY <1>12 DEF CoreExitClears, Apart
  <2> QED
    BY <1>12, <1>a, <2>1, <2>2 DEF CoreExitClears, Stages, UploadedIsCurrent, Written, ValidIsWritten
<1>13. CASE CoreInit
  <2>1. wpc = "idle" /\ current = NULL
    BY <1>13, <1>a DEF CoreInit, Apart, Stages
  <2> QED
    BY <1>13, <1>a, <2>1 DEF CoreInit, Stages, Referred, Pending, UploadedIsCurrent, Written, ValidIsWritten
<1>14. CASE ResetUpdates
  <2>1. CASE SwapBeacon /\ Free(current) /\ UNCHANGED spoilt
    <3>1. Referred' /\ UploadedIsCurrent'
      BY <1>14, <2>1, <1>c DEF ResetUpdates
    <3> QED
      BY <1>14, <1>a, <2>1, <3>1 DEF ResetUpdates, Stages, Written, ValidIsWritten
  <2>2. CASE /\ spoilt' = spoilt \union {"missed"}
             /\ UNCHANGED <<current, made, freed, uploaded, trigger>>
    BY <1>14, <1>a, <2>2 DEF ResetUpdates, Stages, Referred, Pending, UploadedIsCurrent
  <2> QED
    BY <1>14, <2>1, <2>2 DEF ResetUpdates
<1>15. CASE UNCHANGED vars
  BY <1>15, <1>a DEF vars, Stages, Referred, Pending, UploadedIsCurrent, Written, ValidIsWritten
<1> QED
  BY <1>1, <1>2, <1>3, <1>4, <1>6, <1>7, <1>8, <1>9, <1>10, <1>11, <1>12, <1>13, <1>14, <1>15
     DEF Next, BottomHalf, Restart

THEOREM InvariantHolds == Spec => []BeaconInv
<1>1. BeaconInv /\ [Next]_vars => BeaconInv'
  BY TypeStep, KnownStep, CalmStep DEF BeaconInv, Known
<1> QED
  BY BeaconInit, <1>1, PTL DEF Spec

(* Every beacon, template and step of the three stays in its range.        *)
THEOREM TypeCorrect == Spec => []TypeOK
<1>1. BeaconInv => TypeOK
  BY DEF BeaconInv, Known
<1> QED
  BY InvariantHolds, <1>1, PTL

(* b43_write_beacon_template never writes a template that is marked valid. *)
THEOREM WritesUnused == Spec => []NeverWriteValid
<1>1. BeaconInv => NeverWriteValid
  BY FirstOfTodo DEF BeaconInv, Known, TypeOK, Chosen, NeverWriteValid
<1> QED
  BY InvariantHolds, <1>1, PTL

(* b43_write_beacon_template finds wl->current_beacon set, unless a        *)
(* restart got no beacon from mac80211.                                    *)
THEOREM BeaconThere == Spec => []NoNullBeacon
<1>1. BeaconInv => NoNullBeacon
  BY DEF BeaconInv, Known, Asked, NoNullBeacon
<1> QED
  BY InvariantHolds, <1>1, PTL

(* Were b43_update_templates always called with wl->mutex held, beacons    *)
(* would be freed once, and templates hold what their flags say, but for   *)
(* those whose upload found no memory.                                     *)
THEOREM LockedUpdates == Spec => []LockedUpdatesAreSound
<1>1. Calm => LockedUpdatesAreSound
  <2> SUFFICES ASSUME Stages, Referred, UploadedIsCurrent, "missed" \in spoilt \/ Written
               PROVE  UploadedIsCurrent /\ FreedOnce /\ ("missed" \in spoilt \/ ValidIsWritten)
    BY DEF Calm, LockedUpdatesAreSound
  <2>1. FreedOnce
    BY DEF Referred, Pending, FreedOnce
  <2> QED
    BY <2>1 DEF Written
<1>2. BeaconInv => LockedUpdatesAreSound
  BY <1>1 DEF BeaconInv
<1> QED
  BY InvariantHolds, <1>2, PTL
=============================================================================
