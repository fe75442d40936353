----------------------------- MODULE PathProofs ----------------------------
(***************************************************************************)
(* Theorems about the two paths of b43/main.c that a running core serves   *)
(* besides mac80211's calls: its interrupts and its transmissions.  Each   *)
(* theorem is about one of them alone.                                     *)
(***************************************************************************)
EXTENDS IrqPath, TxQueue, TLAPS

(***************************************************************************)
(* The interrupt path, for every set of reasons and every error limit.     *)
(* SilentStop holds on any line; the others assume the line is the         *)
(* device's own (~SharedLine), which the IRQF_SHARED of core_start does    *)
(* not guarantee.                                                          *)
(***************************************************************************)
LEMMA BudgetStep ==
  ASSUME txerr \in 1..Limit, CountTxError
  PROVE  txerr' \in 1..Limit
BY LimitAssumption DEF CountTxError

(***************************************************************************)
(* Whatever the line: core_stop silences the device.                       *)
(***************************************************************************)
StopInv ==
  /\ TypeOK /\ StoppedIsSilent
  /\ status = STARTED <=> cpc \in {"unmask", "run"}
  /\ tpc = "serve" => status = STARTED

LEMMA StopInit == Init => StopInv
BY LimitAssumption
   DEF Init, StopInv, TypeOK, StoppedIsSilent, Pending, Template,
       UNINIT, INITIALIZED, STARTED

LEMMA StopStep == StopInv /\ [Next]_vars => StopInv'
<1> SUFFICES ASSUME StopInv, [Next]_vars PROVE StopInv'
  OBVIOUS
<1> USE DEF StopInv, TypeOK, StoppedIsSilent, Pending, MutexFree, Registers,
            UNINIT, INITIALIZED, STARTED
<1>1. ASSUME NEW e \in Events, Raise(e) PROVE StopInv'
  BY <1>1 DEF Raise
<1>2. CASE InterruptHandler
  BY <1>2 DEF InterruptHandler
<1>3. CASE DoInterrupt
  BY <1>3 DEF DoInterrupt, MaskDevice
<1>4. CASE Thread
  <2>1. CASE ThreadWakes
    BY <2>1 DEF ThreadWakes
  <2>2. CASE ThreadTakes
    BY <2>2 DEF ThreadTakes
  <2>3. CASE ThreadServes
    <3>1. txerr' \in 1..Limit
      BY <2>3, BudgetStep DEF ThreadServes
    <3>2. raw' \subseteq Events /\ irqMask' \subseteq Events /\ hwmask' \subseteq Events
      BY <2>3 DEF ThreadServes, Serve, HandleBeacon
    <3>3. restart' \in {"queued", "none"}
      BY <2>3 DEF ThreadServes
    <3> QED BY <2>3, <3>1, <3>2, <3>3 DEF ThreadServes
  <2> QED BY <1>4, <2>1, <2>2, <2>3 DEF Thread
<1>5. CASE BeaconTriggerWork
  <2>1. raw' \subseteq Events /\ irqMask' \subseteq Events /\ hwmask' \subseteq Events
    BY <1>5 DEF BeaconTriggerWork, HandleBeacon
  <2>2. hwmask = {} => hwmask' = {}
    BY <1>5 DEF BeaconTriggerWork
  <2> QED BY <1>5, <2>1, <2>2 DEF BeaconTriggerWork
<1>6. CASE PeriodicEvery15sec
  BY <1>6, LimitAssumption DEF PeriodicEvery15sec
<1>7. CASE CoreStart
  BY <1>7, LimitAssumption DEF CoreStart, Template
<1>8. CASE CoreStartUnmasks
  BY <1>8 DEF CoreStartUnmasks
<1>9. CASE CoreStop
  BY <1>9 DEF CoreStop
<1>10. CASE FreeIrq
  BY <1>10 DEF FreeIrq
<1>11. CASE CoreExit
  BY <1>11 DEF CoreExit
<1>12. CASE UNCHANGED vars
  BY <1>12 DEF vars
<1> QED BY <1>1, <1>2, <1>3, <1>4, <1>5, <1>6, <1>7, <1>8, <1>9, <1>10, <1>11, <1>12
        DEF Next

(* Types are kept, and the PHY TX error budget never runs to zero.         *)
THEOREM TypeCorrect == Spec => []TypeOK
<1>1. StopInv => TypeOK
  BY DEF StopInv
<1> QED BY StopInit, StopStep, <1>1, PTL DEF Spec

(* core_stop: the device stays masked from the status change on, and no    *)
(* handler runs or waits after free_irq(), on a shared line too.           *)
THEOREM SilentStop == Spec => []StoppedIsSilent
<1>1. StopInv => StoppedIsSilent
  BY DEF StopInv
<1> QED BY StopInit, StopStep, <1>1, PTL DEF Spec

(***************************************************************************)
(* A line of the device's own.                                             *)
(***************************************************************************)
LEMMA IrqInit == Init => IrqInv
BY LimitAssumption
   DEF Init, IrqInv, TypeOK, StoppedIsSilent, MaskInSync, MaskedWhilePending,
       Pending, Template, UNINIT, INITIALIZED, STARTED

LEMMA IrqStep ==
  ASSUME ~SharedLine, IrqInv, [Next]_vars
  PROVE  IrqInv'
<1>0. StopInv'
  BY StopStep DEF IrqInv, StopInv
<1>a. TypeOK' /\ StoppedIsSilent' /\ (status = STARTED <=> cpc \in {"unmask", "run"})'
       /\ (tpc = "serve" => status = STARTED)'
  BY <1>0 DEF StopInv
<1> USE DEF IrqInv, MaskInSync, MaskedWhilePending, StoppedIsSilent, Pending, MutexFree,
            Registers, UNINIT, INITIALIZED, STARTED
<1>1. ASSUME NEW e \in Events, Raise(e) PROVE IrqInv'
  BY <1>1, <1>a DEF Raise
<1>2. CASE InterruptHandler
  <2>1. raw \intersect hwmask # {}
    BY <1>2 DEF InterruptHandler, LineAsserted
  <2> QED BY <1>2, <1>a, <2>1 DEF InterruptHandler
<1>3. CASE DoInterrupt
  BY <1>3, <1>a DEF DoInterrupt, MaskDevice
<1>4. CASE Thread
  <2>1. CASE ThreadWakes
    BY <2>1, <1>a DEF ThreadWakes
  <2>2. CASE ThreadTakes
    BY <2>2, <1>a DEF ThreadTakes
  <2>3. CASE ThreadServes
    <3>1. hwmask' = {} \/ hwmask' = irqMask'
      BY <2>3 DEF ThreadServes, Serve
    <3>2. tpc' = "idle" /\ taken' = {} /\ UNCHANGED <<status, woken, hpc, cpc>>
      BY <2>3 DEF ThreadServes
    <3> QED BY <2>3, <1>a, <3>1, <3>2 DEF ThreadServes
  <2> QED BY <1>4, <2>1, <2>2, <2>3 DEF Thread
<1>5. CASE BeaconTriggerWork
  <2>1. hwmask = {} => hwmask' = {}
    BY <1>5 DEF BeaconTriggerWork
  <2>2. hwmask # {} => hwmask' = irqMask'
    BY <1>5 DEF BeaconTriggerWork
  <2> QED BY <1>5, <1>a, <2>1, <2>2 DEF BeaconTriggerWork
<1>6. CASE PeriodicEvery15sec
  BY <1>6, <1>a DEF PeriodicEvery15sec
<1>7. CASE CoreStart
  BY <1>7, <1>a DEF CoreStart
<1>8. CASE CoreStartUnmasks
  BY <1>8, <1>a DEF CoreStartUnmasks
<1>9. CASE CoreStop
  BY <1>9, <1>a DEF CoreStop
<1>10. CASE FreeIrq
  BY <1>10, <1>a DEF FreeIrq
<1>11. CASE CoreExit
  BY <1>11, <1>a DEF CoreExit
<1>12. CASE UNCHANGED vars
  BY <1>12, <1>a DEF vars
<1> QED BY <1>1, <1>2, <1>3, <1>4, <1>5, <1>6, <1>7, <1>8, <1>9, <1>10, <1>11, <1>12
        DEF Next

(* The hard handler, the thread and the other writers of the mask agree on *)
(* who may unmask the device when.                                         *)
THEOREM IrqInvariant == ASSUME ~SharedLine PROVE Spec => []IrqInv
BY IrqInit, IrqStep, PTL DEF Spec

(* Nobody unmasks the device between the hard handler and the end of the   *)
(* thread, in particular not the beacon trigger work.                      *)
THEOREM ThreadUndisturbed == ASSUME ~SharedLine PROVE Spec => []MaskedWhilePending
<1>1. IrqInv => MaskedWhilePending
  BY DEF IrqInv
<1> QED BY IrqInvariant, <1>1, PTL

(* Reasons the thread has not read yet are not overwritten.                *)
THEOREM NotOverwritten == ASSUME ~SharedLine PROVE Spec => ReasonsKept
<1>1. ASSUME IrqInv, [Next]_vars, Pending, tpc # "serve", status = STARTED
      PROVE  saved \subseteq saved'
  <2>1. hpc = "idle" /\ cpc # "down"
    BY <1>1 DEF IrqInv, TypeOK
  <2>2. UNCHANGED saved
    BY <1>1, <2>1
       DEF Next, Thread, vars, Raise, InterruptHandler, DoInterrupt, ThreadWakes,
           ThreadTakes, ThreadServes, BeaconTriggerWork, PeriodicEvery15sec, CoreStart,
           CoreStartUnmasks, CoreStop, FreeIrq, CoreExit
  <2> QED BY <2>2
<1>2. IrqInv /\ [Next]_vars =>
        [Pending /\ tpc # "serve" /\ status = STARTED => saved \subseteq saved']_vars
  BY <1>1
<1> QED BY IrqInvariant, <1>2, PTL DEF Spec, ReasonsKept

(***************************************************************************)
(* The interrupt path implements IrqEvents.                                *)
(***************************************************************************)
LEMMA PromiseInit == Init => Promise!Init
BY DEF Init, Promise!Init, STARTED, UNINIT

LEMMA PromiseStep ==
  ASSUME ~SharedLine, IrqInv, IrqInv', [Next]_vars
  PROVE  [Promise!Next]_(Promise!vars)
<1> USE DEF IrqInv, TypeOK, MaskedWhilePending, StoppedIsSilent, Pending, MutexFree,
            Registers, UNINIT, INITIALIZED, STARTED
<1>1. ASSUME NEW e \in Events, Raise(e) PROVE Promise!Report
  BY <1>1 DEF Raise, Promise!Report
<1>2. CASE InterruptHandler
  BY <1>2 DEF InterruptHandler, Promise!vars
<1>3. CASE DoInterrupt
  BY <1>3 DEF DoInterrupt, MaskDevice, Promise!vars
<1>4. CASE ThreadWakes
  BY <1>4 DEF ThreadWakes, Promise!vars
<1>5. CASE ThreadTakes
  <2>0. tpc = "lock" /\ woken = "no" /\ taken = {} /\ UNCHANGED <<status, raw, saved, woken>>
    BY <1>5 DEF ThreadTakes
  <2>1. CASE status # STARTED
    <3>1. tpc' = "idle" /\ taken' = {}
      BY <1>5, <2>0, <2>1 DEF ThreadTakes
    <3> QED BY <2>0, <2>1, <3>1 DEF Promise!Drop, Promise!Next
  <2>2. CASE status = STARTED
    <3>1. tpc' = "serve" /\ taken' = saved
      BY <1>5, <2>2 DEF ThreadTakes
    <3> QED BY <2>0, <2>2, <3>1 DEF Promise!Begin, Promise!Next
  <2> QED BY <2>1, <2>2
<1>6. CASE ThreadServes
  <2>1. \E S \in SUBSET Events : raw' = raw \union S
    BY <1>6 DEF ThreadServes, Serve, HandleBeacon
  <2>2. taken' = {} /\ tpc' = "idle" /\ UNCHANGED <<status, saved, woken>>
    BY <1>6 DEF ThreadServes
  <2>3. PICK S \in SUBSET Events : raw' = raw \union S
    BY <2>1
  <2>4. woken = "no" /\ tpc = "serve"
    BY <1>6 DEF ThreadServes
  <2> QED BY <2>2, <2>3, <2>4 DEF Promise!End, Promise!Next
<1>7. CASE BeaconTriggerWork
  <2>1. \E S \in SUBSET Events : raw' = raw \union S
    BY <1>7 DEF BeaconTriggerWork, HandleBeacon
  <2>2. UNCHANGED <<status, saved, woken, taken, tpc>>
    BY <1>7 DEF BeaconTriggerWork
  <2>3. PICK S \in SUBSET Events : raw' = raw \union S
    BY <2>1
  <2> QED BY <2>2, <2>3 DEF Promise!Report, Promise!Next
<1>8. CASE PeriodicEvery15sec
  BY <1>8 DEF PeriodicEvery15sec, Promise!vars
<1>9. CASE CoreStart
  BY <1>9 DEF CoreStart, Promise!GoUp, Promise!Next
<1>10. CASE CoreStartUnmasks
  BY <1>10 DEF CoreStartUnmasks, Promise!vars
<1>11. CASE CoreStop
  BY <1>11 DEF CoreStop, Promise!GoDown, Promise!Next
<1>12. CASE FreeIrq
  BY <1>12 DEF FreeIrq, Promise!vars
<1>13. CASE CoreExit
  BY <1>13 DEF CoreExit, Promise!vars
<1>14. CASE UNCHANGED vars
  BY <1>14 DEF vars, Promise!vars
<1> QED BY <1>1, <1>2, <1>3, <1>4, <1>5, <1>6, <1>7, <1>8, <1>9, <1>10, <1>11, <1>12,
           <1>13, <1>14 DEF Next, Thread, Promise!Next

(* A reason the device reports waits for the thread; only a core that is   *)
(* down drops it.                                                          *)
THEOREM Implements == ASSUME ~SharedLine PROVE Spec => EventsKept
<1>1. IrqInv /\ IrqInv' /\ [Next]_vars => [Promise!Next]_(Promise!vars)
  BY PromiseStep
<1> QED BY IrqInvariant, PromiseInit, <1>1, PTL DEF Spec, EventsKept, Promise!Spec

(***************************************************************************)
(* The transmit path, for any number of queues, slots and frames.          *)
(***************************************************************************)

(* The work and the reset share a workqueue: the work is inside a queue    *)
(* only while no reset is under way, and only then is the core up.         *)
Phases ==
  /\ wq # Done => rpc = "idle"
  /\ up = "up" <=> rpc \in {"idle", "stop"}

(* A queue that mac80211 has stopped lacks at most the one slot whose      *)
(* status has cleared the driver's own flag.                               *)
NearlyFull == rpc \in {"idle", "stop", "drain"} => \A q \in macStopped : ring[q] >= Slots - 1

Rescued == rpc \in {"idle", "start"} => \A q \in Queues : txq[q] > 0 => Rescuer(q)

FreshInv == stale = "no" => StoppedMeansFull /\ NearlyFull /\ Rescued

TxInv == TxTypeOK /\ Phases /\ FreshInv

LEMMA TxStarts == TxInit => TxInv
<1> USE LastAssumption, SlotsAssumption, BacklogAssumption
<1>1. TxInit => TxTypeOK
  BY DEF TxInit, TxTypeOK, Queues, Done
<1>2. TxInit => Phases
  BY DEF TxInit, Phases
<1>3. TxInit => FreshInv
  BY DEF TxInit, FreshInv, StoppedMeansFull, NearlyFull, Rescued, Queues
<1> QED
  BY <1>1, <1>2, <1>3 DEF TxInv

LEMMA TypeStep == TxTypeOK /\ [TxNext]_txVars => TxTypeOK'
<1> SUFFICES ASSUME TxTypeOK, [TxNext]_txVars PROVE TxTypeOK'
  OBVIOUS
<1> USE LastAssumption, SlotsAssumption, BacklogAssumption
    DEF TxTypeOK, Queues, Done, Chip, Worker
<1>1. ASSUME NEW q \in Queues, OpTx(q)  PROVE TxTypeOK'
  <2>1. txq' \in [Queues -> 0..Backlog]
    <3>1. txq[q] + 1 \in 0..Backlog
      BY <1>1 DEF OpTx
    <3> QED
      BY <1>1, <3>1 DEF OpTx
  <2>2. txpc' \in [Queues -> {"idle", "queued", "stop", "oops"}]
    BY <1>1 DEF OpTx
  <2> QED
    BY <1>1, <2>1, <2>2 DEF OpTx
<1>2. ASSUME NEW q \in Queues, OpTxTest(q)  PROVE TxTypeOK'
  BY <1>2 DEF OpTxTest
<1>3. ASSUME NEW q \in Queues, OpTxStop(q)  PROVE TxTypeOK'
  BY <1>3 DEF OpTxStop
<1>4. ASSUME NEW q \in Queues, TxStatus(q)  PROVE TxTypeOK'
  <2>1. ring' \in [Queues -> 0..Slots]
    BY <1>4 DEF TxStatus
  <2>2. stopped' \subseteq Queues /\ macStopped' \subseteq Queues /\ work' = "pending"
    BY <1>4 DEF TxStatus, RestartQueue, QueueTxWork
  <2> QED
    BY <1>4, <2>1, <2>2 DEF TxStatus
<1>5. ASSUME TxWork  PROVE TxTypeOK'
  BY <1>5 DEF TxWork
<1>6. ASSUME NEW q \in Queues, SendFrame(q)  PROVE TxTypeOK'
  <2>1. txq' \in [Queues -> 0..Backlog] /\ err' = "ok"
    BY <1>6 DEF SendFrame
  <2>2. ring' \in [Queues -> 0..Slots]
    <3>1. ring[q] \in 0..(Slots - 1)
      BY <1>6 DEF SendFrame, HasRoom
    <3>2. ring' = ring \/ ring' = [ring EXCEPT ![q] = @ + 1]
      BY <1>6 DEF SendFrame
    <3>3. ring[q] + 1 \in 0..Slots
      BY <3>1
    <3>4. CASE ring' = [ring EXCEPT ![q] = @ + 1]
      BY ONLY TxTypeOK, <3>3, <3>4 DEF TxTypeOK
    <3> QED
      BY <3>2, <3>4
  <2>3. stopped' \subseteq Queues /\ macStopped' \subseteq Queues
    BY <1>6 DEF SendFrame, StopQueue
  <2> QED
    BY <1>6, <2>1, <2>2, <2>3 DEF SendFrame
<1>7. ASSUME NEW q \in Queues, RingFull(q)  PROVE TxTypeOK'
  BY <1>7 DEF RingFull, StopQueue, NextQueue
<1>8. ASSUME NEW q \in Queues, QueueDone(q)  PROVE TxTypeOK'
  BY <1>8 DEF QueueDone, ClearUnlessFull, NextQueue
<1>9. ASSUME ResetCancels  PROVE TxTypeOK'
  BY <1>9 DEF ResetCancels
<1>10. ASSUME ResetStops  PROVE TxTypeOK'
  BY <1>10 DEF ResetStops
<1>11. ASSUME ResetDrains  PROVE TxTypeOK'
  BY <1>11 DEF ResetDrains, DrainTxQueues
<1>12. ASSUME ResetStarts  PROVE TxTypeOK'
  BY <1>12 DEF ResetStarts
<1>13. ASSUME UNCHANGED txVars  PROVE TxTypeOK'
  BY <1>13 DEF txVars
<1> QED
  BY <1>1, <1>2, <1>3, <1>4, <1>5, <1>6, <1>7, <1>8, <1>9, <1>10, <1>11, <1>12, <1>13
     DEF TxNext, Working, Resetting

LEMMA PhasesStep == TxTypeOK /\ Phases /\ [TxNext]_txVars => Phases'
<1> SUFFICES ASSUME TxTypeOK, Phases, [TxNext]_txVars PROVE Phases'
  OBVIOUS
<1> USE LastAssumption DEF TxTypeOK, Phases, Queues, Done, Chip, Worker
<1>1. ASSUME NEW q \in Queues, OpTx(q) \/ OpTxTest(q) \/ OpTxStop(q) \/ TxStatus(q)
      PROVE Phases'
  BY <1>1 DEF OpTx, OpTxTest, OpTxStop, TxStatus
<1>2. ASSUME TxWork  PROVE Phases'
  BY <1>2 DEF TxWork
<1>3. ASSUME NEW q \in Queues, SendFrame(q) \/ RingFull(q) \/ QueueDone(q)  PROVE Phases'
  BY <1>3 DEF SendFrame, RingFull, QueueDone, NextQueue
<1>4. ASSUME Resetting  PROVE Phases'
  BY <1>4 DEF Resetting, ResetCancels, ResetStops, ResetDrains, ResetStarts
<1>5. ASSUME UNCHANGED txVars  PROVE Phases'
  BY <1>5 DEF txVars
<1> QED
  BY <1>1, <1>2, <1>3, <1>4, <1>5 DEF TxNext, Working

LEMMA FreshStep == TxInv /\ [TxNext]_txVars => FreshInv'
<1> SUFFICES ASSUME TxInv, [TxNext]_txVars, stale' = "no"
             PROVE  StoppedMeansFull' /\ NearlyFull' /\ Rescued'
  BY DEF FreshInv
<1> USE LastAssumption, SlotsAssumption, BacklogAssumption
    DEF TxTypeOK, Phases, StoppedMeansFull, NearlyFull, Rescued, Rescuer, Queues, Done,
        Chip, Worker
<1>0. stale = "no"
  <2>1. ASSUME NEW q \in Queues, OpTxStop(q)  PROVE stale = "no"
    BY <2>1 DEF OpTxStop
  <2>2. ASSUME ResetDrains  PROVE stale = "no"
    BY <2>2 DEF ResetDrains
  <2> QED
    BY <2>1, <2>2 DEF TxNext, Working, Resetting, OpTx, OpTxTest, TxStatus, TxWork, SendFrame,
       RingFull, QueueDone, ResetCancels, ResetStops, ResetStarts, txVars
<1>a. TxTypeOK /\ Phases /\ StoppedMeansFull /\ NearlyFull /\ Rescued
  BY <1>0 DEF TxInv, FreshInv
<1>1. ASSUME NEW q \in Queues, OpTx(q)  PROVE StoppedMeansFull' /\ NearlyFull' /\ Rescued'
  BY <1>1, <1>a DEF OpTx
<1>2. ASSUME NEW q \in Queues, OpTxTest(q)  PROVE StoppedMeansFull' /\ NearlyFull' /\ Rescued'
  BY <1>2, <1>a DEF OpTxTest
<1>3. ASSUME NEW q \in Queues, OpTxStop(q)  PROVE StoppedMeansFull' /\ NearlyFull' /\ Rescued'
  <2>1. CurrentDev = "NULL" \/ q \in stopped
    BY <1>0, <1>3 DEF OpTxStop
  <2>2. StoppedMeansFull' /\ NearlyFull'
    <3>1. ring' = ring /\ stopped' = stopped /\ rpc' = rpc
      BY <1>3 DEF OpTxStop
    <3>2. macStopped' = macStopped \/ (q \in stopped /\ macStopped' = macStopped \union {q})
      BY <1>3, <2>1 DEF OpTxStop
    <3>3. ring \in [Queues -> 0..Slots] /\ macStopped \subseteq Queues
      BY <1>a
    <3>4. StoppedMeansFull'
      BY <1>a, <3>1
    <3>5. ASSUME NEW r \in macStopped', rpc \in {"idle", "stop", "drain"}
          PROVE  ring[r] >= Slots - 1
      <4>1. CASE r \in macStopped
        BY <1>a, <3>5, <4>1
      <4>2. CASE r = q /\ q \in stopped
        <5>1. ring[q] = Slots
          BY <1>a, <4>2
        <5> QED
          BY <4>2, <5>1
      <4> QED
        BY <3>2, <3>5, <4>1, <4>2
    <3> QED
      BY <3>1, <3>4, <3>5
  <2>3. Rescued'
    <3>1. ASSUME NEW r \in Queues, r # q  PROVE txpc'[r] = txpc[r]
      BY <1>3, <1>a, <3>1 DEF OpTxStop
    <3>2. ring' = ring /\ txq' = txq /\ work' = work /\ wq' = wq /\ rpc' = rpc
      BY <1>3 DEF OpTxStop
    <3> QED
      BY <1>3, <1>a, <3>1, <3>2 DEF OpTxStop
  <2> QED
    BY <2>2, <2>3
<1>4. ASSUME NEW q \in Queues, TxStatus(q)  PROVE StoppedMeansFull' /\ NearlyFull' /\ Rescued'
  <2>1. /\ ring' = [ring EXCEPT ![q] = @ - 1] /\ ring[q] > 0
        /\ work' = "pending" /\ rpc' = rpc
    BY <1>4 DEF TxStatus, QueueTxWork
  <2>2. CASE q \in stopped
    <3>1. stopped' = stopped \ {q} /\ macStopped' = macStopped
      BY <1>4, <2>2 DEF TxStatus, RestartQueue
    <3>2. StoppedMeansFull' /\ NearlyFull'
      BY <1>a, <2>1, <2>2, <3>1
    <3> QED
      BY <2>1, <3>2
  <2>3. CASE q \notin stopped
    <3>1. stopped' = stopped /\ macStopped' = macStopped \ {q}
      BY <1>4, <2>3 DEF TxStatus, RestartQueue
    <3>2. StoppedMeansFull' /\ NearlyFull'
      BY <1>a, <2>1, <2>3, <3>1
    <3> QED
      BY <2>1, <3>2
  <2> QED
    BY <2>2, <2>3
<1>5. ASSUME TxWork  PROVE StoppedMeansFull' /\ NearlyFull' /\ Rescued'
  BY <1>5, <1>a DEF TxWork
<1>6. ASSUME NEW q \in Queues, SendFrame(q)  PROVE StoppedMeansFull' /\ NearlyFull' /\ Rescued'
  <2>1. /\ txq' = [txq EXCEPT ![q] = @ - 1] /\ wq = q /\ wq' = wq
        /\ ring[q] < Slots /\ rpc' = rpc
    BY <1>6 DEF SendFrame, HasRoom
  <2>2. q \notin stopped
    BY <1>a, <2>1
  <2>3. CASE ring' = [ring EXCEPT ![q] = @ + 1]
    <3>1. stopped' \subseteq stopped \union {q} /\ macStopped' \subseteq macStopped \union {q}
      BY <1>6 DEF SendFrame, StopQueue
    <3>2. q \in stopped' \/ q \in macStopped' \ macStopped => ring'[q] = Slots
      BY <1>6, <2>2, <2>3 DEF SendFrame, StopQueue
    <3>3. StoppedMeansFull' /\ NearlyFull'
      BY <1>a, <2>1, <2>3, <3>1, <3>2
    <3>4. Rescued'
      BY <1>6, <1>a, <2>1, <2>3 DEF SendFrame
    <3> QED
      BY <3>3, <3>4
  <2>4. CASE UNCHANGED <<ring, stopped, macStopped>>
    BY <1>6, <1>a, <2>1, <2>4 DEF SendFrame
  <2> QED
    BY <1>6, <2>3, <2>4 DEF SendFrame
<1>7. ASSUME NEW q \in Queues, RingFull(q)  PROVE StoppedMeansFull' /\ NearlyFull' /\ Rescued'
  BY <1>7, <1>a DEF RingFull, StopQueue, NextQueue
<1>8. ASSUME NEW q \in Queues, QueueDone(q)  PROVE StoppedMeansFull' /\ NearlyFull' /\ Rescued'
  BY <1>8, <1>a DEF QueueDone, ClearUnlessFull, NextQueue
<1>9. ASSUME ResetCancels \/ ResetStops  PROVE StoppedMeansFull' /\ NearlyFull' /\ Rescued'
  BY <1>9, <1>a DEF ResetCancels, ResetStops
<1>10. ASSUME ResetDrains  PROVE StoppedMeansFull' /\ NearlyFull' /\ Rescued'
  BY <1>10, <1>a DEF ResetDrains, DrainTxQueues
<1>11. ASSUME ResetStarts  PROVE StoppedMeansFull' /\ NearlyFull' /\ Rescued'
  BY <1>11, <1>a DEF ResetStarts
<1>12. ASSUME UNCHANGED txVars  PROVE StoppedMeansFull' /\ NearlyFull' /\ Rescued'
  BY <1>12, <1>a DEF txVars
<1> QED
  BY <1>1, <1>2, <1>3, <1>4, <1>5, <1>6, <1>7, <1>8, <1>9, <1>10, <1>11, <1>12
     DEF TxNext, Working, Resetting

LEMMA TxInvariant == TxSpec => []TxInv
<1>1. TxInv /\ [TxNext]_txVars => TxInv'
  BY TypeStep, PhasesStep, FreshStep DEF TxInv
<1> QED
  BY TxStarts, <1>1, PTL DEF TxSpec

(* The counters stay within the queues and the rings. *)
THEOREM TxTypeCorrect == TxSpec => []TxTypeOK
<1>1. TxInv => TxTypeOK
  BY DEF TxInv
<1> QED
  BY TxInvariant, <1>1, PTL

(* Whatever op_tx, tx_work, the statuses and restarts do to each other, a   *)
(* frame is forgotten and a queue left stopped only after a flag outlived   *)
(* its ring.                                                                *)
THEOREM OnlyStaleStalls == TxSpec => []FreshDataFlows
<1>1. TxInv => FreshDataFlows
  BY SlotsAssumption DEF TxInv, TxTypeOK, FreshInv, FreshDataFlows, DataFlows, Running,
     StoppedMeansFull, NearlyFull, Rescued, Queues
<1> QED
  BY TxInvariant, <1>1, PTL

(* Nothing is put on the rings of a core that is down. *)
THEOREM NothingSentDown == TxSpec => DownSendsNothing
<1>1. TxInv /\ [TxNext]_txVars => [up = "down" => \A q \in Queues : ring'[q] <= ring[q]]_txVars
  <2> SUFFICES ASSUME TxInv, TxNext, up = "down", NEW r \in Queues
               PROVE  ring'[r] <= ring[r]
    OBVIOUS
  <2>1. /\ ring \in [Queues -> 0..Slots] /\ wq \in 0..Done
        /\ wq = Done
    BY DEF TxInv, TxTypeOK, Phases
  <2>2. ASSUME NEW q \in Queues, SendFrame(q)  PROVE FALSE
    BY <2>1, <2>2, LastAssumption DEF SendFrame, Queues, Done
  <2>3. CASE ring' = ring
    BY <2>1, <2>3, SlotsAssumption
  <2>4. CASE ring' = [q \in Queues |-> 0]
    BY <2>1, <2>4, SlotsAssumption
  <2> QED
    BY <2>2, <2>3, <2>4 DEF TxNext, Working, Resetting, Chip, OpTx, OpTxTest, OpTxStop, TxStatus,
       TxWork, RingFull, QueueDone, ResetCancels, ResetStops, ResetDrains, ResetStarts
<1> QED
  BY TxInvariant, <1>1, PTL DEF TxSpec, DownSendsNothing
============================================================================
