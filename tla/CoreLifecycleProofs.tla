------------------------ MODULE CoreLifecycleProofs ------------------------
(***************************************************************************)
(* Proofs about CoreLifecycle, for every value of its constants.           *)
(***************************************************************************)
EXTENDS CoreLifecycle, TLAPS

(* What holds whatever op_stop and chip_reset do to each other. *)
LockInv == TypeOK /\ MutexHeldInside /\ HandlersCover

LEMMA LockInit == Init => LockInv
<1> SUFFICES ASSUME Init PROVE LockInv
  OBVIOUS
<1>1. TypeOK
  BY DEF Init, TypeOK, OpenPCs, UNINIT
<1>2. MutexHeldInside
  BY DEF Init, MutexHeldInside, Threads, LockedPCs
<1>3. HandlersCover
  BY DEF Init, HandlersCover, HandlersDue, One, Threads, UNINIT, STARTED
<1> QED
  BY <1>1, <1>2, <1>3 DEF LockInv

LEMMA LockStep == LockInv /\ [Next]_vars => LockInv'
<1> SUFFICES ASSUME TypeOK, MutexHeldInside, HandlersCover, [Next]_vars
             PROVE  LockInv'
  BY DEF LockInv
<1> USE DEF LockInv, Callers, Threads, StopPCs, LockedPCs, OpenPCs, PeriodicPCs,
            IrqMask, Core, NULL, UNINIT, INITIALIZED, STARTED,
            Goto, Device, Works, Locals, Acquire, Release
<1>1. ASSUME NEW c \in Callers, StopCancel(c)  PROVE LockInv'
  BY <1>1 DEF StopCancel, TypeOK, MutexHeldInside, HandlersCover, HandlersDue, One
<1>2. ASSUME NEW c \in Callers, StopRelock(c)  PROVE LockInv'
  <2>1. TypeOK'
    BY <1>2 DEF StopRelock, StopReturnsNull, TypeOK
  <2>2. MutexHeldInside'
    BY <1>2 DEF StopRelock, StopReturnsNull, TypeOK, MutexHeldInside
  <2>3. HandlersCover'
    BY <1>2 DEF StopRelock, StopReturnsNull, TypeOK, HandlersCover, HandlersDue, One
  <2> QED
    BY <2>1, <2>2, <2>3
<1>3. ASSUME NEW c \in Callers, StopFreeIrq(c)  PROVE LockInv'
  <2>1. TypeOK'
    BY <1>3 DEF StopFreeIrq, FreesHandler, TypeOK, HandlersCover, HandlersDue, One
  <2>2. MutexHeldInside'
    BY <1>3 DEF StopFreeIrq, FreesHandler, TypeOK, MutexHeldInside
  <2>3. HandlersCover'
    BY <1>3 DEF StopFreeIrq, FreesHandler, TypeOK, HandlersCover, HandlersDue, One
  <2> QED
    BY <2>1, <2>2, <2>3
<1>4. ASSUME NEW c \in Callers, StopFinish(c)  PROVE LockInv'
  BY <1>4 DEF StopFinish, StopReturnsNull, MacSuspended, TypeOK, MutexHeldInside, HandlersCover, HandlersDue, One
<1>5. ASSUME NEW c \in Callers, CoreExit(c)  PROVE LockInv'
  BY <1>5 DEF CoreExit, ExitCore, TypeOK, MutexHeldInside, HandlersCover, HandlersDue, One
<1>6. ASSUME NEW c \in Callers, CoreInit(c)  PROVE LockInv'
  BY <1>6 DEF CoreInit, InitDone, BringUpFailed, TypeOK, MutexHeldInside, HandlersCover, HandlersDue, One
<1>7. ASSUME NEW c \in Callers, CoreStart(c)  PROVE LockInv'
  BY <1>7 DEF CoreStart, MacEnabled, TypeOK, MutexHeldInside, HandlersCover, HandlersDue, One
<1>8. ASSUME NEW c \in Callers, CoreStartFailed(c)  PROVE LockInv'
  BY <1>8 DEF CoreStartFailed, ExitCore, BringUpFailed, TypeOK, MutexHeldInside, HandlersCover, HandlersDue, One
<1>9. ASSUME NEW c \in Callers, CoreUp(c)  PROVE LockInv'
  BY <1>9 DEF CoreUp, TypeOK, MutexHeldInside, HandlersCover, HandlersDue, One
<1>10. ASSUME NEW c \in Callers, ConfigEnter(c)  PROVE LockInv'
  BY <1>10 DEF ConfigEnter, TypeOK, MutexHeldInside, HandlersCover, HandlersDue, One
<1>11. ASSUME NEW c \in Callers, ConfigLocked(c)  PROVE LockInv'
  <2>1. TypeOK'
    <3>1. CASE dev[c] = NULL
      <4>1. /\ pc' = [pc EXCEPT ![c] = "oops"] /\ mutex' = c
            /\ UNCHANGED <<status, handlers, mask, suspended, timer, queued, current, iface, dev, prev>>
        BY <1>11, <3>1 DEF ConfigLocked, Oops
      <4> QED
        BY <4>1 DEF TypeOK
    <3>2. CASE dev[c] # NULL
      <4>1. /\ pc' = [pc EXCEPT ![c] = "config_body"] /\ mutex' = c
            /\ suspended' = suspended + 1
            /\ UNCHANGED <<status, handlers, mask, timer, queued, current, iface, dev, prev>>
        BY <1>11, <3>2 DEF ConfigLocked, MacSuspended
      <4> QED
        BY <4>1 DEF TypeOK
    <3> QED
      BY <3>1, <3>2
  <2>2. MutexHeldInside'
    BY <1>11 DEF ConfigLocked, Oops, MacSuspended, TypeOK, MutexHeldInside
  <2>3. HandlersCover'
    BY <1>11 DEF ConfigLocked, Oops, MacSuspended, TypeOK, HandlersCover, HandlersDue, One
  <2> QED
    BY <2>1, <2>2, <2>3
<1>12. ASSUME NEW c \in Callers, ConfigDone(c)  PROVE LockInv'
  BY <1>12 DEF ConfigDone, MacEnabled, TypeOK, MutexHeldInside, HandlersCover, HandlersDue, One
<1>13. CASE OpStart
  BY <1>13 DEF OpStart, TypeOK, MutexHeldInside, HandlersCover, HandlersDue, One
<1>14. CASE OpClose
  BY <1>14 DEF OpClose, TypeOK, MutexHeldInside, HandlersCover, HandlersDue, One
<1>15. CASE OpConfig
  BY <1>15 DEF OpConfig, TypeOK, MutexHeldInside, HandlersCover, HandlersDue, One
<1>16. CASE OpStartLocked
  <2>1. TypeOK'
    <3>1. CASE dev["op"] = NULL
      <4>1. /\ pc' = [pc EXCEPT !["op"] = "oops"] /\ mutex' = "op"
              /\ prev' = [prev EXCEPT !["op"] = status]
            /\ UNCHANGED <<status, handlers, mask, suspended, timer, queued, current, iface, dev>>
        BY <1>16, <3>1 DEF OpStartLocked, Oops
      <4> QED
        BY <4>1 DEF TypeOK
    <3>2. CASE dev["op"] # NULL
      <4>1. /\ \E l \in {"init", "start", "up"} : pc' = [pc EXCEPT !["op"] = l]
            /\ mutex' = "op" /\ prev' = [prev EXCEPT !["op"] = status]
            /\ UNCHANGED <<status, handlers, mask, suspended, timer, queued, current, iface, dev>>
        BY <1>16, <3>2 DEF OpStartLocked
      <4> QED
        BY <4>1 DEF TypeOK
    <3> QED
      BY <3>1, <3>2
  <2>2. MutexHeldInside'
    BY <1>16 DEF OpStartLocked, Oops, TypeOK, MutexHeldInside
  <2>3. HandlersCover'
    BY <1>16 DEF OpStartLocked, Oops, TypeOK, HandlersCover, HandlersDue, One
  <2> QED
    BY <2>1, <2>2, <2>3
<1>17. CASE OpStop
  BY <1>17 DEF OpStop, TypeOK, MutexHeldInside, HandlersCover, HandlersDue, One
<1>18. CASE OpStopLocked
  BY <1>18 DEF OpStopLocked, TypeOK, MutexHeldInside, HandlersCover, HandlersDue, One
<1>19. CASE TimerFires
  BY <1>19 DEF TimerFires, TypeOK, MutexHeldInside, HandlersCover, HandlersDue, One
<1>20. ASSUME NEW w \in queued, RunWork(w)  PROVE LockInv'
  BY <1>20 DEF RunWork, TypeOK, MutexHeldInside, HandlersCover, HandlersDue, One
<1>21. CASE ChipReset
  BY <1>21 DEF ChipReset, TypeOK, MutexHeldInside, HandlersCover, HandlersDue, One
<1>22. CASE LockWork
  BY <1>22 DEF LockWork, TypeOK, MutexHeldInside, HandlersCover, HandlersDue, One
<1>23. CASE PeriodicWork
  <2>1. /\ pc["work"] \in {"periodic_body", "reserve"}
        /\ pc' = [pc EXCEPT !["work"] = "idle"] /\ mutex' = "none"
        /\ timer' \in {"armed", timer} /\ suspended' \in {suspended, suspended + 1}
        /\ UNCHANGED <<status, handlers, mask, current, iface, dev, prev>>
    BY <1>23 DEF PeriodicWork, MacSuspended
  <2>2. queued' \subseteq queued \union {"restart"}
    BY <1>23 DEF PeriodicWork, ControllerRestart
  <2>3. TypeOK'
    BY <2>1, <2>2 DEF TypeOK
  <2>4. MutexHeldInside' /\ HandlersCover'
    BY <2>1 DEF TypeOK, MutexHeldInside, HandlersCover, HandlersDue, One
  <2> QED
    BY <2>3, <2>4
<1>24. CASE HardIrq
  BY <1>24 DEF HardIrq, TypeOK, MutexHeldInside, HandlersCover, HandlersDue, One
<1>25. CASE LockIrq
  BY <1>25 DEF LockIrq, TypeOK, MutexHeldInside, HandlersCover, HandlersDue, One
<1>26. CASE IrqThread
  BY <1>26 DEF IrqThread, ThreadRuns, ControllerRestart, TypeOK, MutexHeldInside, HandlersCover, HandlersDue, One
<1>27. CASE UNCHANGED vars
  BY <1>27 DEF vars, TypeOK, MutexHeldInside, HandlersCover, HandlersDue, One
<1>28. CASE PowerCheck
  BY <1>28 DEF PowerCheck, MacEnabled, TypeOK, MutexHeldInside, HandlersCover, HandlersDue, One
<1> QED
  BY <1>1, <1>2, <1>3, <1>4, <1>5, <1>6, <1>7, <1>8, <1>9, <1>10, <1>11, <1>12, <1>13, <1>14, <1>15, <1>16, <1>17, <1>18, <1>19, <1>20, <1>21, <1>22, <1>23, <1>24, <1>25, <1>26, <1>27, <1>28
     DEF Next, CallerStep, OpStep, WorkStep, IrqStep

(* Type correctness, for every bound and every environment. *)
THEOREM TypeCorrect == Spec => []TypeOK
<1>1. LockInv => TypeOK
  BY DEF LockInv
<1> QED
  BY <1>1, LockInit, LockStep, PTL DEF Spec

(* wl->mutex is held exactly by the thread that stands in a locked section. *)
THEOREM LockDiscipline == Spec => []MutexHeldInside
<1>1. LockInv => MutexHeldInside
  BY DEF LockInv
<1> QED
  BY <1>1, LockInit, LockStep, PTL DEF Spec

(* No free_irq() takes the handler of a started core. *)
THEOREM HandlersSuffice == Spec => []HandlersCover
<1>1. LockInv => HandlersCover
  BY DEF LockInv
<1> QED
  BY <1>1, LockInit, LockStep, PTL DEF Spec

(***************************************************************************)
(* Without a reset during a stop QuietInv is inductive, and every          *)
(* assertion the driver makes about its own state follows from it, also    *)
(* when init and start fail.                                               *)
(***************************************************************************)

(* QuietInv without the part LockStep already covers. *)
Rest ==
  /\ HandlersExact /\ Exclusive /\ OpenedByOp /\ StatusByPlace /\ CurrentWhileUp
  /\ PrevByPlace /\ IrqByStatus /\ PeriodicByStatus /\ SuspendByPlace

LEMMA QuietInit == Init => QuietInv
<1> SUFFICES ASSUME Init PROVE QuietInv
  OBVIOUS
<1> USE DEF Init, Callers, Threads, StopPCs, LockedPCs, OpenPCs, RunningPCs, HaltedPCs,
            StartPCs, OpStartPCs, OpStopPCs, PeriodicPCs, Core, NULL,
            UNINIT, INITIALIZED, STARTED
<1>1. TypeOK /\ MutexHeldInside /\ HandlersCover
  BY LockInit DEF LockInv
<1>2. Exclusive /\ OpenedByOp /\ PrevByPlace
  BY DEF Exclusive, ResetActive, OpenedByOp, PrevByPlace
<1>3. StatusByPlace /\ CurrentWhileUp
  BY DEF StatusByPlace, CurrentWhileUp
<1>4. HandlersExact /\ IrqByStatus /\ PeriodicByStatus /\ SuspendByPlace
  BY DEF HandlersExact, HandlersDue, One, IrqByStatus, PeriodicByStatus, SuspendByPlace,
         Suspends
<1> QED
  BY <1>1, <1>2, <1>3, <1>4 DEF QuietInv

LEMMA QuietStep ==
  ASSUME ~ResetDuringStop, QuietInv, [Next]_vars
  PROVE  Rest'
<1> USE DEF Rest, Callers, Threads, StopPCs, LockedPCs, OpenPCs, RunningPCs, HaltedPCs,
            StartPCs, OpStartPCs, OpStopPCs, PeriodicPCs,
            IrqMask, Core, NULL, UNINIT, INITIALIZED, STARTED,
            Goto, Device, Works, Locals, Acquire, Release
<1> USE DEF QuietInv, TypeOK, MutexHeldInside, HandlersCover, HandlersExact, Exclusive,
            OpenedByOp, StatusByPlace, CurrentWhileUp, PrevByPlace, IrqByStatus,
            PeriodicByStatus, SuspendByPlace, Suspends, HandlersDue, ResetActive, One
<1>1. ASSUME NEW c \in Callers, StopCancel(c)  PROVE Rest'
  BY <1>1 DEF StopCancel
<1>2. ASSUME NEW c \in Callers, StopRelock(c)  PROVE Rest'
  BY <1>2 DEF StopRelock, StopReturnsNull
<1>3. ASSUME NEW c \in Callers, StopFreeIrq(c)  PROVE Rest'
  BY <1>3 DEF StopFreeIrq, FreesHandler
<1>4. ASSUME NEW c \in Callers, StopFinish(c)  PROVE Rest'
  BY <1>4 DEF StopFinish, StopReturnsNull, MacSuspended
<1>5. ASSUME NEW c \in Callers, CoreExit(c)  PROVE Rest'
  BY <1>5 DEF CoreExit, ExitCore
<1>6. ASSUME NEW c \in Callers, CoreInit(c)  PROVE Rest'
  BY <1>6 DEF CoreInit, InitDone, BringUpFailed
<1>7. ASSUME NEW c \in Callers, CoreStart(c)  PROVE Rest'
  BY <1>7 DEF CoreStart, MacEnabled
<1>8. ASSUME NEW c \in Callers, CoreStartFailed(c)  PROVE Rest'
  BY <1>8 DEF CoreStartFailed, ExitCore, BringUpFailed
<1>9. ASSUME NEW c \in Callers, CoreUp(c)  PROVE Rest'
  BY <1>9 DEF CoreUp
<1>10. ASSUME NEW c \in Callers, ConfigEnter(c)  PROVE Rest'
  BY <1>10 DEF ConfigEnter
<1>11. ASSUME NEW c \in Callers, ConfigLocked(c)  PROVE Rest'
  BY <1>11 DEF ConfigLocked, Oops, MacSuspended
<1>12. ASSUME NEW c \in Callers, ConfigDone(c)  PROVE Rest'
  BY <1>12 DEF ConfigDone, MacEnabled
<1>13. CASE OpStart
  BY <1>13 DEF OpStart
<1>14. CASE OpClose
  BY <1>14 DEF OpClose
<1>15. CASE OpConfig
  BY <1>15 DEF OpConfig
<1>16. CASE OpStartLocked
  BY <1>16 DEF OpStartLocked, Oops
<1>17. CASE OpStop
  BY <1>17 DEF OpStop
<1>18. CASE OpStopLocked
  BY <1>18 DEF OpStopLocked
<1>19. CASE TimerFires
  BY <1>19 DEF TimerFires
<1>20. ASSUME NEW w \in queued, RunWork(w)  PROVE Rest'
  BY <1>20 DEF RunWork
<1>21. CASE ChipReset
  BY <1>21 DEF ChipReset
<1>22. CASE LockWork
  BY <1>22 DEF LockWork
<1>23. CASE PeriodicWork
  <2>1. mutex = "work" /\ pc["op"] \notin LockedPCs
    BY <1>23 DEF PeriodicWork, MutexHeldInside, QuietInv
  <2>2. queued' = queued \/ (status = STARTED /\ ~Stopping)
    BY <1>23, ZenonT(20) DEF PeriodicWork, ControllerRestart
  <2>3. status = STARTED /\ ~Stopping => iface = "open" /\ pc["op"] \notin OpStartPCs \union OpStopPCs
    BY <2>1 DEF Stopping, QuietInv, TypeOK, OpenedByOp, StatusByPlace
  <2>4. /\ UNCHANGED <<status, current, iface, dev, prev>>
        /\ pc' = [pc EXCEPT !["work"] = "idle"]
    BY <1>23 DEF PeriodicWork
  <2>5. queued' \subseteq queued \union {"restart"}
    BY <1>23 DEF PeriodicWork, ControllerRestart
  <2>6. Exclusive'
    BY <2>2, <2>3, <2>4, <1>23 DEF PeriodicWork, Exclusive, ResetActive, QuietInv, TypeOK
  <2>7. OpenedByOp' /\ PrevByPlace'
    BY <2>4 DEF OpenedByOp, PrevByPlace, QuietInv, TypeOK
  <2>8. Exclusive' /\ OpenedByOp' /\ PrevByPlace'
    BY <2>6, <2>7
  <2>9. StatusByPlace' /\ CurrentWhileUp'
    BY <1>23 DEF PeriodicWork, ControllerRestart, Stopping
  <2>10. IrqByStatus' /\ PeriodicByStatus'
    BY <1>23 DEF PeriodicWork, ControllerRestart, Stopping
  <2>11. SuspendByPlace' /\ HandlersExact'
    BY <1>23 DEF PeriodicWork, MacSuspended
  <2> QED
    BY <2>8, <2>9, <2>10, <2>11
<1>24. CASE HardIrq
  BY <1>24 DEF HardIrq
<1>25. CASE LockIrq
  BY <1>25 DEF LockIrq
<1>26. CASE IrqThread
  <2>1. mutex = "irq" /\ pc["op"] \notin LockedPCs
    BY <1>26 DEF IrqThread, MutexHeldInside, QuietInv
  <2>2. queued' = queued \/ (status = STARTED /\ ~Stopping)
    BY <1>26, ZenonT(20) DEF IrqThread, ThreadRuns, ControllerRestart
  <2>3. status = STARTED /\ ~Stopping => iface = "open" /\ pc["op"] \notin OpStartPCs \union OpStopPCs
    BY <2>1 DEF Stopping, QuietInv, TypeOK, OpenedByOp, StatusByPlace
  <2>4. /\ UNCHANGED <<status, current, iface, dev, prev>>
        /\ pc' = [pc EXCEPT !["irq"] = "idle"]
    BY <1>26 DEF IrqThread
  <2>5. queued' \subseteq queued \union {"restart"}
    BY <1>26 DEF IrqThread, ThreadRuns, ControllerRestart
  <2>6. Exclusive'
    BY <2>2, <2>3, <2>4, <1>26 DEF IrqThread, Exclusive, ResetActive, QuietInv, TypeOK
  <2>7. OpenedByOp' /\ PrevByPlace'
    BY <2>4 DEF OpenedByOp, PrevByPlace, QuietInv, TypeOK
  <2>8. Exclusive' /\ OpenedByOp' /\ PrevByPlace'
    BY <2>6, <2>7
  <2>9. StatusByPlace' /\ CurrentWhileUp'
    BY <1>26 DEF IrqThread, ThreadRuns, ControllerRestart, Stopping
  <2>10. IrqByStatus' /\ PeriodicByStatus'
    BY <1>26 DEF IrqThread, ThreadRuns, ControllerRestart, Stopping
  <2>11. SuspendByPlace' /\ HandlersExact'
    BY <1>26 DEF IrqThread, ThreadRuns, ControllerRestart, Stopping
  <2> QED
    BY <2>8, <2>9, <2>10, <2>11
<1>27. CASE UNCHANGED vars
  BY <1>27 DEF vars
<1>28. CASE PowerCheck
  BY <1>28 DEF PowerCheck, MacEnabled
<1> QED
  BY <1>1, <1>2, <1>3, <1>4, <1>5, <1>6, <1>7, <1>8, <1>9,
     <1>10, <1>11, <1>12, <1>13, <1>14, <1>15, <1>16, <1>17, <1>18,
     <1>19, <1>20, <1>21, <1>22, <1>23, <1>24, <1>25, <1>26, <1>27, <1>28
     DEF Next, CallerStep, OpStep, WorkStep, IrqStep

(* Without a reset during a stop, QuietInv always holds: restart and stop  *)
(* never overlap, and the status follows from where the threads stand.     *)
THEOREM QuietInvariant ==
  ASSUME ~ResetDuringStop
  PROVE  Spec => []QuietInv
<1>1. QuietInv /\ [Next]_vars => QuietInv'
  <2> SUFFICES ASSUME QuietInv, [Next]_vars
               PROVE  QuietInv'
    OBVIOUS
  <2>1. LockInv'
    BY LockStep DEF LockInv, QuietInv
  <2>2. Rest'
    BY QuietStep
  <2> QED
    BY <2>1, <2>2 DEF LockInv, Rest, QuietInv
<1> QED
  BY <1>1, QuietInit, PTL DEF Spec

(* None of the driver's B43_WARN_ONs about the status fires: the core is   *)
(* initialised only when down, started only when initialised, and shut     *)
(* down only when stopped.                                                 *)
THEOREM StatusAssertions ==
  ASSUME ~ResetDuringStop
  PROVE  Spec => [](InitFromUninit /\ StartFromInit /\ ExitAfterStop)
<1>1. QuietInv => InitFromUninit /\ StartFromInit /\ ExitAfterStop
  BY DEF QuietInv, StatusByPlace, InitFromUninit, StartFromInit, ExitAfterStop,
         HaltedPCs, STARTED, INITIALIZED, UNINIT
<1> QED
  BY <1>1, QuietInvariant, PTL

(* A closed interface leaves the core down, without handler or work. *)
THEOREM ClosedMeansDown ==
  ASSUME ~ResetDuringStop
  PROVE  Spec => []ClosedIsDown
<1>1. QuietInv => ClosedIsDown
  <2> SUFFICES ASSUME QuietInv, pc["op"] = "idle", iface = "closed"
               PROVE  /\ status = UNINIT /\ handlers = 0 /\ mask = 0
                      /\ timer = "off" /\ queued = {} /\ pc["work"] = "idle"
    BY DEF ClosedIsDown
  <2>1. status = UNINIT
    BY DEF QuietInv, StatusByPlace
  <2>2. ~ResetActive
    BY DEF QuietInv, Exclusive
  <2>3. timer = "off" /\ "periodic" \notin queued /\ pc["work"] \notin PeriodicPCs
    BY <2>1 DEF QuietInv, TypeOK, PeriodicByStatus, UNINIT, STARTED
  <2>4. queued = {} /\ pc["work"] = "idle"
    BY <2>2, <2>3 DEF ResetActive, QuietInv, TypeOK
  <2>5. handlers = 0 /\ mask = 0
    BY <2>1, <2>4 DEF QuietInv, TypeOK, HandlersExact, HandlersDue, One, IrqByStatus,
                      UNINIT, STARTED
  <2> QED
    BY <2>1, <2>3, <2>4, <2>5
<1> QED
  BY <1>1, QuietInvariant, PTL

(* mac_suspend and mac_enable balance: with the mutex free a started core  *)
(* runs its MAC, and the only place where the driver's assertion on the    *)
(* suspend count fails is the periodic work's reservation of the medium,   *)
(* where the count is exactly -1.                                          *)
THEOREM Balance ==
  ASSUME ~ResetDuringStop
  PROVE  Spec => [](MacRunsWhenStarted /\ SuspendCountBounded)
<1>1. QuietInv => MacRunsWhenStarted /\ SuspendCountBounded
  BY DEF QuietInv, TypeOK, MutexHeldInside, SuspendByPlace, Suspends, MacRunsWhenStarted,
         SuspendCountBounded, PeriodicByStatus, PeriodicPCs, One, Threads, LockedPCs
<1> QED
  BY <1>1, QuietInvariant, PTL

(* No interrupt handler leaks from one start to the next: every            *)
(* request_threaded_irq is matched by a free_irq on whichever path stopped *)
(* the core.                                                               *)
THEOREM NoHandlerLeaks ==
  ASSUME ~ResetDuringStop
  PROVE  Spec => []HandlersExact
<1>1. QuietInv => HandlersExact
  BY DEF QuietInv
<1> QED
  BY <1>1, QuietInvariant, PTL

(* A core that was stopped keeps its interrupts masked, and nothing left   *)
(* in the work queue initialises it again.                                 *)
THEOREM StoppedStaysQuiet ==
  ASSUME ~ResetDuringStop
  PROVE  Spec => [](MaskClearAfterFree /\ NoPendingReinit)
<1>1. QuietInv => MaskClearAfterFree
  BY DEF QuietInv, StatusByPlace, IrqByStatus, MaskClearAfterFree, HaltedPCs,
         INITIALIZED, STARTED
<1>2. QuietInv => NoPendingReinit
  BY DEF QuietInv, TypeOK, StatusByPlace, PeriodicByStatus, NoPendingReinit, HaltedPCs,
         INITIALIZED, STARTED
<1> QED
  BY <1>1, <1>2, QuietInvariant, PTL
============================================================================
