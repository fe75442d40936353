--------------------------- MODULE CoreLifecycle ---------------------------
(***************************************************************************)
(* The life of one 802.11 core in b43/main.c: op_start, op_stop, op_config *)
(* and the controller restart (b43_chip_reset) against the periodic work   *)
(* and the threaded interrupt handler.                                     *)
(*                                                                         *)
(* Three threads of control run the driver's code:                         *)
(*   "op"    mac80211 calling start/stop/config, one call at a time;       *)
(*   "work"  mac80211's ordered workqueue: restart_work, periodic_work;    *)
(*   "irq"   the interrupt thread woken by the hard handler.               *)
(* Each takes wl->mutex; core_stop drops it twice to wait for the others,  *)
(* and these windows are what the properties are about.  A section that    *)
(* keeps the mutex is cut only where another thread can see the           *)
(* difference.                                                             *)
(*                                                                         *)
(* A definition directly above another and named for what it gets wrong    *)
(* (FreesTwice above FreesHandler) is a seeded fault: a run with it in the *)
(* other's place shows that a property notices.                            *)
(***************************************************************************)
EXTENDS Integers

CONSTANTS
  Faults,           (* which steps of bringing the core up may fail: "init", "irq" *)
  ResetDuringStop,  (* whether the device may ask for a reset while op_stop runs   *)
  MaxCount          (* bound: no further open or close once a counter passes it    *)

ASSUME FaultsAssumption == Faults \subseteq {"init", "irq"}
ASSUME ResetAssumption == ResetDuringStop \in BOOLEAN
ASSUME MaxCountAssumption == MaxCount \in Nat

VARIABLES
  mutex,      (* holder of wl->mutex, or "none"                                *)
  status,     (* dev->__init_status                                            *)
  current,    (* wl->current_dev: the one core, or NULL                        *)
  handlers,   (* interrupt handlers registered for the device                  *)
  mask,       (* B43_MMIO_GEN_IRQ_MASK: 0 or the irq_mask                      *)
  suspended,  (* dev->mac_suspended                                            *)
  timer,      (* periodic_work's timer: armed or off                           *)
  queued,     (* works waiting on the workqueue                                *)
  iface,      (* mac80211's view of the interface: open or closed              *)
  pc,         (* where each thread stands                                      *)
  dev,        (* the local dev of a caller                                     *)
  prev        (* the status a caller found when it entered (prev_status)       *)

vars == <<mutex, status, current, handlers, mask, suspended, timer, queued,
          iface, pc, dev, prev>>

IrqMask == 1

Core == "core"
NULL == "NULL"

UNINIT == 0
INITIALIZED == 1
STARTED == 2

Callers == {"op", "work"}
Threads == {"op", "work", "irq"}

StopPCs == {"cancel", "relock", "free_irq", "relock2"}
LockedPCs == {"exit", "exit_err", "init", "start", "up", "config_body",
              "periodic_body", "reserve", "irq_body", "oops"}
OpenPCs == {"idle", "start_lock", "flush", "stop_lock", "reset_lock", "config",
            "config_lock", "periodic_lock", "irq_lock"}
PeriodicPCs == {"periodic_lock", "periodic_body", "reserve"}

(***************************************************************************)
(* Steps of a thread.                                                      *)
(***************************************************************************)
Goto(t, l) == pc' = [pc EXCEPT ![t] = l]

Acquire(t) == mutex = "none" /\ mutex' = t

Release == mutex' = "none"

Within == handlers <= MaxCount /\ suspended \in -MaxCount..MaxCount

Device == <<status, handlers, mask, suspended>>
Works == <<timer, queued>>
Locals == <<dev, prev>>

(* A failed access through a NULL dev kills the thread, mutex held. *)
Oops(t) ==
  /\ Goto(t, "oops")
  /\ UNCHANGED <<Device, Works, current, iface>>

(* b43_mac_suspend() and b43_mac_enable() keep a nesting count. *)
MacSuspended == suspended' = suspended + 1

MacStaysSuspended == UNCHANGED suspended
MacEnabled == suspended' = suspended - 1

Stopping == pc["op"] \in {"flush", "stop_lock", "exit"} \union StopPCs

RestartLost == UNCHANGED queued

(* b43_controller_restart(): a reset is queued unless the core is down.  *)
ControllerRestart ==
  /\ ResetDuringStop \/ ~Stopping
  /\ queued' = IF status < INITIALIZED THEN queued ELSE queued \union {"restart"}

(***************************************************************************)
(* b43_wireless_core_stop(), shared by op_stop and chip_reset.             *)
(***************************************************************************)

StopCancelForgotten(c) ==
  /\ pc[c] = "cancel"
  /\ Goto(c, "relock")
  /\ UNCHANGED <<mutex, Device, Works, current, iface, Locals>>

StopWaitsForWork(c) ==
  /\ pc[c] = "cancel"
  /\ timer = "off" /\ "periodic" \notin queued
  /\ pc["work"] \notin PeriodicPCs
  /\ Goto(c, "relock")
  /\ UNCHANGED <<mutex, Device, Works, current, iface, Locals>>

(* cancel_delayed_work_sync(&dev->periodic_work), mutex released. *)
StopCancel(c) ==
  /\ pc[c] = "cancel"
  /\ pc["work"] \notin PeriodicPCs
  /\ timer' = "off"
  /\ queued' = queued \ {"periodic"}
  /\ Goto(c, "relock")
  /\ UNCHANGED <<mutex, Device, current, iface, Locals>>

(* What a caller does when core_stop returns NULL. *)
StopReturnsNull(c) ==
  /\ Goto(c, "idle")
  /\ iface' = IF c = "op" THEN "closed" ELSE iface
  /\ current' = NULL
  /\ UNCHANGED <<mutex, Device>>

(* Re-lock, look at the device again, and turn its interrupts off. *)
StopRelock(c) ==
  /\ pc[c] = "relock" /\ mutex = "none"
  /\ dev' = [dev EXCEPT ![c] = current]
  /\ \/ current = NULL /\ StopReturnsNull(c)
     \/ /\ current # NULL /\ status < STARTED
        /\ mutex' = c
        /\ Goto(c, "exit")
        /\ UNCHANGED <<Device, current, iface>>
     \/ /\ current # NULL /\ status >= STARTED
        /\ status' = INITIALIZED
        /\ mask' = 0
        /\ Goto(c, "free_irq")
        /\ UNCHANGED <<mutex, current, iface, handlers, suspended>>
  /\ UNCHANGED <<Works, prev>>

FreesTwice == handlers' = handlers - 2
FreesNothing == UNCHANGED handlers
FreesHandler == handlers' = handlers - 1

(* free_irq() waits for the handlers, mutex released. *)
StopFreeIrq(c) ==
  /\ pc[c] = "free_irq" /\ pc["irq"] = "idle"
  /\ FreesHandler
  /\ Goto(c, "relock2")
  /\ UNCHANGED <<mutex, status, mask, suspended, Works, current, iface, Locals>>

(* Re-lock once more; the core is quiet now, suspend its MAC. *)
StopFinish(c) ==
  /\ pc[c] = "relock2" /\ mutex = "none"
  /\ dev' = [dev EXCEPT ![c] = current]
  /\ \/ current = NULL /\ StopReturnsNull(c)
     \/ /\ current # NULL
        /\ mutex' = c
        /\ MacSuspended
        /\ Goto(c, "exit")
        /\ UNCHANGED <<status, handlers, mask, current, iface>>
  /\ UNCHANGED <<Works, prev>>

(***************************************************************************)
(* b43_wireless_core_exit(), _init() and _start(), wl->mutex held.         *)
(***************************************************************************)
ExitCore == status' = IF status = INITIALIZED THEN UNINIT ELSE status

(* core_exit after core_stop: op_stop returns, chip_reset goes on to init. *)
CoreExit(c) ==
  /\ pc[c] = "exit"
  /\ ExitCore
  /\ \/ c = "op" /\ Goto(c, "idle") /\ iface' = "closed" /\ Release
     \/ c = "work" /\ Goto(c, "init") /\ UNCHANGED <<iface, mutex>>
  /\ UNCHANGED <<handlers, mask, suspended, Works, current, Locals>>

(* Bringing the core up failed: op_start reports the error, chip_reset     *)
(* gives the device up (wl->current_dev = NULL).                           *)
BringUpFailed(c) ==
  /\ Goto(c, "idle")
  /\ Release
  /\ current' = IF c = "op" THEN current ELSE NULL

InitDone == status' = INITIALIZED /\ suspended' = 1

CoreInit(c) ==
  /\ pc[c] = "init"
  /\ \/ /\ "init" \in Faults
        /\ suspended' \in {suspended, 1}
        /\ BringUpFailed(c)
        /\ UNCHANGED status
     \/ /\ InitDone
        /\ Goto(c, IF c = "op" \/ prev[c] >= STARTED THEN "start" ELSE "up")
        /\ UNCHANGED <<mutex, current>>
  /\ UNCHANGED <<handlers, mask, Works, iface, Locals>>

CoreStart(c) ==
  /\ pc[c] = "start"
  /\ \/ /\ "irq" \in Faults
        /\ Goto(c, "exit_err")
        /\ UNCHANGED <<Device, timer>>
     \/ /\ handlers' = handlers + 1
        /\ status' = STARTED
        /\ MacEnabled
        /\ mask' = IrqMask
        /\ timer' = "armed"
        /\ Goto(c, "up")
  /\ UNCHANGED <<mutex, queued, current, iface, Locals>>

(* core_start failed: core_exit, for op_start only if it did the init. *)
CoreStartFailed(c) ==
  /\ pc[c] = "exit_err"
  /\ IF c = "work" \/ prev[c] < INITIALIZED THEN ExitCore ELSE UNCHANGED status
  /\ BringUpFailed(c)
  /\ UNCHANGED <<handlers, mask, suspended, Works, iface, Locals>>

(* Unlock after success and reload the configuration. *)
CoreUp(c) ==
  /\ pc[c] = "up"
  /\ Release
  /\ iface' = IF c = "op" THEN "open" ELSE iface
  /\ Goto(c, "config")
  /\ UNCHANGED <<Device, Works, current, Locals>>

(***************************************************************************)
(* mac80211's calls.                                                       *)
(***************************************************************************)

(* b43_op_start() reads wl->current_dev before it takes the mutex. *)
OpStart ==
  /\ pc["op"] = "idle" /\ iface = "closed" /\ Within
  /\ dev' = [dev EXCEPT !["op"] = current]
  /\ Goto("op", "start_lock")
  /\ UNCHANGED <<mutex, Device, Works, current, iface, prev>>

OpStartLocked ==
  /\ pc["op"] = "start_lock"
  /\ Acquire("op")
  /\ prev' = [prev EXCEPT !["op"] = status]
  /\ \/ dev["op"] = NULL /\ Oops("op")
     \/ /\ dev["op"] # NULL
        /\ \/ status = UNINIT /\ Goto("op", "init")
           \/ status = INITIALIZED /\ Goto("op", "start")
           \/ status = STARTED /\ Goto("op", "up")
        /\ UNCHANGED <<Device, Works, current, iface>>
  /\ UNCHANGED dev

(* mac80211 closes the interface: it flushes its workqueue, then calls     *)
(* b43_op_stop(), which reads wl->current_dev before it takes the mutex.   *)
OpClose ==
  /\ pc["op"] = "idle" /\ iface = "open" /\ Within
  /\ Goto("op", "flush")
  /\ UNCHANGED <<mutex, Device, Works, current, iface, Locals>>

OpStop ==
  /\ pc["op"] = "flush"
  /\ pc["work"] = "idle" /\ queued = {}
  /\ dev' = [dev EXCEPT !["op"] = current]
  /\ \/ current # NULL /\ Goto("op", "stop_lock") /\ UNCHANGED iface
     \/ current = NULL /\ Goto("op", "idle") /\ iface' = "closed"
  /\ UNCHANGED <<mutex, Device, Works, current, prev>>

(* Entering core_stop drops the mutex at once, to cancel the works. *)
OpStopLocked ==
  /\ pc["op"] = "stop_lock" /\ mutex = "none"
  /\ IF status >= STARTED
       THEN Goto("op", "cancel") /\ UNCHANGED mutex
       ELSE Goto("op", "exit") /\ mutex' = "op"
  /\ UNCHANGED <<Device, Works, current, iface, Locals>>

(* mac80211 asks for a reconfiguration of an open interface. *)
OpConfig ==
  /\ pc["op"] = "idle" /\ iface = "open"
  /\ Goto("op", "config")
  /\ UNCHANGED <<mutex, Device, Works, current, iface, Locals>>

(* b43_op_config(), also called at the end of op_start and chip_reset: it  *)
(* reads wl->current_dev, locks, and suspends the MAC around its work.     *)
ConfigEnter(c) ==
  /\ pc[c] = "config"
  /\ dev' = [dev EXCEPT ![c] = current]
  /\ Goto(c, "config_lock")
  /\ UNCHANGED <<mutex, Device, Works, current, iface, prev>>

ConfigLocked(c) ==
  /\ pc[c] = "config_lock"
  /\ Acquire(c)
  /\ \/ dev[c] = NULL /\ Oops(c)
     \/ /\ dev[c] # NULL
        /\ MacSuspended
        /\ Goto(c, "config_body")
        /\ UNCHANGED <<status, handlers, mask, Works, current, iface>>
  /\ UNCHANGED Locals

ConfigDone(c) ==
  /\ pc[c] = "config_body"
  /\ MacEnabled
  /\ Release
  /\ Goto(c, "idle")
  /\ UNCHANGED <<status, handlers, mask, Works, current, iface, Locals>>

(***************************************************************************)
(* The workqueue: one work at a time.                                      *)
(***************************************************************************)
TimerFires ==
  /\ timer = "armed"
  /\ timer' = "off"
  /\ queued' = queued \union {"periodic"}
  /\ UNCHANGED <<mutex, Device, current, iface, pc, Locals>>

RunWork(w) ==
  /\ pc["work"] = "idle" /\ w \in queued
  /\ queued' = queued \ {w}
  /\ Goto("work", IF w = "restart" THEN "reset_lock" ELSE "periodic_lock")
  /\ UNCHANGED <<mutex, Device, timer, current, iface, Locals>>

(* b43_chip_reset(): dev comes from the work item, so it is never NULL. *)
ChipReset ==
  /\ pc["work"] = "reset_lock" /\ mutex = "none"
  /\ prev' = [prev EXCEPT !["work"] = status]
  /\ dev' = [dev EXCEPT !["work"] = Core]
  /\ \/ status = STARTED /\ Goto("work", "cancel") /\ UNCHANGED mutex
     \/ status = INITIALIZED /\ Goto("work", "exit") /\ mutex' = "work"
     \/ status = UNINIT /\ Goto("work", "config") /\ UNCHANGED mutex
  /\ UNCHANGED <<Device, Works, current, iface>>

LockWork ==
  /\ pc["work"] = "periodic_lock"
  /\ Acquire("work")
  /\ Goto("work", "periodic_body")
  /\ UNCHANGED <<Device, Works, current, iface, Locals>>

(* Every fourth run of a started core checks the transmit power, and the   *)
(* calibration this may run reserves the medium with the MAC running: it   *)
(* enables a MAC that the periodic work has not suspended.  One            *)
(* reservation stands for the two of a calibration; those of the check in  *)
(* b43_op_config() are made inside its own suspend and are left out.       *)
PowerCheck ==
  /\ pc["work"] = "periodic_body" /\ status = STARTED
  /\ MacEnabled
  /\ Goto("work", "reserve")
  /\ UNCHANGED <<mutex, status, handlers, mask, Works, current, iface, Locals>>

(* b43_periodic_work_handler(): suspends the MAC again after a reservation *)
(* and re-arms itself; the firmware watchdog may ask for a reset.          *)
PeriodicWork ==
  /\ \/ pc["work"] = "periodic_body" /\ UNCHANGED suspended
     \/ pc["work"] = "reserve" /\ MacSuspended
  /\ timer' = IF status = STARTED THEN "armed" ELSE timer
  /\ \/ UNCHANGED queued
     \/ status = STARTED /\ ControllerRestart
  /\ Release
  /\ Goto("work", "idle")
  /\ UNCHANGED <<status, handlers, mask, current, iface, Locals>>

(***************************************************************************)
(* Interrupts.                                                             *)
(***************************************************************************)

(* b43_interrupt_handler(): masks the device and wakes the thread. *)
HardIrq ==
  /\ pc["irq"] = "idle"
  /\ handlers > 0 /\ mask # 0 /\ status = STARTED
  /\ mask' = 0
  /\ Goto("irq", "irq_lock")
  /\ UNCHANGED <<mutex, status, handlers, suspended, Works, current, iface, Locals>>

LockIrq ==
  /\ pc["irq"] = "irq_lock"
  /\ Acquire("irq")
  /\ Goto("irq", "irq_body")
  /\ UNCHANGED <<Device, Works, current, iface, Locals>>

ThreadRuns == status = STARTED

(* b43_do_interrupt_thread(): unmasks the device again, except when a      *)
(* fatal DMA error makes it return early after asking for a reset.         *)
IrqThread ==
  /\ pc["irq"] = "irq_body"
  /\ \/ ~ThreadRuns /\ UNCHANGED <<mask, queued>>
     \/ ThreadRuns /\ mask' = IrqMask /\ (UNCHANGED queued \/ ControllerRestart)
     \/ ThreadRuns /\ ControllerRestart /\ UNCHANGED mask
  /\ Release
  /\ Goto("irq", "idle")
  /\ UNCHANGED <<status, handlers, suspended, timer, current, iface, Locals>>

(***************************************************************************)
(* Specification.                                                          *)
(***************************************************************************)
Init ==
  /\ mutex = "none"
  /\ status = UNINIT
  /\ current = Core
  /\ handlers = 0
  /\ mask = 0
  /\ suspended = 0
  /\ timer = "off"
  /\ queued = {}
  /\ iface = "closed"
  /\ pc = [t \in Threads |-> "idle"]
  /\ dev = [c \in Callers |-> NULL]
  /\ prev = [c \in Callers |-> UNINIT]

CallerStep(c) ==
  \/ StopCancel(c) \/ StopRelock(c) \/ StopFreeIrq(c) \/ StopFinish(c)
  \/ CoreExit(c) \/ CoreInit(c) \/ CoreStart(c) \/ CoreStartFailed(c) \/ CoreUp(c)
  \/ ConfigEnter(c) \/ ConfigLocked(c) \/ ConfigDone(c)

OpStep == CallerStep("op") \/ OpStartLocked \/ OpStop \/ OpStopLocked

WorkStep ==
  \/ CallerStep("work")
  \/ \E w \in queued : RunWork(w)
  \/ ChipReset \/ LockWork \/ PowerCheck \/ PeriodicWork

IrqStep == LockIrq \/ IrqThread

Next ==
  \/ OpStart \/ OpClose \/ OpConfig
  \/ OpStep \/ WorkStep \/ IrqStep
  \/ TimerFires \/ HardIrq

Spec == Init /\ [][Next]_vars

(* A thread inside the driver keeps running; the mutex is handed to its    *)
(* waiters in turn and the workqueue is served in order, so a waiter and a *)
(* queued work are not overtaken for ever.  Nobody owes the driver a call, *)
(* an interrupt or a timer.                                                *)
Fairness ==
  /\ SF_vars(OpStep)
  /\ SF_vars(WorkStep)
  /\ SF_vars(RunWork("restart"))
  /\ SF_vars(IrqStep)

FairSpec == Spec /\ Fairness

(***************************************************************************)
(* Type invariant.                                                         *)
(***************************************************************************)

(* Every variable ranges over what the C types and the code's labels allow; *)
(* the count of handlers never drops below zero.                            *)
TypeOK ==
  /\ mutex \in Threads \union {"none"}
  /\ status \in {UNINIT, INITIALIZED, STARTED}
  /\ current \in {Core, NULL}
  /\ handlers \in Nat
  /\ mask \in {0, IrqMask}
  /\ suspended \in Int
  /\ timer \in {"armed", "off"}
  /\ queued \subseteq {"restart", "periodic"}
  /\ iface \in {"open", "closed"}
  /\ pc \in [Threads -> StopPCs \union LockedPCs \union OpenPCs]
  /\ dev \in [Callers -> {Core, NULL}]
  /\ prev \in [Callers -> {UNINIT, INITIALIZED, STARTED}]

(***************************************************************************)
(* Safety.                                                                 *)
(***************************************************************************)

(* wl->mutex is held by exactly the thread that stands in a section that   *)
(* needs it: core_stop's unlock windows hand it over and take it back.     *)
MutexHeldInside ==
  \A t \in Threads : pc[t] \in LockedPCs <=> mutex = t

One(b) == IF b THEN 1 ELSE 0

(* Handlers that some free_irq() in progress or the started core needs. *)
HandlersDue ==
  One(pc["op"] = "free_irq") + One(pc["work"] = "free_irq") + One(status = STARTED)

(* A started core has an interrupt handler that no core_stop is about to   *)
(* free, and each free_irq() in progress has one of its own to free,       *)
(* whatever op_stop and chip_reset do to each other.                       *)
HandlersCover == handlers >= HandlersDue

(* No handler leaks: request_irq and free_irq balance over every start,    *)
(* stop and restart.                                                       *)
HandlersExact == handlers <= HandlersDue

(* b43_wireless_core_init's B43_WARN_ON(b43_status(dev) != UNINIT).        *)
InitFromUninit == \A c \in Callers : pc[c] = "init" => status = UNINIT

(* b43_wireless_core_exit's B43_WARN_ON(b43_status(dev) > INITIALIZED).    *)
ExitAfterStop == \A c \in Callers : pc[c] \in {"exit", "exit_err"} => status # STARTED

(* b43_wireless_core_start's B43_WARN_ON(b43_status(dev) != INITIALIZED).  *)
StartFromInit == \A c \in Callers : pc[c] = "start" => status = INITIALIZED

(* core_stop's B43_WARN_ON(mask): when it takes the mutex again after      *)
(* free_irq() nobody has unmasked the device.                              *)
MaskClearAfterFree ==
  \A c \in Callers : pc[c] = "relock2" /\ mutex = "none" /\ current # NULL => mask = 0

(* A closed interface leaves nothing behind: the core is down, without a   *)
(* handler, an armed timer or a queued work.                               *)
ClosedIsDown ==
  pc["op"] = "idle" /\ iface = "closed" =>
    /\ status = UNINIT /\ handlers = 0 /\ mask = 0
    /\ timer = "off" /\ queued = {} /\ pc["work"] = "idle"

(* b43_op_config() programs only a core that has been brought up: it runs  *)
(* after op_start, and after chip_reset has succeeded.                     *)
ConfigOnlyWhenUp ==
  \A c \in Callers : pc[c] = "config_body" => status >= INITIALIZED

(* b43_mac_enable's and b43_mac_suspend's B43_WARN_ON(mac_suspended < 0)   *)
(* fires at one place only: between the two calls with which a calibration *)
(* of the periodic work reserves the medium, and there the count is -1.    *)
SuspendCountBounded ==
  IF pc["work"] = "reserve" THEN suspended = -1 ELSE suspended >= 0

(* The device a holder of the mutex works on is still the current one.     *)
DeviceIsCurrent ==
  \A c \in Callers : pc[c] = "config_body" => dev[c] = current

(* mac_suspend and mac_enable balance: with the mutex free, the MAC of a   *)
(* started core runs.                                                      *)
MacRunsWhenStarted == mutex = "none" /\ status = STARTED => suspended = 0

(* periodic_tasks_setup() re-initialises a work that must not be pending.  *)
NoPendingReinit ==
  \A c \in Callers : pc[c] = "start" => timer = "off" /\ "periodic" \notin queued

(***************************************************************************)
(* Why the above holds when no reset is asked for during a stop: op_stop   *)
(* and op_start never overlap a restart, so the status follows from where  *)
(* the one thread that is changing it stands.                              *)
(***************************************************************************)
RunningPCs == {"cancel", "relock", "up"}
HaltedPCs == {"free_irq", "relock2", "exit", "start", "exit_err"}
StartPCs == {"init", "start", "exit_err", "up"}
OpStartPCs == {"start_lock"} \union StartPCs
OpStopPCs == {"stop_lock", "exit"} \union StopPCs

ResetActive ==
  "restart" \in queued \/ pc["work"] \notin {"idle"} \union PeriodicPCs

(* A restart is queued or runs only while mac80211 leaves the core alone. *)
Exclusive == ResetActive => iface = "open" /\ pc["op"] \notin OpStartPCs \union OpStopPCs

(* mac80211's view of the interface follows the place of its thread. *)
OpenedByOp ==
  /\ pc["op"] \in OpStartPCs => iface = "closed"
  /\ pc["op"] \notin {"idle", "oops"} \union OpStartPCs => iface = "open"

StatusByPlace ==
  /\ \A c \in Callers :
       /\ pc[c] \in RunningPCs => status = STARTED
       /\ pc[c] \in HaltedPCs => status = INITIALIZED
       /\ pc[c] = "init" => status = UNINIT
  /\ pc["op"] = "stop_lock" => status = STARTED
  /\ pc["op"] = "start_lock" \/ (pc["op"] = "idle" /\ iface = "closed") => status = UNINIT
  /\ status = INITIALIZED => \E c \in Callers : pc[c] \in HaltedPCs
  /\ status = UNINIT => pc["work"] = "init" \/ current = NULL \/ iface = "closed"

(* wl->current_dev is given up only with the core down. *)
CurrentWhileUp ==
  /\ current = NULL => status = UNINIT /\ pc["work"] # "init"
                     /\ pc["op"] \notin StartPCs \union {"stop_lock"}
  /\ pc["op"] = "start_lock" => dev["op"] = current

PrevByPlace ==
  /\ pc["work"] \in StopPCs \union StartPCs \union {"exit"} => prev["work"] = STARTED
  /\ pc["op"] \in StartPCs => prev["op"] = UNINIT

IrqByStatus ==
  /\ status # STARTED => mask = 0
  /\ pc["irq"] # "idle" => handlers > 0

PeriodicByStatus ==
  timer = "armed" \/ "periodic" \in queued \/ pc["work"] \in PeriodicPCs =>
    status = STARTED /\ \A c \in Callers : pc[c] # "relock"

(* The suspends the threads owe an enable for, less the enable that the    *)
(* reservation of the medium made on its own account.                      *)
Suspends ==
  One(pc["op"] = "config_body") + One(pc["work"] = "config_body")
    - One(pc["work"] = "reserve")

SuspendByPlace ==
  /\ suspended >= Suspends
  /\ status = STARTED => suspended = Suspends
  /\ \A c \in Callers : pc[c] = "start" => suspended = 1

(* The inductive invariant of the quiet environment: op_start, op_stop and *)
(* chip_reset hand the core to each other without overlapping.             *)
QuietInv ==
  /\ TypeOK /\ MutexHeldInside /\ HandlersCover /\ HandlersExact
  /\ Exclusive /\ OpenedByOp /\ StatusByPlace /\ CurrentWhileUp /\ PrevByPlace
  /\ IrqByStatus /\ PeriodicByStatus /\ SuspendByPlace

(***************************************************************************)
(* Liveness.                                                               *)
(***************************************************************************)

(* A thread that died on a NULL dev keeps wl->mutex for ever. *)
Dead == \E t \in Threads : pc[t] = "oops"

(* mac80211 gets its answer: a stop completes, although core_stop waits    *)
(* for handlers and works that themselves wait for wl->mutex.              *)
StopCompletes == pc["op"] = "flush" ~> pc["op"] = "idle" \/ Dead

(* Masked interrupts of a started core come back, by the thread or by the  *)
(* restart it asked for.                                                   *)
InterruptsComeBack == (status = STARTED /\ mask = 0) ~> (mask # 0 \/ status = UNINIT \/ Dead)

(* A queued restart brings the core up again, fails and gives the device   *)
(* up, or is overtaken by a stop.                                          *)
RestartServed ==
  "restart" \in queued ~>
    (pc["work"] = "up" /\ status = STARTED) \/ current = NULL \/ iface = "closed" \/ Dead
============================================================================
