------------------------------ MODULE IrqPath ------------------------------
(***************************************************************************)
(* The way of an interrupt through b43/main.c: the device's reason and     *)
(* mask registers, the hard handler that saves the reason and masks the    *)
(* device, the thread that serves it and unmasks, and the two others that  *)
(* write the mask: bringing the core up or down, and the beacon trigger    *)
(* work.                                                                   *)
(*                                                                         *)
(* wl->hardirq_lock makes each body that holds it one step.  wl->mutex is  *)
(* kept over more than one step in two places only, the thread and the end *)
(* of core_start (MutexFree).                                              *)
(*                                                                         *)
(* A definition directly above another and named for what it gets wrong is *)
(* a seeded fault, as in CoreLifecycle.                                    *)
(***************************************************************************)
EXTENDS Integers

CONSTANTS
  Events,       (* the reasons the device reports: "TX_OK", "PHY_TXERR",       *)
                (* "FATAL" (a DMA interrupt with a fatal error), "BEACON"      *)
  SharedLine,   (* whether another device raises the same line (IRQF_SHARED)   *)
  Limit         (* B43_PHY_TX_BADNESS_LIMIT                                    *)

ASSUME SharedLineAssumption == SharedLine \in BOOLEAN
ASSUME LimitAssumption == Limit \in Nat \ {0}

VARIABLES
  status,   (* dev->__init_status                                    *)
  raw,      (* B43_MMIO_GEN_IRQ_REASON                               *)
  hwmask,   (* B43_MMIO_GEN_IRQ_MASK                                 *)
  irqMask,  (* dev->irq_mask                                         *)
  saved,    (* dev->irq_reason                                       *)
  woken,    (* the kernel's request that the thread run: "yes", "no" *)
  taken,    (* the thread's local reason                             *)
  txerr,    (* dev->phy.txerr_cnt                                    *)
  restart,  (* restart_work: "queued" or "none"                      *)
  hpc,      (* the hard handler: "idle" or "body"                    *)
  tpc,      (* the thread: "idle", "lock" or "serve"                 *)
  cpc       (* who brings the core up and down                       *)

vars == <<status, raw, hwmask, irqMask, saved, woken, taken, txerr, restart,
          hpc, tpc, cpc>>

UNINIT == 0
INITIALIZED == 1
STARTED == 2

(* B43_IRQ_MASKTEMPLATE has every reason the thread serves but the beacon. *)
Template == Events \ {"BEACON"}

MutexFree == tpc # "serve" /\ cpc # "unmask"

Registers == <<raw, hwmask, irqMask>>

(***************************************************************************)
(* The device.                                                             *)
(***************************************************************************)
Raise(e) ==
  /\ cpc # "down"
  /\ raw' = raw \union {e}
  /\ UNCHANGED <<status, hwmask, irqMask, saved, woken, taken, txerr, restart, hpc, tpc, cpc>>

LineAsserted == SharedLine \/ raw \intersect hwmask # {}

(***************************************************************************)
(* b43_interrupt_handler() and b43_do_interrupt().                         *)
(***************************************************************************)

(* The status is checked before wl->hardirq_lock is taken. *)
InterruptHandler ==
  /\ hpc = "idle" /\ LineAsserted
  /\ cpc \in {"unmask", "run"} /\ status = STARTED
  /\ hpc' = "body"
  /\ UNCHANGED <<status, Registers, saved, woken, taken, txerr, restart, tpc, cpc>>

MaskForgotten == UNCHANGED hwmask
MaskDevice == hwmask' = {}

(* Acknowledge the wanted reasons, mask the device, wake the thread. *)
DoInterrupt ==
  /\ hpc = "body"
  /\ hpc' = "idle"
  /\ LET reason == raw \intersect irqMask IN
       \/ reason = {} /\ UNCHANGED <<raw, hwmask, saved, woken>>
       \/ /\ reason # {}
          /\ raw' = raw \ reason
          /\ MaskDevice
          /\ saved' = reason
          /\ woken' = "yes"
  /\ UNCHANGED <<status, irqMask, taken, txerr, restart, tpc, cpc>>

(***************************************************************************)
(* b43_interrupt_thread_handler() and b43_do_interrupt_thread().           *)
(***************************************************************************)
ThreadWakes ==
  /\ tpc = "idle" /\ woken = "yes"
  /\ woken' = "no"
  /\ tpc' = "lock"
  /\ UNCHANGED <<status, Registers, saved, taken, txerr, restart, hpc, cpc>>

ThreadTakes ==
  /\ tpc = "lock" /\ MutexFree
  /\ \/ status # STARTED /\ tpc' = "idle" /\ UNCHANGED taken
     \/ status = STARTED /\ tpc' = "serve" /\ taken' = saved
  /\ UNCHANGED <<status, Registers, saved, woken, txerr, restart, hpc, cpc>>

(* handle_irq_beacon(): in a mode that beacons it wants the beacon         *)
(* interrupt only while both templates are busy, and then raises it.       *)
HandleBeacon ==
  \/ UNCHANGED <<irqMask, raw>>
  \/ irqMask' = irqMask \ {"BEACON"} /\ UNCHANGED raw
  \/ /\ "BEACON" \in Events
     /\ irqMask' = irqMask \union {"BEACON"}
     /\ raw' = raw \union {"BEACON"}

Serve ==
  /\ IF "BEACON" \in taken THEN HandleBeacon ELSE UNCHANGED <<irqMask, raw>>
  /\ hwmask' = irqMask'

(* atomic_dec_and_test() of the error budget, and its reload. *)
CountTxError ==
  txerr' = IF "PHY_TXERR" \notin taken THEN txerr
           ELSE IF txerr = 1 THEN Limit ELSE txerr - 1

FatalIgnored == "PHY_TXERR" \in taken /\ txerr = 1

WantsRestart == "FATAL" \in taken \/ ("PHY_TXERR" \in taken /\ txerr = 1)

(* A fatal DMA error ends the thread early: the device stays masked. *)
ThreadServes ==
  /\ tpc = "serve"
  /\ CountTxError
  /\ restart' = IF WantsRestart THEN "queued" ELSE restart
  /\ IF "FATAL" \in taken THEN UNCHANGED Registers ELSE Serve
  /\ taken' = {}
  /\ tpc' = "idle"
  /\ UNCHANGED <<status, saved, woken, hpc, cpc>>

(***************************************************************************)
(* b43_beacon_update_trigger_work(), under both locks.                     *)
(***************************************************************************)
TriggerAlwaysWrites ==
  /\ MutexFree /\ status >= INITIALIZED
  /\ HandleBeacon
  /\ hwmask' = irqMask'
  /\ UNCHANGED <<status, saved, woken, taken, txerr, restart, hpc, tpc, cpc>>

BeaconTriggerWork ==
  /\ MutexFree /\ status >= INITIALIZED
  /\ HandleBeacon
  /\ hwmask' = IF irqMask' # irqMask /\ hwmask # {} THEN irqMask' ELSE hwmask
  /\ UNCHANGED <<status, saved, woken, taken, txerr, restart, hpc, tpc, cpc>>

(* b43_periodic_every15sec() grants a new budget of PHY TX errors. *)
PeriodicEvery15sec ==
  /\ MutexFree /\ status = STARTED
  /\ txerr' = Limit
  /\ UNCHANGED <<status, Registers, saved, woken, taken, restart, hpc, tpc, cpc>>

(***************************************************************************)
(* core_init with core_start, and core_stop with core_exit.                *)
(***************************************************************************)

(* The registers are reset and the handler registered; the status is set   *)
(* before the mask is written.                                             *)
CoreStart ==
  /\ cpc = "down" /\ MutexFree
  /\ status' = STARTED
  /\ raw' = {} /\ saved' = {} /\ irqMask' = Template /\ txerr' = Limit
  /\ restart' = "none"
  /\ cpc' = "unmask"
  /\ UNCHANGED <<hwmask, woken, taken, hpc, tpc>>

CoreStartUnmasks ==
  /\ cpc = "unmask"
  /\ hwmask' = irqMask
  /\ cpc' = "run"
  /\ UNCHANGED <<status, raw, irqMask, saved, woken, taken, txerr, restart, hpc, tpc>>

CoreStop ==
  /\ cpc = "run" /\ MutexFree
  /\ status' = INITIALIZED
  /\ hwmask' = {}
  /\ cpc' = "free_irq"
  /\ UNCHANGED <<raw, irqMask, saved, woken, taken, txerr, restart, hpc, tpc>>

FreeIrqDoesNotWait ==
  /\ cpc = "free_irq"
  /\ cpc' = "exit"
  /\ UNCHANGED <<status, Registers, saved, woken, taken, txerr, restart, hpc, tpc>>

(* free_irq() waits for the hard handler and for the thread. *)
FreeIrq ==
  /\ cpc = "free_irq"
  /\ hpc = "idle" /\ tpc = "idle" /\ woken = "no"
  /\ cpc' = "exit"
  /\ UNCHANGED <<status, Registers, saved, woken, taken, txerr, restart, hpc, tpc>>

CoreExit ==
  /\ cpc = "exit" /\ MutexFree
  /\ status' = UNINIT
  /\ cpc' = "down"
  /\ UNCHANGED <<Registers, saved, woken, taken, txerr, restart, hpc, tpc>>

(***************************************************************************)
(* Specification.                                                          *)
(***************************************************************************)
Init ==
  /\ status = UNINIT
  /\ raw = {} /\ hwmask = {} /\ irqMask = Template /\ saved = {}
  /\ woken = "no" /\ taken = {}
  /\ txerr = Limit /\ restart = "none"
  /\ hpc = "idle" /\ tpc = "idle" /\ cpc = "down"

Thread == ThreadWakes \/ ThreadTakes \/ ThreadServes

Next ==
  \/ \E e \in Events : Raise(e)
  \/ InterruptHandler \/ DoInterrupt
  \/ Thread
  \/ BeaconTriggerWork \/ PeriodicEvery15sec
  \/ CoreStart \/ CoreStartUnmasks \/ CoreStop \/ FreeIrq \/ CoreExit

Spec == Init /\ [][Next]_vars

(* The kernel runs the handler of an asserted line and the thread that was *)
(* woken, which is not overtaken for ever at wl->mutex; core_start returns; *)
(* a queued restart is run, which is CoreStop and what follows it.         *)
Fairness ==
  /\ WF_vars(InterruptHandler) /\ WF_vars(DoInterrupt)
  /\ SF_vars(Thread)
  /\ WF_vars(CoreStartUnmasks)
  /\ SF_vars(restart = "queued" /\ CoreStop)

FairSpec == Spec /\ Fairness

(***************************************************************************)
(* Properties.                                                             *)
(***************************************************************************)

(* The registers hold reasons, and the count of PHY TX errors stays        *)
(* between 1 and the limit: at zero it would never ask for a restart again. *)
TypeOK ==
  /\ status \in {UNINIT, INITIALIZED, STARTED}
  /\ raw \subseteq Events /\ hwmask \subseteq Events /\ irqMask \subseteq Events
  /\ saved \subseteq Events /\ taken \subseteq Events
  /\ woken \in {"yes", "no"} /\ restart \in {"queued", "none"}
  /\ txerr \in 1..Limit
  /\ hpc \in {"idle", "body"} /\ tpc \in {"idle", "lock", "serve"}
  /\ cpc \in {"down", "unmask", "run", "free_irq", "exit"}

Pending == woken = "yes" \/ tpc # "idle"

(* From the hard handler to the end of the thread the device stays masked, *)
(* whatever the beacon trigger work does: "Writing the mask _here_ would   *)
(* incorrectly re-enable IRQs."                                            *)
MaskedWhilePending == Pending => hwmask = {}

(* The device's mask is the driver's, or zero: no writer leaves it behind. *)
MaskInSync == hwmask = {} \/ hwmask = irqMask

(* Once core_stop has set the status the device stays masked, and once     *)
(* free_irq() has returned no handler runs or waits to run.                *)
StoppedIsSilent ==
  /\ status # STARTED => hwmask = {}
  /\ cpc \in {"exit", "down"} => hpc = "idle" /\ ~Pending

(* The hard handler saves the reasons in one word; it does not overwrite   *)
(* reasons the thread has not read yet.                                    *)
ReasonsKept ==
  [][Pending /\ tpc # "serve" /\ status = STARTED => saved \subseteq saved']_vars

(* The inductive invariant when the line is the device's own.              *)
IrqInv ==
  /\ TypeOK /\ MaskInSync /\ MaskedWhilePending /\ StoppedIsSilent
  /\ hpc = "body" => ~Pending
  /\ status = STARTED <=> cpc \in {"unmask", "run"}
  /\ cpc = "unmask" => hwmask = {} /\ hpc = "idle" /\ ~Pending
  /\ tpc = "serve" => status = STARTED
  /\ tpc # "serve" => taken = {}
  /\ tpc # "idle" => woken = "no"

(* The interrupt path seen from outside: what the device reports waits for *)
(* the thread and is dropped only while the core is down.                  *)
Promise == INSTANCE IrqEvents WITH
  core <- IF status = STARTED THEN "up" ELSE "down",
  waiting <- raw \union (IF woken = "yes" \/ tpc = "lock" THEN saved ELSE {}),
  serving <- taken

EventsKept == Promise!Spec

(* A reason the driver wants is served, or the core goes down: also after  *)
(* a fatal DMA error, which leaves the device masked until the restart.    *)
EventServed ==
  \A e \in Template : (status = STARTED /\ e \in raw) ~> (e \notin raw \/ status # STARTED)
============================================================================
