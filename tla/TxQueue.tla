------------------------------ MODULE TxQueue ------------------------------
(***************************************************************************)
(* The transmit path of b43/main.c: b43_op_tx puts frames on the driver's  *)
(* queues without a lock, b43_tx_work moves them to the DMA rings under    *)
(* wl->mutex, transmit statuses free the rings, and a controller restart   *)
(* empties everything.  Three flags stop the flow: wl->tx_queue_stopped,   *)
(* mac80211's own queue state and the fill level of the ring.              *)
(*                                                                         *)
(* dma.c is not part of the repository; what it does with the flags is     *)
(* modelled from how main.c uses it and marked external.                   *)
(*                                                                         *)
(* A definition directly above another and named for what it gets wrong is *)
(* a seeded fault, as in CoreLifecycle.                                    *)
(***************************************************************************)
EXTENDS Integers

CONSTANTS
  Last,       (* B43_QOS_QUEUE_NUM - 1: the queues are 0..Last                *)
  Slots,      (* frames a DMA ring takes                                      *)
  Backlog,    (* bound: no op_tx while this many frames wait on its queue     *)
  MaxBad      (* bound: frames the ring refuses for good                      *)

ASSUME LastAssumption == Last \in Nat
(* With one slot, a frame refused after the only status would leave        *)
(* mac80211's queue stopped for good; the rings have many.                 *)
ASSUME SlotsAssumption == Slots \in Nat /\ Slots > 1
ASSUME BacklogAssumption == Backlog \in Nat \ {0}
ASSUME MaxBadAssumption == MaxBad \in Nat

Queues == 0..Last

Done == Last + 1

VARIABLES
  txq,         (* wl->tx_queue: frames waiting, per queue                      *)
  stopped,     (* wl->tx_queue_stopped: the queues whose flag is set           *)
  macStopped,  (* the queues mac80211 has been told to stop                    *)
  ring,        (* frames in flight on each DMA ring                            *)
  work,        (* wl->tx_work: "pending" or "none"                             *)
  wq,          (* the queue tx_work is at, holding wl->mutex, or Done          *)
  err,         (* tx_work's err: "ok" or "ENOSPC"                              *)
  txpc,        (* op_tx, per queue: "idle", "queued", "stop" or "oops"         *)
  rpc,         (* chip_reset: "idle", "stop", "drain", "start" or "failed"     *)
  up,          (* "up" while the status is STARTED, else "down"                *)
  bad,         (* frames refused so far                                        *)
  stale        (* history: "yes" once a flag has outlived the ring it was set  *)
               (* for, over a restart or between op_tx's test and its stop     *)

txVars == <<txq, stopped, macStopped, ring, work, wq, err, txpc, rpc, up,
            bad, stale>>

Chip == <<ring, up, rpc, bad>>
Worker == <<work, wq, err>>

(* wl->current_dev, which a failed restart clears. *)
CurrentDev == IF rpc = "failed" THEN "NULL" ELSE "dev"

(***************************************************************************)
(* b43_op_tx(): no lock but the queue's own.                               *)
(***************************************************************************)
OpTx(q) ==
  /\ txpc[q] = "idle" /\ q \notin macStopped
  /\ txq[q] < Backlog
  /\ txq' = [txq EXCEPT ![q] = @ + 1]
  /\ txpc' = [txpc EXCEPT ![q] = "queued"]
  /\ UNCHANGED <<Chip, Worker, stopped, macStopped, stale>>

(* The test of tx_queue_stopped, and the work if the queue runs. *)
OpTxTest(q) ==
  /\ txpc[q] = "queued"
  /\ \/ /\ q \notin stopped
        /\ work' = "pending"
        /\ txpc' = [txpc EXCEPT ![q] = "idle"]
     \/ /\ q \in stopped
        /\ txpc' = [txpc EXCEPT ![q] = "stop"]
        /\ UNCHANGED work
  /\ UNCHANGED <<Chip, txq, stopped, macStopped, wq, err, stale>>

(* b43_stop_queue() reads wl->current_dev. *)
OpTxStop(q) ==
  /\ txpc[q] = "stop"
  /\ \/ /\ CurrentDev = "NULL"
        /\ txpc' = [txpc EXCEPT ![q] = "oops"]
        /\ UNCHANGED <<macStopped, stale>>
     \/ /\ CurrentDev # "NULL"
        /\ macStopped' = macStopped \union {q}
        /\ stale' = IF q \in stopped THEN stale ELSE "yes"
        /\ txpc' = [txpc EXCEPT ![q] = "idle"]
  /\ UNCHANGED <<Chip, Worker, txq, stopped>>

(***************************************************************************)
(* b43_tx_work().                                                          *)
(***************************************************************************)
TxWork ==
  /\ work = "pending" /\ wq = Done /\ rpc \in {"idle", "failed"}
  /\ work' = "none"
  /\ err' = "ok"
  /\ wq' = IF up = "up" THEN 0 ELSE Done
  /\ UNCHANGED <<Chip, txq, stopped, macStopped, txpc, stale>>

(* b43_dma_tx() stops the queue when the frame fills the ring. *)
StopQueue(q) == stopped' = stopped \union {q} /\ macStopped' = macStopped \union {q}

HasRoom(q) == ring[q] < Slots

SendFrame(q) ==
  /\ wq = q /\ txq[q] > 0 /\ HasRoom(q)
  /\ txq' = [txq EXCEPT ![q] = @ - 1]
  /\ err' = "ok"
  /\ \/ /\ ring' = [ring EXCEPT ![q] = @ + 1]
        /\ IF ring'[q] = Slots THEN StopQueue(q) ELSE UNCHANGED <<stopped, macStopped>>
        /\ UNCHANGED bad
     \/ /\ bad < MaxBad
        /\ bad' = bad + 1
        /\ UNCHANGED <<ring, stopped, macStopped>>
  /\ UNCHANGED <<work, wq, txpc, rpc, up, stale>>

NextQueue == wq' = wq + 1

(* -ENOSPC: stop the queue and put the frame back at its head. *)
RingFull(q) ==
  /\ wq = q /\ txq[q] > 0 /\ ring[q] = Slots
  /\ err' = "ENOSPC"
  /\ StopQueue(q)
  /\ NextQueue
  /\ UNCHANGED <<Chip, txq, work, txpc, stale>>

ClearUnlessFull(q) == stopped' = IF err = "ok" THEN stopped \ {q} ELSE stopped

QueueDone(q) ==
  /\ wq = q /\ txq[q] = 0
  /\ ClearUnlessFull(q)
  /\ NextQueue
  /\ UNCHANGED <<Chip, txq, macStopped, work, err, txpc, stale>>

(***************************************************************************)
(* A transmit status, handled in the interrupt thread under wl->mutex.     *)
(***************************************************************************)
NeverWakes(q) == stopped' = stopped \ {q} /\ UNCHANGED macStopped

(* The driver's flag first; mac80211's queue only if that was clear. *)
RestartQueue(q) ==
  IF q \in stopped
    THEN stopped' = stopped \ {q} /\ UNCHANGED macStopped
    ELSE macStopped' = macStopped \ {q} /\ UNCHANGED stopped

QueueTxWorkForgotten == UNCHANGED work
QueueTxWork == work' = "pending"

TxStatus(q) ==
  /\ ring[q] > 0 /\ up = "up" /\ wq = Done
  /\ ring' = [ring EXCEPT ![q] = @ - 1]
  /\ RestartQueue(q)
  /\ QueueTxWork
  /\ UNCHANGED <<txq, wq, err, txpc, rpc, up, bad, stale>>

(***************************************************************************)
(* b43_chip_reset(), on the workqueue tx_work runs on.                     *)
(***************************************************************************)

(* core_stop cancels tx_work, wl->mutex released. *)
ResetCancels ==
  /\ rpc = "idle" /\ wq = Done
  /\ rpc' = "stop"
  /\ work' = "none"
  /\ UNCHANGED <<txq, stopped, macStopped, ring, wq, err, txpc, up, bad, stale>>

ResetStops ==
  /\ rpc = "stop"
  /\ up' = "down"
  /\ rpc' = "drain"
  /\ UNCHANGED <<Worker, txq, stopped, macStopped, ring, txpc, bad, stale>>

DrainTxQueues == txq' = [q \in Queues |-> 0]

(* core_stop drains the queues, core_exit frees the rings; then core_init  *)
(* and core_start wake mac80211's queues, or the restart fails.            *)
ResetDrains ==
  /\ rpc = "drain"
  /\ DrainTxQueues
  /\ ring' = [q \in Queues |-> 0]
  /\ rpc' = "start"
  /\ stale' = IF stopped = {} THEN stale ELSE "yes"
  /\ UNCHANGED <<Worker, stopped, macStopped, txpc, up, bad>>

ResetStarts ==
  /\ rpc = "start"
  /\ \/ /\ up' = "up"
        /\ rpc' = "idle"
        /\ macStopped' = {}
     \/ /\ macStopped' \in {{}, macStopped}
        /\ rpc' = "failed"
        /\ UNCHANGED up
  /\ UNCHANGED <<Worker, txq, stopped, ring, txpc, bad, stale>>

(***************************************************************************)
(* Specification.                                                          *)
(***************************************************************************)
TxInit ==
  /\ txq = [q \in Queues |-> 0]
  /\ stopped = {} /\ macStopped = {}
  /\ ring = [q \in Queues |-> 0]
  /\ work = "none" /\ wq = Done /\ err = "ok"
  /\ txpc = [q \in Queues |-> "idle"]
  /\ rpc = "idle" /\ up = "up"
  /\ bad = 0 /\ stale = "no"

Working == TxWork \/ \E q \in Queues : SendFrame(q) \/ RingFull(q) \/ QueueDone(q)

Resetting == ResetCancels \/ ResetStops \/ ResetDrains \/ ResetStarts

TxNext ==
  \/ \E q \in Queues : OpTx(q) \/ OpTxTest(q) \/ OpTxStop(q) \/ TxStatus(q)
  \/ Working \/ Resetting

TxSpec == TxInit /\ [][TxNext]_txVars

(* op_tx returns, the workqueue runs tx_work, and the device reports the   *)
(* status of every frame it has taken.                                     *)
TxFairness ==
  /\ \A q \in Queues : WF_txVars(OpTxTest(q) \/ OpTxStop(q)) /\ SF_txVars(TxStatus(q))
  /\ SF_txVars(Working)
  /\ WF_txVars(ResetStops \/ ResetDrains \/ ResetStarts)

TxFairSpec == TxSpec /\ TxFairness

(***************************************************************************)
(* Properties.                                                             *)
(***************************************************************************)

(* Counters stay within their queues and rings. *)
TxTypeOK ==
  /\ txq \in [Queues -> 0..Backlog] /\ ring \in [Queues -> 0..Slots]
  /\ stopped \subseteq Queues /\ macStopped \subseteq Queues
  /\ work \in {"pending", "none"} /\ wq \in 0..Done
  /\ err \in {"ok", "ENOSPC"}
  /\ txpc \in [Queues -> {"idle", "queued", "stop", "oops"}]
  /\ rpc \in {"idle", "stop", "drain", "start", "failed"}
  /\ up \in {"up", "down"}

Running == rpc = "idle" /\ up = "up"

(* Somebody will look at queue q again: tx_work, a transmit status that    *)
(* queues it, or an op_tx about to queue it.                               *)
Rescuer(q) ==
  \/ work = "pending" \/ wq <= q
  \/ ring[q] > 0
  \/ txpc[q] = "queued"

(* The driver's own flag is set only while the ring is full. *)
StoppedMeansFull == \A q \in stopped : ring[q] = Slots

(* No frame is forgotten and no queue stays stopped: while the core runs,  *)
(* a queue with frames has somebody to move them on, and a queue mac80211  *)
(* was told to stop has a frame whose status wakes it.  "Start data flow   *)
(* (TX/RX)" promises it of a restarted core too.                           *)
DataFlows ==
  Running =>
    \A q \in Queues :
      /\ txq[q] > 0 => Rescuer(q)
      /\ q \in macStopped => ring[q] > 0 \/ (txq[q] > 0 /\ Rescuer(q))

(* As long as no flag has outlived its ring, data flows and a flag stands  *)
(* for a full ring.                                                        *)
FreshDataFlows == stale = "no" => DataFlows /\ StoppedMeansFull

(* A core that is down, or whose restart failed, is given no frames.       *)
DownSendsNothing == [][up = "down" => \A q \in Queues : ring'[q] <= ring[q]]_txVars

(* A queue with frames does not stand still: it grows, up to its bound, or *)
(* it is sent from, unless a flag is stale or a restart fails.             *)
QueueMoves ==
  \A q \in Queues, n \in 1..Backlog :
    txq[q] = n ~> txq[q] # n \/ stale = "yes" \/ rpc = "failed"

(* A stopped queue is woken again, with the same exceptions. *)
QueueWakes ==
  \A q \in Queues : q \in macStopped ~> q \notin macStopped \/ stale = "yes" \/ rpc = "failed"
============================================================================
