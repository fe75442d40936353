---------------------------- MODULE TraceBuffer -----------------------------
(***************************************************************************)
(* wl-diag: the records of the tracer between emit() and a read() of       *)
(* /proc/wl_diag.  The tracer for kernel 3.4 keeps them in a kfifo, the    *)
(* one for 2.6.30 in a ring of its own; both are an array between two      *)
(* counters that run on and wrap.                                          *)
(*                                                                         *)
(* A record has the number emit() gave it.  The number is taken before the *)
(* buffer's lock, so that two records may be stored in the other order.    *)
(***************************************************************************)
EXTENDS Naturals, Sequences

CONSTANTS
  FifoRecs,   (* FIFO_RECS, a power of two                                    *)
  RecSize,    (* sizeof(struct wldiag_rec), which 3.4 takes for a count       *)
  Counters    (* how many values a counter has (2^32), more than FifoRecs     *)

ASSUME BufferAssumption ==
  /\ FifoRecs \in Nat \ {0} /\ RecSize \in 1..FifoRecs
  /\ Counters \in Nat /\ Counters > FifoRecs /\ Counters % FifoRecs = 0

VARIABLES
  fifo,      (* "kfifo" or "ring"                                             *)
  slots,     (* the array of records                                          *)
  head,      (* ring_head, kfifo's in                                         *)
  tail,      (* ring_tail, kfifo's out                                        *)
  seqno,     (* seq: numbers given so far                                     *)
  drops,     (* drops: records that found no room and were not reported       *)
  reader,    (* a read(): "out", "asking", "waiting"                          *)
  stored,    (* history: the numbers stored, in order                         *)
  got,       (* history: the numbers taken out, in order                      *)
  reported   (* history: drops a read() has taken up                          *)

bufferVars == <<fifo, slots, head, tail, seqno, drops, reader, stored, got, reported>>

Fill == (head + Counters - tail) % Counters

(* The ring takes a record while there is room for one, the kfifo, whose    *)
(* free slots are compared with a size in bytes, while there is for RecSize.*)
KfifoRoom == FifoRecs - Fill >= RecSize
RingRoom == Fill < FifoRecs

(* atomic_inc_return(&seq)                                                  *)
TakeNumber == seqno' = seqno + 1

(* emit() under fifo_lock; the number 0 is that of a filtered read, which   *)
(* never gets here.                                                         *)
Put(n) ==
  /\ slots' = [slots EXCEPT ![head % FifoRecs] = n]
  /\ head' = (head + 1) % Counters
  /\ stored' = Append(stored, n)

Stays == UNCHANGED <<slots, head, stored>>

DropForgotten(n) ==
  /\ IF RingRoom THEN Put(n) ELSE Stays
  /\ UNCHANGED <<drops, fifo, tail, reader, got, reported>>

StoreRing(n) ==
  /\ IF RingRoom THEN Put(n) /\ UNCHANGED drops ELSE Stays /\ drops' = drops + 1
  /\ UNCHANGED <<fifo, tail, reader, got, reported>>

StoreKfifo(n) ==
  /\ IF KfifoRoom THEN Put(n) /\ UNCHANGED drops ELSE Stays /\ drops' = drops + 1
  /\ UNCHANGED <<fifo, tail, reader, got, reported>>

Store(n) == IF fifo = "kfifo" THEN StoreKfifo(n) ELSE StoreRing(n)

(* wd_read: drops are reported before anything else; copying may fail, but  *)
(* what was to be copied is taken already.                                  *)
ReadDrops ==
  /\ reader = "out"
  /\ drops' = 0 /\ reported' = reported + drops
  /\ reader' = IF drops > 0 THEN "out" ELSE "asking"
  /\ UNCHANGED <<fifo, slots, head, tail, seqno, stored, got>>

ReadRecord ==
  /\ reader = "asking" /\ Fill > 0
  /\ got' = Append(got, slots[tail % FifoRecs])
  /\ tail' = (tail + 1) % Counters
  /\ reader' = "out"
  /\ UNCHANGED <<fifo, slots, head, seqno, drops, stored, reported>>

(* An empty buffer: -EAGAIN, or the wait queue.                             *)
ReadNothing ==
  /\ reader = "asking" /\ Fill = 0
  /\ reader' \in {"out", "waiting"}
  /\ UNCHANGED <<fifo, slots, head, tail, seqno, drops, stored, got, reported>>

(* Woken with drops to report, the read returns 0, which a reader takes for *)
(* the end; a signal ends it too.                                           *)
ReadWoken ==
  /\ reader = "waiting"
  /\ \/ drops > 0 /\ reader' = "out"
     \/ drops = 0 /\ Fill > 0 /\ reader' = "asking"
     \/ reader' = "out"
  /\ UNCHANGED <<fifo, slots, head, tail, seqno, drops, stored, got, reported>>

Reading == ReadDrops \/ ReadRecord \/ ReadNothing \/ ReadWoken

BufferInit ==
  /\ fifo \in {"kfifo", "ring"}
  /\ slots = [i \in 0..(FifoRecs - 1) |-> 0] /\ head = 0 /\ tail = 0
  /\ seqno = 0 /\ drops = 0 /\ reader = "out"
  /\ stored = <<>> /\ got = <<>> /\ reported = 0

(* What is in the buffer, oldest first.                                     *)
Contents == [i \in 1..Fill |-> slots[(tail + i - 1) % FifoRecs]]
=============================================================================
