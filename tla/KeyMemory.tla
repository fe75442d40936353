----------------------------- MODULE KeyMemory -----------------------------
(***************************************************************************)
(* The hardware key memory of b43/main.c: b43_op_set_key and               *)
(* b43_op_update_tkip_key write keys, addresses and TKIP phase 1 keys into *)
(* shared memory, word by word and while the receiver goes on matching     *)
(* addresses against it; a controller restart clears the memory without    *)
(* telling mac80211.                                                       *)
(*                                                                         *)
(* The firmware decides where pairwise keys start and whether group keys   *)
(* have a copy for receiving (b43_new_kidx_api).                           *)
(*                                                                         *)
(* A definition directly above another and named for what it gets wrong is *)
(* a seeded fault, as in CoreLifecycle.                                    *)
(***************************************************************************)
EXTENDS Integers

CONSTANTS
  Stations,    (* addresses of peers                                           *)
  Keys,        (* mac80211's keys: records with the station they are for, the  *)
               (* algorithm and the key index                                  *)
  NrGroup,     (* B43_NR_GROUP_KEYS                                            *)
  NrPairwise,  (* B43_NR_PAIRWISE_KEYS                                         *)
  HwTkip       (* modparam_hwtkip                                              *)

Bcast == "bcast"
NoAddr == "none"

NoKey == [sta |-> NoAddr, alg |-> "NONE", idx |-> 0]

(* The phase 1 key of a slot whose iv32 of 0xffffffff no frame carries. *)
Initial == [sta |-> NoAddr, alg |-> "INITIAL", idx |-> 0]

ASSUME SlotsAssumption == NrGroup \in Nat \ {0} /\ NrPairwise \in Nat
ASSUME StationsAssumption == {Bcast, NoAddr} \intersect Stations = {}
ASSUME HwTkipAssumption == HwTkip \in BOOLEAN
ASSUME KeysAssumption ==
  Keys \subseteq [sta : Stations \union {Bcast}, alg : {"WEP", "TKIP", "AES"},
                  idx : 0..(NrGroup - 1)]

VARIABLES
  newApi,    (* b43_new_kidx_api(): "yes" or "no"                            *)
  conf,      (* dev->key[].keyconf, NoKey for NULL                           *)
  hwidx,     (* keyconf->hw_key_idx of every key                             *)
  uploaded,  (* the keys mac80211 believes to be in hardware                 *)
  block,     (* the algorithms in the key index block                        *)
  tek,       (* the keys in the key table                                    *)
  phase1,    (* whose TKIP phase 1 key and iv32 each slot has                *)
  rcmta,     (* the address each slot matches                                *)
  job,       (* the call that holds wl->mutex: what it writes, for which key *)
  at,        (* the slot it is writing                                       *)
  step,      (* what it writes next, or "idle"                               *)
  stray      (* history: "yes" once a slot was written for a key it does not *)
             (* hold                                                         *)

vars == <<newApi, conf, hwidx, uploaded, block, tek, phase1, rcmta, job, at, step, stray>>

Memory == <<block, tek, phase1, rcmta>>
Books == <<conf, hwidx, uploaded>>

Slots == 0..(2 * NrGroup + NrPairwise - 1)

PairStart == IF newApi = "yes" THEN NrGroup ELSE 2 * NrGroup
PairSlots == PairStart..(PairStart + NrPairwise - 1)

KidxToFw(i) == IF newApi = "no" /\ i >= NrGroup THEN i - NrGroup ELSE i

Pairwise(k) == k.sta # Bcast

(***************************************************************************)
(* Calls, which take wl->mutex.                                            *)
(***************************************************************************)
Begin(kind, k, i) ==
  /\ job' = [kind |-> kind, key |-> k, slot |-> i]
  /\ at' = i
  /\ step' = "zero"
  /\ UNCHANGED <<newApi, Books, Memory>>

(* mac80211 has one key per station, and one per index for groups. *)
SameUse(k, l) == k.sta = l.sta /\ (Pairwise(k) \/ k.idx = l.idx)

Empty(i) == conf[i] = NoKey

(* SET_KEY: the first empty slot for a pairwise key (none: -ENOSPC, the    *)
(* key stays in software), its own index for a group key; of TKIP keys     *)
(* only pairwise ones, and without hwtkip none.                            *)
SetKey(k) ==
  /\ step = "idle" /\ k \notin uploaded
  /\ \A l \in uploaded : ~SameUse(k, l)
  /\ \/ ~Pairwise(k) /\ k.alg # "TKIP" /\ Begin("set", k, k.idx)
     \/ /\ Pairwise(k) /\ (k.alg = "TKIP" => HwTkip)
        /\ \E i \in PairSlots :
             /\ Empty(i) /\ \A j \in PairSlots : Empty(j) => i <= j
             /\ Begin("set", k, i)
  /\ UNCHANGED stray

(* DISABLE_KEY. *)
DisableKey(k) ==
  /\ step = "idle" /\ k \in uploaded
  /\ Begin("clear", k, hwidx[k])
  /\ stray' = IF conf[hwidx[k]] \in {k, NoKey} THEN stray ELSE "yes"

(* b43_op_update_tkip_key(): a received frame brought a new iv32. *)
UpdateTkipKey(k) ==
  /\ HwTkip
  /\ step = "idle" /\ k \in uploaded /\ k.alg = "TKIP"
  /\ Begin("update", k, hwidx[k])
  /\ stray' = IF conf[hwidx[k]] = k THEN stray ELSE "yes"

(***************************************************************************)
(* do_key_write() and the writes of b43_op_update_tkip_key().              *)
(***************************************************************************)
Written == IF job.kind = "clear" THEN NoKey ELSE job.key

ZeroForgotten == UNCHANGED rcmta
ZeroMac == rcmta' = IF at \in PairSlots THEN [rcmta EXCEPT ![at] = NoAddr] ELSE rcmta

Zero ==
  /\ step = "zero"
  /\ ZeroMac
  /\ step' = "phase1"
  /\ UNCHANGED <<newApi, Books, block, tek, phase1, job, at, stray>>

Phase1Kept == UNCHANGED phase1
Phase1Written ==
  phase1' = IF at \notin PairSlots \/ ~HwTkip THEN phase1
            ELSE [phase1 EXCEPT ![at] = IF job.kind = "update" THEN job.key
                                        ELSE IF Written.alg = "TKIP" THEN Initial
                                        ELSE NoKey]

WritePhase1 ==
  /\ step = "phase1"
  /\ Phase1Written
  /\ step' = IF job.kind = "update" THEN "mac" ELSE "block"
  /\ UNCHANGED <<newApi, Books, block, tek, rcmta, job, at, stray>>

WriteBlock ==
  /\ step = "block"
  /\ block' = [block EXCEPT ![KidxToFw(at)] = Written.alg]
  /\ step' = "key"
  /\ UNCHANGED <<newApi, Books, tek, phase1, rcmta, job, at, stray>>

WriteTek ==
  /\ step = "key"
  /\ tek' = [tek EXCEPT ![at] = Written]
  /\ step' = "mac"
  /\ UNCHANGED <<newApi, Books, block, phase1, rcmta, job, at, stray>>

MacAddress == rcmta' = IF at \in PairSlots THEN [rcmta EXCEPT ![at] = Written.sta] ELSE rcmta

CopyForgotten == FALSE
CopyDue == newApi = "no" /\ at < NrGroup

(* The default key for receiving follows, if the firmware has one. *)
WriteCopy ==
  /\ step = "mac" /\ CopyDue
  /\ MacAddress
  /\ at' = at + NrGroup
  /\ step' = "zero"
  /\ UNCHANGED <<newApi, Books, block, tek, phase1, job, stray>>

IndexForgotten == UNCHANGED hwidx
IndexReported == hwidx' = [hwidx EXCEPT ![job.key] = job.slot]

(* The last write; then the driver's and mac80211's books. *)
WriteMac ==
  /\ step = "mac" /\ ~CopyDue
  /\ MacAddress
  /\ \/ /\ job.kind = "set"
        /\ IndexReported
        /\ conf' = [conf EXCEPT ![job.slot] = job.key]
        /\ uploaded' = uploaded \union {job.key}
     \/ /\ job.kind = "clear"
        /\ conf' = [conf EXCEPT ![job.slot] = NoKey]
        /\ uploaded' = uploaded \ {job.key}
        /\ UNCHANGED hwidx
     \/ job.kind = "update" /\ UNCHANGED Books
  /\ step' = "idle"
  /\ UNCHANGED <<newApi, block, tek, phase1, job, at, stray>>

(* b43_chip_reset(): core_init clears the key memory, the MAC not running, *)
(* and mac80211 keeps its keys.                                            *)
Restart ==
  /\ step = "idle"
  /\ conf' = [i \in Slots |-> NoKey]
  /\ block' = [i \in Slots |-> NoKey.alg]
  /\ tek' = [i \in Slots |-> NoKey]
  /\ phase1' = [i \in Slots |-> NoKey]
  /\ rcmta' = [i \in Slots |-> NoAddr]
  /\ UNCHANGED <<newApi, hwidx, uploaded, job, at, step, stray>>

(***************************************************************************)
(* Specification.                                                          *)
(***************************************************************************)
Init ==
  /\ newApi \in {"yes", "no"}
  /\ conf = [i \in Slots |-> NoKey]
  /\ hwidx = [k \in Keys |-> 0]
  /\ uploaded = {}
  /\ block = [i \in Slots |-> NoKey.alg]
  /\ tek = [i \in Slots |-> NoKey]
  /\ phase1 = [i \in Slots |-> NoKey]
  /\ rcmta = [i \in Slots |-> NoAddr]
  /\ job = [kind |-> "clear", key |-> NoKey, slot |-> 0]
  /\ at = 0 /\ step = "idle" /\ stray = "no"

Call == \E k \in Keys : SetKey(k) \/ DisableKey(k) \/ UpdateTkipKey(k)

Write == Zero \/ WritePhase1 \/ WriteBlock \/ WriteTek \/ WriteCopy \/ WriteMac

Next == Call \/ Write \/ Restart

Spec == Init /\ [][Next]_vars

(***************************************************************************)
(* Properties.                                                             *)
(***************************************************************************)
AnyKey == Keys \union {NoKey}
Jobs == [kind : {"set", "clear", "update"}, key : AnyKey, slot : Slots]

(* Slots hold keys; what a call writes lies within the key table, and only *)
(* a call that knows its key is under way.                                 *)
TypeOK ==
  /\ newApi \in {"yes", "no"}
  /\ conf \in [Slots -> AnyKey] /\ hwidx \in [Keys -> Slots] /\ uploaded \subseteq Keys
  /\ block \in [Slots -> {"NONE", "WEP", "TKIP", "AES"}]
  /\ tek \in [Slots -> AnyKey] /\ phase1 \in [Slots -> AnyKey \union {Initial}]
  /\ rcmta \in [Slots -> Stations \union {NoAddr}]
  /\ job \in Jobs /\ at \in Slots
  /\ step \in {"idle", "zero", "phase1", "block", "key", "mac"}
  /\ step # "idle" => job.key \in Keys
  /\ stray \in {"yes", "no"}

(* "First zero out mac to avoid race": while a slot matches a station and  *)
(* goes on matching it, its key, algorithm and phase 1 key do not change.  *)
MatchedIsStill ==
  [][\A i \in PairSlots :
       rcmta[i] # NoAddr /\ rcmta'[i] = rcmta[i] =>
         /\ tek'[i] = tek[i] /\ phase1'[i] = phase1[i]
         /\ block'[KidxToFw(i)] = block[KidxToFw(i)]]_vars

(* A slot that matches a station holds that station's key, its algorithm   *)
(* and, for TKIP, its phase 1 key or one no frame can use: "if we have a   *)
(* correct iv32 but a wrong phase1key, all packets will be lost".          *)
MatchIsSound ==
  \A i \in PairSlots :
    rcmta[i] # NoAddr =>
      /\ tek[i].sta = rcmta[i]
      /\ block[KidxToFw(i)] = tek[i].alg
      /\ phase1[i] \in IF tek[i].alg = "TKIP" THEN {Initial, tek[i]} ELSE {NoKey}

(* No two slots match the same station. *)
OneMatch ==
  \A i, j \in PairSlots : rcmta[i] = rcmta[j] /\ rcmta[i] # NoAddr => i = j

(* "If keyconf is NULL, this key is disabled." *)
DisabledIsOff ==
  step = "idle" => \A i \in PairSlots : conf[i] = NoKey => rcmta[i] = NoAddr

(* The receiver decrypts soundly as long as no slot has been written for a *)
(* key it does not hold.                                                   *)
MemorySound == stray = "no" => MatchIsSound /\ OneMatch /\ DisabledIsOff

(* The driver's and mac80211's books agree: a key the driver has is one    *)
(* mac80211 knows to be in that slot, and no key is in two slots.          *)
BooksAgree ==
  \A i \in Slots :
    conf[i] # NoKey => conf[i] \in uploaded /\ hwidx[conf[i]] = i

(* The default keys for sending and receiving are the same, and gone when  *)
(* the driver has none.                                                    *)
GroupCopies ==
  step = "idle" =>
    \A g \in 0..(NrGroup - 1) :
      /\ newApi = "no" => tek[g] = tek[g + NrGroup]
      /\ tek[g] = conf[g]
      /\ block[g] = tek[g].alg
============================================================================
