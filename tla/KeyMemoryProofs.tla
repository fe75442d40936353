-------------------------- MODULE KeyMemoryProofs --------------------------
(***************************************************************************)
(* Theorems about b43's key memory for every number of slots, every set of *)
(* stations and keys and either kind of firmware.                          *)
(***************************************************************************)
EXTENDS KeyMemory, TLAPS

LEMMA KeyFields ==
  ASSUME NEW k \in Keys
  PROVE  /\ k.sta \in Stations \union {Bcast}
         /\ k.alg \in {"WEP", "TKIP", "AES"}
         /\ k.idx \in 0..(NrGroup - 1)
BY KeysAssumption

LEMMA PairSlotsInTable == TypeOK => PairSlots \subseteq Slots
BY SlotsAssumption DEF TypeOK, PairSlots, PairStart, Slots

(* The key index block has one word per pairwise slot. *)
LEMMA BlocksApart ==
  ASSUME TypeOK, NEW i \in PairSlots, NEW j \in Slots, i # j
  PROVE  KidxToFw(i) # KidxToFw(j)
BY SlotsAssumption DEF TypeOK, PairSlots, PairStart, Slots, KidxToFw

LEMMA WrittenType ==
  ASSUME TypeOK, step # "idle"
  PROVE  /\ Written \in AnyKey
         /\ Written.alg \in {"NONE", "WEP", "TKIP", "AES"}
<1>1. CASE job.kind = "clear"
  BY <1>1 DEF Written, NoKey, AnyKey
<1>2. CASE job.kind # "clear"
  <2>1. job.key \in Keys
    BY DEF TypeOK
  <2> QED
    BY <1>2, <2>1, KeyFields DEF Written, AnyKey
<1> QED
  BY <1>1, <1>2

(***************************************************************************)
(* The inductive invariant of the books and of the lock-out of the         *)
(* receiver.                                                               *)
(***************************************************************************)

(* Where mac80211's keys are.                                              *)
Placed ==
  \A k \in uploaded :
    IF Pairwise(k) THEN hwidx[k] \in PairSlots
                   ELSE hwidx[k] = k.idx /\ k.alg # "TKIP"

(* What a call under way writes, and where. *)
JobInv ==
  step # "idle" =>
    /\ job.kind = "set" => job.key \notin uploaded
    /\ job.kind # "set" => job.key \in uploaded /\ job.slot = hwidx[job.key]
    /\ job.kind = "update" => Pairwise(job.key)
    /\ IF Pairwise(job.key)
         THEN job.slot \in PairSlots /\ at = job.slot
         ELSE /\ job.slot = job.key.idx /\ job.key.alg # "TKIP"
              /\ at = job.slot \/ (newApi = "no" /\ at = job.slot + NrGroup)

(* From the zeroing of its address to the end a slot matches nobody. *)
LockedOut ==
  step \notin {"idle", "zero"} /\ at \in PairSlots => rcmta[at] = NoAddr

KeyInv == TypeOK /\ Placed /\ JobInv /\ LockedOut /\ BooksAgree

LEMMA KeyInit == Init => KeyInv
<1> SUFFICES ASSUME Init PROVE KeyInv
  OBVIOUS
<1>1. TypeOK
  BY SlotsAssumption DEF Init, TypeOK, Slots, AnyKey, Jobs, NoKey, NoAddr
<1> QED
  BY <1>1 DEF Init, KeyInv, Placed, JobInv, LockedOut, BooksAgree

(* A group key's slot is no pairwise slot. *)
LEMMA GroupSlotsApart ==
  ASSUME TypeOK, NEW k \in Keys
  PROVE  /\ k.idx \in Slots /\ k.idx \notin PairSlots
         /\ newApi = "no" => k.idx + NrGroup \in Slots /\ k.idx + NrGroup \notin PairSlots
BY SlotsAssumption, KeyFields DEF TypeOK, PairSlots, PairStart, Slots

LEMMA BeginStep ==
  ASSUME KeyInv, step = "idle", NEW kind \in {"set", "clear", "update"},
         NEW k \in Keys, NEW i \in Slots, Begin(kind, k, i), stray' \in {"yes", "no"},
         kind = "set" => k \notin uploaded,
         kind # "set" => k \in uploaded /\ i = hwidx[k],
         kind = "update" => Pairwise(k),
         IF Pairwise(k) THEN i \in PairSlots ELSE i = k.idx /\ k.alg # "TKIP"
  PROVE  KeyInv'
<1> USE DEF KeyInv, Begin, Books, Memory
<1>1. TypeOK'
  BY DEF TypeOK, Jobs, AnyKey
<1>2. Placed' /\ BooksAgree'
  BY DEF Placed, BooksAgree, PairSlots, PairStart, Pairwise
<1>3. JobInv'
  BY DEF JobInv, PairSlots, PairStart, Pairwise
<1>4. LockedOut'
  BY DEF LockedOut
<1> QED
  BY <1>1, <1>2, <1>3, <1>4

LEMMA KeyStep == KeyInv /\ [Next]_vars => KeyInv'
<1> SUFFICES ASSUME KeyInv, [Next]_vars PROVE KeyInv'
  OBVIOUS
<1>0. TypeOK /\ Placed /\ JobInv /\ LockedOut /\ BooksAgree
  BY DEF KeyInv
<1>1. ASSUME NEW k \in Keys, SetKey(k) PROVE KeyInv'
  <2>1. CASE ~Pairwise(k)
    <3>1. k \notin uploaded /\ k.alg # "TKIP" /\ Begin("set", k, k.idx) /\ step = "idle"
          /\ stray' = stray
      BY <1>1, <2>1 DEF SetKey
    <3> QED
      BY <3>1, <2>1, <1>0, GroupSlotsApart, BeginStep DEF TypeOK
  <2>2. CASE Pairwise(k)
    <3>1. PICK i \in PairSlots : Begin("set", k, i)
      BY <1>1, <2>2 DEF SetKey
    <3>2. k \notin uploaded /\ step = "idle" /\ stray' = stray /\ i \in Slots
      BY <1>1, <1>0, PairSlotsInTable DEF SetKey
    <3> QED
      BY <3>1, <3>2, <2>2, <1>0, BeginStep DEF TypeOK
  <2> QED
    BY <2>1, <2>2
<1>2. ASSUME NEW k \in Keys, DisableKey(k) PROVE KeyInv'
  <2>1. /\ step = "idle" /\ k \in uploaded /\ Begin("clear", k, hwidx[k])
        /\ stray' \in {"yes", "no"} /\ hwidx[k] \in Slots
    BY <1>2, <1>0 DEF DisableKey, TypeOK
  <2> QED
    BY <2>1, <1>0, BeginStep DEF Placed
<1>3. ASSUME NEW k \in Keys, UpdateTkipKey(k) PROVE KeyInv'
  <2>1. /\ step = "idle" /\ k \in uploaded /\ k.alg = "TKIP" /\ Begin("update", k, hwidx[k])
        /\ stray' \in {"yes", "no"} /\ hwidx[k] \in Slots
    BY <1>3, <1>0 DEF UpdateTkipKey, TypeOK
  <2> QED
    BY <2>1, <1>0, BeginStep DEF Placed
<1>4. CASE Zero
  <2> USE <1>0, <1>4 DEF Zero, ZeroMac, Books
  <2>1. TypeOK'
    BY DEF TypeOK
  <2>2. Placed' /\ BooksAgree'
    BY DEF Placed, BooksAgree, PairSlots, PairStart, Pairwise
  <2>3. JobInv'
    BY DEF JobInv, PairSlots, PairStart, Pairwise
  <2>4. LockedOut'
    BY PairSlotsInTable DEF LockedOut, PairSlots, PairStart, TypeOK
  <2> QED
    BY <2>1, <2>2, <2>3, <2>4 DEF KeyInv
<1>5. CASE WritePhase1
  <2> USE <1>0, <1>5 DEF WritePhase1, Books
  <2>1. step = "phase1" /\ step' \in {"block", "mac"} /\ job.key \in Keys
    BY DEF TypeOK
  <2>2. phase1' \in [Slots -> AnyKey \union {Initial}]
    BY <2>1, WrittenType DEF Phase1Written, TypeOK, AnyKey
  <2>3. TypeOK'
    BY <2>1, <2>2 DEF TypeOK
  <2>4. Placed' /\ BooksAgree' /\ JobInv' /\ LockedOut'
    BY <2>1 DEF Placed, BooksAgree, JobInv, LockedOut, PairSlots, PairStart, Pairwise
  <2> QED
    BY <2>3, <2>4 DEF KeyInv
<1>6. CASE WriteBlock
  <2> USE <1>0, <1>6 DEF WriteBlock, Books
  <2>1. Written.alg \in {"NONE", "WEP", "TKIP", "AES"}
    BY WrittenType
  <2>2. block' \in [Slots -> {"NONE", "WEP", "TKIP", "AES"}]
    BY <2>1 DEF TypeOK
  <2>3. TypeOK'
    BY <2>2 DEF TypeOK
  <2>4. Placed' /\ BooksAgree' /\ JobInv' /\ LockedOut'
    BY DEF Placed, BooksAgree, JobInv, LockedOut, PairSlots, PairStart, Pairwise
  <2> QED
    BY <2>3, <2>4 DEF KeyInv
<1>7. CASE WriteTek
  <2> USE <1>0, <1>7 DEF WriteTek, Books
  <2>1. TypeOK'
    BY WrittenType DEF TypeOK
  <2>2. Placed' /\ BooksAgree' /\ JobInv' /\ LockedOut'
    BY DEF Placed, BooksAgree, JobInv, LockedOut, PairSlots, PairStart, Pairwise
  <2> QED
    BY <2>1, <2>2 DEF KeyInv
<1>8. CASE WriteCopy
  <2> USE <1>0, <1>8 DEF WriteCopy, Books, CopyDue
  <2>1. at \notin PairSlots /\ at + NrGroup \in Slots
    BY SlotsAssumption DEF PairSlots, PairStart, Slots, TypeOK
  <2>2. TypeOK'
    BY <2>1 DEF TypeOK, MacAddress
  <2>3. Placed' /\ BooksAgree'
    BY DEF Placed, BooksAgree, PairSlots, PairStart, Pairwise
  <2>4. at = job.slot
    BY SlotsAssumption DEF JobInv, PairSlots, PairStart, TypeOK, Jobs, Slots
  <2>5. JobInv'
    BY <2>1, <2>4 DEF JobInv, PairSlots, PairStart, Pairwise
  <2>6. LockedOut'
    BY DEF LockedOut
  <2> QED
    BY <2>2, <2>3, <2>5, <2>6 DEF KeyInv
<1>9. CASE WriteMac
  <2> USE <1>0, <1>9 DEF WriteMac
  <2>1. rcmta' \in [Slots -> Stations \union {NoAddr}]
    <3>1. at \in PairSlots => Written.sta \in Stations \union {NoAddr}
      <4>1. CASE job.kind = "clear"
        BY <4>1 DEF Written, NoKey
      <4>2. CASE job.kind # "clear"
        BY <4>2, KeyFields, GroupSlotsApart DEF Written, JobInv, Pairwise, TypeOK
      <4> QED
        BY <4>1, <4>2
    <3> QED
      BY <3>1 DEF MacAddress, TypeOK
  <2>2. /\ conf' \in [Slots -> AnyKey] /\ hwidx' \in [Keys -> Slots] /\ uploaded' \subseteq Keys
    <3>1. job.key \in Keys /\ job.slot \in Slots /\ NoKey \in AnyKey /\ job.key \in AnyKey
      BY DEF TypeOK, Jobs, AnyKey
    <3> QED
      BY <3>1 DEF TypeOK, Books, IndexReported
  <2>3. TypeOK'
    BY <2>1, <2>2 DEF TypeOK
  <2>4. Placed'
    BY DEF Placed, JobInv, IndexReported, Books, TypeOK, PairSlots, PairStart, Pairwise
  <2>5. BooksAgree'
    BY DEF BooksAgree, JobInv, IndexReported, Books, TypeOK, Jobs
  <2>6. JobInv' /\ LockedOut'
    BY DEF JobInv, LockedOut
  <2> QED
    BY <2>3, <2>4, <2>5, <2>6 DEF KeyInv
<1>10. CASE Restart
  <2> USE <1>0, <1>10 DEF Restart
  <2>1. NoKey \in AnyKey /\ NoKey.alg = "NONE"
    BY DEF AnyKey, NoKey
  <2>2. TypeOK'
    BY <2>1 DEF TypeOK
  <2>3. Placed' /\ BooksAgree' /\ JobInv' /\ LockedOut'
    BY DEF Placed, BooksAgree, JobInv, LockedOut, PairSlots, PairStart, Pairwise
  <2> QED
    BY <2>2, <2>3 DEF KeyInv
<1>11. CASE UNCHANGED vars
  BY <1>0, <1>11 DEF vars, KeyInv, TypeOK, Placed, BooksAgree, JobInv, LockedOut,
                     PairSlots, PairStart, Pairwise
<1> QED
  BY <1>1, <1>2, <1>3, <1>4, <1>5, <1>6, <1>7, <1>8, <1>9, <1>10, <1>11
     DEF Next, Call, Write

(* Books, slots and the lock-out of the receiver, for every instance.      *)
THEOREM KeyInvariant == Spec => []KeyInv
BY KeyInit, KeyStep, PTL DEF Spec

(* Every slot written lies within the key table, for every firmware.       *)
THEOREM TypeCorrect == Spec => []TypeOK
<1>1. KeyInv => TypeOK
  BY DEF KeyInv
<1> QED
  BY <1>1, KeyInvariant, PTL

(* The driver's and mac80211's books agree, restarts included: a key the   *)
(* driver has is one mac80211 knows to be in that slot.                    *)
THEOREM Agreement == Spec => []BooksAgree
<1>1. KeyInv => BooksAgree
  BY DEF KeyInv
<1> QED
  BY <1>1, KeyInvariant, PTL

(* What the receiver matches does not change under it: every write to a    *)
(* slot's key, algorithm or phase 1 key finds the address zeroed.          *)
THEOREM RaceFree == Spec => MatchedIsStill
<1> DEFINE Still == \A i \in PairSlots :
                      rcmta[i] # NoAddr /\ rcmta'[i] = rcmta[i] =>
                        /\ tek'[i] = tek[i] /\ phase1'[i] = phase1[i]
                        /\ block'[KidxToFw(i)] = block[KidxToFw(i)]
<1>1. KeyInv /\ [Next]_vars => Still
  <2> SUFFICES ASSUME KeyInv, [Next]_vars, NEW i \in PairSlots,
                      rcmta[i] # NoAddr, rcmta'[i] = rcmta[i]
               PROVE  /\ tek'[i] = tek[i] /\ phase1'[i] = phase1[i]
                      /\ block'[KidxToFw(i)] = block[KidxToFw(i)]
    OBVIOUS
  <2>0. TypeOK /\ LockedOut /\ i \in Slots /\ at \in Slots
    BY PairSlotsInTable DEF KeyInv, TypeOK
  <2>1. CASE Call
    BY <2>1 DEF Call, SetKey, DisableKey, UpdateTkipKey, Begin, Memory
  <2>2. CASE Zero \/ WriteCopy \/ WriteMac \/ UNCHANGED vars
    BY <2>2 DEF Zero, WriteCopy, WriteMac, vars
  <2>3. CASE WritePhase1
    BY <2>0, <2>3 DEF WritePhase1, Phase1Written, LockedOut, TypeOK
  <2>4. CASE WriteBlock
    <3>1. i # at
      BY <2>0, <2>4 DEF WriteBlock, LockedOut
    <3>2. KidxToFw(i) # KidxToFw(at)
      BY <3>1, <2>0, BlocksApart
    <3> QED
      BY <2>0, <2>4, <3>2 DEF WriteBlock, TypeOK
  <2>5. CASE WriteTek
    BY <2>0, <2>5 DEF WriteTek, LockedOut, TypeOK
  <2>6. CASE Restart
    BY <2>0, <2>6 DEF Restart
  <2> QED
    BY <2>1, <2>2, <2>3, <2>4, <2>5, <2>6 DEF Next, Write
<1> QED
  BY <1>1, KeyInvariant, PTL DEF Spec, MatchedIsStill

(***************************************************************************)
(* As long as no slot is written for a key it does not hold, a slot that   *)
(* matches a station decrypts with that station's key, at every step of    *)
(* every call, and no two slots match the same station.                    *)
(***************************************************************************)

(* mac80211 has one key per use, also while one is being set. *)
Unique ==
  /\ \A k, l \in uploaded : SameUse(k, l) => k = l
  /\ step # "idle" /\ job.kind = "set" => \A l \in uploaded : ~SameUse(job.key, l)

(* Without hwtkip there are no TKIP keys and no phase 1 keys. *)
NoTkip ==
  ~HwTkip =>
    /\ \A i \in Slots : phase1[i] = NoKey
    /\ \A k \in uploaded : k.alg # "TKIP"
    /\ step # "idle" => job.key.alg # "TKIP"

PhaseFor(k) == IF k.alg = "TKIP" THEN {Initial, k} ELSE {NoKey}

(* Slot i holds k ready for use. *)
Holds(i, k) == tek[i] = k /\ block[KidxToFw(i)] = k.alg /\ phase1[i] \in PhaseFor(k)

Settled(i) ==
  IF conf[i] = NoKey THEN rcmta[i] = NoAddr ELSE rcmta[i] = conf[i].sta /\ Holds(i, conf[i])

InWork(i) == at = i /\ step \notin {"idle", "zero"}

(* How far the slot in work has come. *)
Progress ==
  step \notin {"idle", "zero"} /\ at \in PairSlots =>
    IF job.kind = "update"
      THEN /\ step \in {"phase1", "mac"}
           /\ tek[at] = job.key /\ block[KidxToFw(at)] = job.key.alg
           /\ step = "mac" => phase1[at] = job.key
      ELSE /\ step # "phase1" => phase1[at] \in PhaseFor(Written)
           /\ step \in {"key", "mac"} => block[KidxToFw(at)] = Written.alg
           /\ step = "mac" => tek[at] = Written

Knows ==
  step # "idle" /\ job.kind = "update" =>
    conf[job.slot] = job.key /\ job.key.alg = "TKIP" /\ HwTkip

SoundInv ==
  /\ KeyInv /\ Unique /\ NoTkip
  /\ stray = "no" => Knows /\ Progress /\ \A i \in PairSlots : ~InWork(i) => Settled(i)

LEMMA NoKeyIsNoKey == NoKey \notin Keys /\ NoKey.alg = "NONE" /\ NoKey.sta = NoAddr
BY StationsAssumption, KeyFields DEF NoKey, Bcast, NoAddr

LEMMA SoundInit == Init => SoundInv
<1> SUFFICES ASSUME Init PROVE SoundInv
  OBVIOUS
<1>1. \A i \in PairSlots : i \in Slots
  BY KeyInit, PairSlotsInTable DEF KeyInv
<1> QED
  BY <1>1, KeyInit
     DEF Init, SoundInv, Unique, NoTkip, Knows, Progress, InWork, Settled

LEMMA SoundImplies == SoundInv => MemorySound
<1> SUFFICES ASSUME SoundInv, stray = "no" PROVE MatchIsSound /\ OneMatch /\ DisabledIsOff
  BY DEF MemorySound
<1>1. /\ TypeOK /\ BooksAgree /\ Unique
      /\ \A i \in PairSlots : i \in Slots
  BY PairSlotsInTable DEF SoundInv, KeyInv
<1>2. ASSUME NEW i \in PairSlots, rcmta[i] # NoAddr
      PROVE  /\ conf[i] # NoKey /\ rcmta[i] = conf[i].sta /\ Holds(i, conf[i])
             /\ conf[i] \in uploaded /\ hwidx[conf[i]] = i
  <2>1. ~InWork(i)
    BY <1>2 DEF SoundInv, KeyInv, LockedOut, InWork
  <2> QED
    BY <1>1, <1>2, <2>1 DEF SoundInv, Settled, BooksAgree
<1>3. MatchIsSound
  BY <1>2 DEF MatchIsSound, Holds, PhaseFor
<1>4. OneMatch
  <2> SUFFICES ASSUME NEW i \in PairSlots, NEW j \in PairSlots,
                      rcmta[i] = rcmta[j], rcmta[i] # NoAddr
               PROVE  i = j
    BY DEF OneMatch
  <2>1. conf[i].sta = conf[j].sta /\ conf[i] \in Keys /\ conf[j] \in Keys
    BY <1>1, <1>2 DEF TypeOK
  <2>2. Pairwise(conf[i])
    BY <1>1, <1>2, StationsAssumption DEF Pairwise, TypeOK, Bcast, NoAddr
  <2>3. conf[i] = conf[j]
    BY <1>1, <1>2, <2>1, <2>2 DEF Unique, SameUse
  <2> QED
    BY <1>2, <2>3
<1>5. DisabledIsOff
  BY DEF DisabledIsOff, SoundInv, InWork, Settled
<1> QED
  BY <1>3, <1>4, <1>5

(* A call begins with nothing written yet. *)
LEMMA SoundBegin ==
  ASSUME SoundInv, KeyInv', step = "idle", NEW kind \in {"set", "clear", "update"},
         NEW k \in Keys, NEW i, Begin(kind, k, i),
         stray' = "no" => stray = "no",
         kind = "set" => \A l \in uploaded : ~SameUse(k, l),
         kind # "set" => k \in uploaded,
         k.alg = "TKIP" => HwTkip,
         kind = "update" /\ stray' = "no" => conf[i] = k /\ k.alg = "TKIP" /\ HwTkip
  PROVE  SoundInv'
<1> USE DEF Begin, Books, Memory
<1>1. Unique' /\ NoTkip'
  BY DEF SoundInv, Unique, NoTkip, SameUse, Pairwise
<1>2. stray' = "no" => Knows' /\ Progress'
  BY DEF Knows, Progress
<1>3. ASSUME stray' = "no", NEW s \in PairSlots PROVE Settled(s)'
  BY <1>3 DEF SoundInv, InWork, Settled, Holds, PhaseFor, KidxToFw
<1>4. PairSlots' = PairSlots
  BY DEF PairSlots, PairStart
<1> QED
  BY <1>1, <1>2, <1>3, <1>4 DEF SoundInv

(* Slots other than the one in work keep what they have. *)
LEMMA OthersKept ==
  ASSUME TypeOK, WritePhase1 \/ WriteBlock \/ WriteTek \/ Zero \/ WriteMac \/ WriteCopy,
         NEW s \in PairSlots, s # at
  PROVE  /\ tek'[s] = tek[s] /\ phase1'[s] = phase1[s] /\ rcmta'[s] = rcmta[s]
         /\ block'[KidxToFw(s)] = block[KidxToFw(s)] /\ KidxToFw(s)' = KidxToFw(s)
<1>1. KidxToFw(s) # KidxToFw(at)
  BY BlocksApart DEF TypeOK
<1>2. KidxToFw(s)' = KidxToFw(s)
  BY DEF WritePhase1, WriteBlock, WriteTek, Zero, WriteMac, WriteCopy, KidxToFw
<1>3. s \in Slots
  BY PairSlotsInTable
<1>4. CASE WritePhase1
  BY <1>2, <1>3, <1>4 DEF WritePhase1, Phase1Written, TypeOK
<1>5. CASE WriteBlock
  BY <1>1, <1>2, <1>3, <1>5 DEF WriteBlock, TypeOK
<1>6. CASE WriteTek
  BY <1>2, <1>3, <1>6 DEF WriteTek, TypeOK
<1>7. CASE Zero
  BY <1>2, <1>3, <1>7 DEF Zero, ZeroMac, TypeOK
<1>8. CASE WriteMac \/ WriteCopy
  BY <1>2, <1>3, <1>8 DEF WriteMac, WriteCopy, MacAddress, TypeOK
<1> QED
  BY <1>4, <1>5, <1>6, <1>7, <1>8

LEMMA SoundStep == SoundInv /\ [Next]_vars => SoundInv'
<1> SUFFICES ASSUME SoundInv, [Next]_vars PROVE SoundInv'
  OBVIOUS
<1>0. /\ KeyInv /\ TypeOK /\ JobInv /\ KeyInv' /\ Unique /\ NoTkip
      /\ PairSlots' = PairSlots /\ \A i \in PairSlots : i \in Slots
  <2>1. newApi' = newApi
    BY DEF Next, Call, SetKey, DisableKey, UpdateTkipKey, Begin, Write, Zero, WritePhase1,
           WriteBlock, WriteTek, WriteCopy, WriteMac, Restart, vars
  <2> QED
    BY <2>1, KeyStep, PairSlotsInTable DEF SoundInv, KeyInv, PairSlots, PairStart
<1>1. ASSUME NEW k \in Keys, SetKey(k) PROVE SoundInv'
  <2>1. /\ step = "idle" /\ \A l \in uploaded : ~SameUse(k, l)
        /\ stray' = stray /\ (k.alg = "TKIP" => HwTkip)
        /\ \E i : Begin("set", k, i)
    BY <1>1 DEF SetKey
  <2> QED
    BY <2>1, <1>0, SoundBegin
<1>2. ASSUME NEW k \in Keys, DisableKey(k) PROVE SoundInv'
  <2>1. /\ step = "idle" /\ k \in uploaded /\ (stray' = "no" => stray = "no")
        /\ Begin("clear", k, hwidx[k]) /\ (k.alg = "TKIP" => HwTkip)
    BY <1>2, <1>0 DEF DisableKey, NoTkip
  <2> QED
    BY <2>1, <1>0, SoundBegin
<1>3. ASSUME NEW k \in Keys, UpdateTkipKey(k) PROVE SoundInv'
  <2>1. /\ step = "idle" /\ k \in uploaded /\ (stray' = "no" => stray = "no")
        /\ Begin("update", k, hwidx[k]) /\ k.alg = "TKIP" /\ HwTkip
        /\ stray' = "no" => conf[hwidx[k]] = k
    BY <1>3 DEF UpdateTkipKey
  <2> QED
    BY <2>1, <1>0, SoundBegin
<1>4. CASE Zero
  <2> USE <1>0, <1>4 DEF Zero, ZeroMac, Books
  <2>1. Unique' /\ NoTkip'
    BY DEF Unique, NoTkip, SameUse, Pairwise
  <2>2. ASSUME stray = "no" PROVE Knows' /\ Progress'
    <3>1. Knows /\ \A i \in PairSlots : Settled(i)
      BY <2>2 DEF SoundInv, InWork
    <3>2. at \in PairSlots /\ job.kind = "update" =>
            tek[at] = job.key /\ block[KidxToFw(at)] = job.key.alg
      BY <3>1, NoKeyIsNoKey DEF Knows, Settled, Holds, JobInv, TypeOK
    <3> QED
      BY <3>1, <3>2 DEF Knows, Progress, KidxToFw
  <2>3. ASSUME stray = "no", NEW s \in PairSlots, ~InWork(s)' PROVE Settled(s)'
    <3>1. s # at /\ Settled(s)
      BY <2>3 DEF InWork, SoundInv
    <3> QED
      BY <3>1, OthersKept DEF Settled, Holds, PhaseFor
  <2> QED
    BY <2>1, <2>2, <2>3 DEF SoundInv
<1>5. CASE WritePhase1
  <2> USE <1>0, <1>5 DEF WritePhase1, Books
  <2>1. Unique' /\ NoTkip'
    BY DEF Unique, NoTkip, SameUse, Pairwise, Phase1Written
  <2>2. ASSUME stray = "no" PROVE Knows' /\ Progress'
    <3>1. Knows /\ Progress
      BY <2>2 DEF SoundInv
    <3>2. CASE job.kind = "update"
      BY <3>1, <3>2 DEF Knows, Progress, Phase1Written, KidxToFw, TypeOK, PhaseFor
    <3>3. CASE job.kind # "update" /\ at \in PairSlots
      <4>1. Written.alg = "TKIP" => HwTkip
        BY NoKeyIsNoKey DEF NoTkip, Written
      <4>2. phase1'[at] = IF Written.alg = "TKIP" THEN Initial ELSE NoKey
        BY <3>3, <4>1 DEF Phase1Written, NoTkip, TypeOK
      <4> QED
        BY <3>1, <3>3, <4>2 DEF Knows, Progress, PhaseFor, Written
    <3>4. CASE job.kind # "update" /\ at \notin PairSlots
      BY <3>4 DEF Knows, Progress
    <3> QED
      BY <3>2, <3>3, <3>4
  <2>3. ASSUME stray = "no", NEW s \in PairSlots, ~InWork(s)' PROVE Settled(s)'
    <3>1. s # at /\ Settled(s)
      BY <2>3 DEF InWork, SoundInv
    <3> QED
      BY <3>1, OthersKept DEF Settled, Holds, PhaseFor
  <2> QED
    BY <2>1, <2>2, <2>3 DEF SoundInv
<1>6. CASE WriteBlock
  <2> USE <1>0, <1>6 DEF WriteBlock, Books
  <2>1. Unique' /\ NoTkip'
    BY DEF Unique, NoTkip, SameUse, Pairwise
  <2>2. ASSUME stray = "no" PROVE Knows' /\ Progress'
    <3>1. Knows /\ Progress
      BY <2>2 DEF SoundInv
    <3>2. at \in PairSlots => block'[KidxToFw(at)] = Written.alg
      BY SlotsAssumption DEF KidxToFw, TypeOK, Slots, PairSlots, PairStart
    <3> QED
      BY <3>1, <3>2 DEF Knows, Progress, PhaseFor, Written, KidxToFw
  <2>3. ASSUME stray = "no", NEW s \in PairSlots, ~InWork(s)' PROVE Settled(s)'
    <3>1. s # at /\ Settled(s)
      BY <2>3 DEF InWork, SoundInv
    <3> QED
      BY <3>1, OthersKept DEF Settled, Holds, PhaseFor
  <2> QED
    BY <2>1, <2>2, <2>3 DEF SoundInv
<1>7. CASE WriteTek
  <2> USE <1>0, <1>7 DEF WriteTek, Books
  <2>1. Unique' /\ NoTkip'
    BY DEF Unique, NoTkip, SameUse, Pairwise
  <2>2. ASSUME stray = "no" PROVE Knows' /\ Progress'
    <3>1. Knows /\ Progress
      BY <2>2 DEF SoundInv
    <3> QED
      BY <3>1 DEF Knows, Progress, PhaseFor, Written, KidxToFw, TypeOK
  <2>3. ASSUME stray = "no", NEW s \in PairSlots, ~InWork(s)' PROVE Settled(s)'
    <3>1. s # at /\ Settled(s)
      BY <2>3 DEF InWork, SoundInv
    <3> QED
      BY <3>1, OthersKept DEF Settled, Holds, PhaseFor
  <2> QED
    BY <2>1, <2>2, <2>3 DEF SoundInv
<1>8. CASE WriteCopy
  <2> USE <1>0, <1>8 DEF WriteCopy, Books, CopyDue
  <2>0. at \notin PairSlots
    BY SlotsAssumption DEF PairSlots, PairStart, Slots, TypeOK
  <2>1. Unique' /\ NoTkip'
    BY DEF Unique, NoTkip, SameUse, Pairwise
  <2>2. ASSUME stray = "no" PROVE Knows' /\ Progress'
    BY <2>2 DEF SoundInv, Knows, Progress
  <2>3. ASSUME stray = "no", NEW s \in PairSlots, ~InWork(s)' PROVE Settled(s)'
    <3>1. s # at /\ Settled(s)
      BY <2>0, <2>3 DEF InWork, SoundInv
    <3> QED
      BY <3>1, OthersKept DEF Settled, Holds, PhaseFor
  <2> QED
    BY <2>1, <2>2, <2>3 DEF SoundInv
<1>9. CASE WriteMac
  <2> USE <1>0, <1>9 DEF WriteMac
  <2>1. Unique'
    BY DEF Unique, SameUse, Pairwise, JobInv, Books
  <2>2. NoTkip'
    BY DEF NoTkip, Books
  <2>3. Knows' /\ Progress'
    BY DEF Knows, Progress
  <2>4. ASSUME stray = "no", NEW s \in PairSlots PROVE Settled(s)'
    <3>1. CASE s # at
      <4>1. Settled(s)
        BY <2>4, <3>1 DEF SoundInv, InWork
      <4>2. conf'[s] = conf[s]
        <5>1. s # job.slot
          BY <3>1, GroupSlotsApart DEF JobInv, TypeOK
        <5> QED
          BY <5>1 DEF Books, TypeOK
      <4> QED
        BY <3>1, <4>1, <4>2, OthersKept DEF Settled, Holds, PhaseFor
    <3>2. CASE s = at
      <4>1. Pairwise(job.key) /\ job.slot = s /\ job.key \in Keys
        BY <3>2, GroupSlotsApart DEF JobInv, TypeOK
      <4>2. Holds(s, Written) /\ rcmta'[s] = Written.sta
        BY <2>4, <3>2 DEF SoundInv, Progress, Knows, Holds, PhaseFor, Written, MacAddress, TypeOK
      <4>3. conf'[s] = Written
        BY <2>4, <4>1 DEF Written, Books, TypeOK, SoundInv, Knows
      <4>4. Holds(s, Written)'
        BY <4>2 DEF Holds, PhaseFor, Written, KidxToFw
      <4>5. Written' = Written
        BY DEF Written
      <4> QED
        BY <4>2, <4>3, <4>4, <4>5, NoKeyIsNoKey DEF Settled
    <3> QED
      BY <3>1, <3>2
  <2> QED
    BY <2>1, <2>2, <2>3, <2>4 DEF SoundInv
<1>10. CASE Restart
  <2> USE <1>0, <1>10 DEF Restart
  <2>1. Unique' /\ NoTkip' /\ Knows' /\ Progress'
    BY DEF Unique, NoTkip, SameUse, Pairwise, Knows, Progress
  <2>2. \A s \in PairSlots : Settled(s)'
    BY DEF Settled
  <2> QED
    BY <2>1, <2>2 DEF SoundInv
<1>11. CASE UNCHANGED vars
  BY <1>0, <1>11 DEF vars, SoundInv, Unique, NoTkip, SameUse, Pairwise, Knows, Progress, InWork,
                     Settled, Holds, PhaseFor, Written, KidxToFw
<1> QED
  BY <1>1, <1>2, <1>3, <1>4, <1>5, <1>6, <1>7, <1>8, <1>9, <1>10, <1>11
     DEF Next, Call, Write

(* The receiver decrypts what it matches with the right key, through every *)
(* call and every restart, until a slot is written for a key that is not   *)
(* in it.                                                                  *)
THEOREM ReceiverSound == Spec => []MemorySound
BY SoundInit, SoundStep, SoundImplies, PTL DEF Spec

(***************************************************************************)
(* The copies of the group keys: while a call is under way, the slots of   *)
(* the other indices agree with the books, and the one it writes agrees    *)
(* with it as far as it has come.                                          *)
(***************************************************************************)
GroupSlots == 0..(NrGroup - 1)

CopyOf(g) ==
  /\ newApi = "no" => tek[g] = tek[g + NrGroup]
  /\ tek[g] = conf[g]
  /\ block[g] = tek[g].alg

GroupProgress ==
  step # "idle" /\ job.slot \in GroupSlots =>
    /\ at # job.slot \/ step \in {"key", "mac"} => block[job.slot] = Written.alg
    /\ at # job.slot \/ step = "mac" => tek[job.slot] = Written
    /\ step = "mac" => tek[at] = Written

GroupInv ==
  /\ KeyInv /\ GroupProgress
  /\ \A g \in GroupSlots : step = "idle" \/ job.slot # g => CopyOf(g)

(* Where a group key's slot and its copy lie, and what a write of another  *)
(* slot leaves alone.                                                      *)
LEMMA GroupPlaces ==
  ASSUME TypeOK, NEW g \in GroupSlots
  PROVE  /\ g \in Slots /\ g + NrGroup \in Slots /\ g \notin PairSlots
         /\ newApi = "no" => g + NrGroup \notin PairSlots /\ g + NrGroup \notin GroupSlots
         /\ KidxToFw(g) = g
         /\ newApi = "no" => KidxToFw(g + NrGroup) = g
         /\ \A i \in PairSlots : KidxToFw(i) # g
BY SlotsAssumption DEF TypeOK, GroupSlots, PairSlots, PairStart, Slots, KidxToFw

(* A call for a group key writes its index or, for receiving, its copy.    *)
LEMMA GroupJob ==
  ASSUME KeyInv, step # "idle"
  PROVE  \/ at \in PairSlots /\ at = job.slot
         \/ /\ job.slot \in GroupSlots /\ job.kind # "update"
            /\ at = job.slot \/ (newApi = "no" /\ at = job.slot + NrGroup)
<1>1. job.key \in Keys /\ JobInv
  BY DEF KeyInv, TypeOK
<1> QED
  BY <1>1, KeyFields DEF JobInv, GroupSlots

LEMMA GroupInit == Init => GroupInv
<1> SUFFICES ASSUME Init PROVE GroupInv
  OBVIOUS
<1>1. KeyInv
  BY KeyInit
<1>2. \A g \in GroupSlots : g \in Slots /\ g + NrGroup \in Slots
  BY <1>1, GroupPlaces DEF KeyInv
<1> QED
  BY <1>1, <1>2 DEF Init, GroupInv, GroupProgress, CopyOf

LEMMA GroupStep == GroupInv /\ [Next]_vars => GroupInv'
<1> SUFFICES ASSUME GroupInv, [Next]_vars PROVE GroupProgress' /\
      \A g \in GroupSlots : (step' = "idle" \/ job.slot' # g) => CopyOf(g)'
  BY KeyStep DEF GroupInv
<1>0. KeyInv /\ TypeOK /\ at \in Slots
  BY DEF GroupInv, KeyInv, TypeOK
<1>1. CASE Call
  <2>1. /\ step = "idle" /\ step' = "zero" /\ at' = job.slot'
        /\ UNCHANGED <<newApi, conf, tek, block>>
    BY <1>1 DEF Call, SetKey, DisableKey, UpdateTkipKey, Begin, Books, Memory
  <2> QED
    BY <2>1 DEF GroupInv, GroupProgress, CopyOf
<1>2. CASE Zero \/ WritePhase1
  <2>1. /\ UNCHANGED <<newApi, conf, tek, block, job, at>> /\ step # "idle" /\ step' # "idle"
        /\ step' \in {"phase1", "block", "mac"}
        /\ step' = "mac" => job.kind = "update"
    BY <1>2 DEF Zero, WritePhase1, Books
  <2>2. job.slot \in GroupSlots => job.kind # "update"
    BY <1>0, <2>1, GroupJob, GroupPlaces
  <2> QED
    BY <2>1, <2>2 DEF GroupInv, GroupProgress, CopyOf, Written
<1>3. CASE WriteBlock
  <2>1. /\ UNCHANGED <<newApi, conf, tek, job, at>> /\ step = "block" /\ step' = "key"
        /\ block' = [block EXCEPT ![KidxToFw(at)] = Written.alg]
    BY <1>3 DEF WriteBlock, Books
  <2>2. job.slot \in GroupSlots => KidxToFw(at) = job.slot
    BY <1>0, <2>1, GroupJob, GroupPlaces
  <2>3. GroupProgress'
    BY <1>0, <2>1, <2>2, GroupPlaces DEF GroupInv, GroupProgress, Written, TypeOK
  <2>4. ASSUME NEW g \in GroupSlots, job.slot # g PROVE CopyOf(g)'
    <3>1. KidxToFw(at) # g
      BY <1>0, <2>1, <2>4, GroupJob, GroupPlaces
    <3> QED
      BY <1>0, <2>1, <2>4, <3>1, GroupPlaces DEF GroupInv, CopyOf, TypeOK
  <2> QED
    BY <2>1, <2>3, <2>4
<1>4. CASE WriteTek
  <2>1. /\ UNCHANGED <<newApi, conf, block, job, at>> /\ step = "key" /\ step' = "mac"
        /\ tek' = [tek EXCEPT ![at] = Written]
    BY <1>4 DEF WriteTek, Books
  <2>2. GroupProgress'
    BY <1>0, <2>1, GroupJob, GroupPlaces DEF GroupInv, GroupProgress, Written, TypeOK
  <2>3. ASSUME NEW g \in GroupSlots, job.slot # g PROVE CopyOf(g)'
    <3>1. at # g /\ (newApi = "no" => at # g + NrGroup)
      BY <1>0, <2>1, <2>3, GroupJob, GroupPlaces, SlotsAssumption DEF GroupSlots
    <3> QED
      BY <1>0, <2>1, <2>3, <3>1, GroupPlaces DEF GroupInv, CopyOf, TypeOK
  <2> QED
    BY <2>1, <2>2, <2>3
<1>5. CASE WriteCopy
  <2>1. /\ UNCHANGED <<newApi, conf, block, tek, job>> /\ step = "mac" /\ step' = "zero"
        /\ at < NrGroup
    BY <1>5 DEF WriteCopy, Books, CopyDue
  <2>2. job.slot \in GroupSlots => at = job.slot
    BY <1>0, <2>1, GroupJob, GroupPlaces, SlotsAssumption DEF GroupSlots
  <2>3. GroupProgress'
    BY <2>1, <2>2 DEF GroupInv, GroupProgress, Written
  <2> QED
    BY <2>1, <2>3 DEF GroupInv, CopyOf
<1>6. CASE WriteMac
  <2>1. /\ UNCHANGED <<newApi, block, tek, job, at>> /\ step = "mac" /\ step' = "idle"
        /\ ~CopyDue
    BY <1>6 DEF WriteMac
  <2>2. ASSUME NEW g \in GroupSlots PROVE CopyOf(g)'
    <3>1. CASE job.slot # g
      <4>1. conf'[g] = conf[g]
        BY <1>0, <1>6, <3>1, GroupPlaces DEF WriteMac, Books, TypeOK
      <4> QED
        BY <2>1, <3>1, <4>1 DEF GroupInv, CopyOf
    <3>2. CASE job.slot = g
      <4>1. job.kind # "update" /\ (at = g \/ (newApi = "no" /\ at = g + NrGroup))
        BY <1>0, <2>1, <3>2, GroupJob, GroupPlaces
      <4>2. newApi = "no" => at = g + NrGroup
        BY <2>1, <4>1, SlotsAssumption DEF CopyDue, GroupSlots
      <4>3. conf'[g] = Written
        BY <1>0, <1>6, <3>2, <4>1, GroupPlaces DEF WriteMac, Written, TypeOK
      <4>4. tek[at] = Written /\ tek[g] = Written /\ block[g] = Written.alg
        BY <2>1, <3>2 DEF GroupInv, GroupProgress
      <4> QED
        BY <2>1, <4>1, <4>2, <4>3, <4>4 DEF CopyOf
    <3> QED
      BY <3>1, <3>2
  <2> QED
    BY <2>1, <2>2 DEF GroupProgress
<1>7. CASE Restart
  <2>1. \A g \in GroupSlots : g \in Slots /\ g + NrGroup \in Slots
    BY <1>0, GroupPlaces
  <2> QED
    BY <1>7, <2>1 DEF Restart, GroupProgress, CopyOf
<1>8. CASE UNCHANGED vars
  BY <1>8 DEF vars, GroupInv, GroupProgress, CopyOf, Written
<1> QED
  BY <1>1, <1>2, <1>3, <1>4, <1>5, <1>6, <1>7, <1>8 DEF Next, Write

(* Between calls the default keys for sending and for receiving are the    *)
(* same, the ones the driver's books name, and disabled when there is      *)
(* none: a second do_key_write never leaves the copies apart.              *)
THEOREM CopiesAgree == Spec => []GroupCopies
<1>1. GroupInv => GroupCopies
  BY DEF GroupInv, GroupCopies, CopyOf, GroupSlots
<1> QED
  BY <1>1, GroupInit, GroupStep, PTL DEF Spec
============================================================================
