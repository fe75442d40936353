------------------------- MODULE DriverAttachProofs -------------------------
(***************************************************************************)
(* Theorems about the bus's cores and about attaching and removing the     *)
(* driver, for every ROM, any number of probes of the host and any number  *)
(* of loads of the module; and, last, what the scan makes of a ROM.  The   *)
(* first parts only need that it numbers what it finds.                    *)
(***************************************************************************)
EXTENDS DriverAttach, SequenceTheorems, FiniteSetTheorems, WellFoundedInduction, TLAPS

(***************************************************************************)
(* The bus.                                                                *)
(***************************************************************************)

(* The cores on the list, numbered as they were found.                     *)
ListInv ==
  /\ \E S : list \in Seq(S)
  /\ coreNum \in Nat
  /\ \A k \in DOMAIN list : list[k].index \in Nat /\ list[k].index < coreNum
  /\ \A j, k \in DOMAIN list : list[j].index = list[k].index => j = k

(* Which devices are registered, to be probed and bound.                   *)
DeviceInv ==
  /\ todo \subseteq Indices /\ added \subseteq Indices /\ todo \intersect added = {}
  /\ toProbe \subseteq added /\ bound \subseteq added /\ toProbe \intersect bound = {}
  /\ \A i \in toProbe \union bound : Matches(CoreAt(i))
  /\ driver = "absent" => bound = {}
  /\ driver # "present" => toProbe = {}

HostInv ==
  /\ host \in {"off", "scanning", "registering", "up", "removing", "failed"}
  /\ host # "registering" => todo = {}
  /\ host \in {"off", "failed", "scanning"} => added = {}
  /\ host \in {"off", "failed"} => list = <<>>
  /\ host = "off" => ~watchdog /\ ~power
  /\ host \in {"scanning", "registering", "up", "removing"} => power

RefsInv ==
  /\ host = "scanning" => DOMAIN refs = {}
  /\ \A i \in DOMAIN refs : refs[i] = (IF i \in Indices THEN 1 ELSE 0)
                                    + (IF i \in bound THEN 1 ELSE 0)

LostInv ==
  /\ probes \in Nat
  /\ probes = 0 => lost = 0 /\ host = "off"
  /\ probes = 1 => lost = 0 \/ (host # "scanning" /\ scan \in {"ENOMEM", "EILSEQ"})

BusInv == ListInv /\ DeviceInv /\ HostInv /\ RefsInv /\ LostInv

(***************************************************************************)
(* The driver.                                                             *)
(***************************************************************************)

(* The chip has one core the driver is for.                                *)
OneD11 == \A i, j \in Indices : Matches(CoreAt(i)) /\ Matches(CoreAt(j)) => i = j

AttachType == current \in {"dev", "NULL"} /\ DOMAIN mac = {"bits", "reset"}

(* The firmware work comes before everything that is registered.           *)
FirmwareFirst ==
  /\ fw # "idle" => ~known /\ ~rng /\ removal = "no" /\ bound # {}
  /\ fw = "loaded" => ucode

(* What exists, and what may still be called.                              *)
Existing ==
  /\ bound = {} => ~rng /\ removal = "no" /\ ~ucode /\ (known => current = "NULL")
  /\ bound # {} /\ removal # "detached" => alive = {"wldev", "wl"}
  /\ known /\ current = "dev" => ucode /\ removal \notin {"unregistered", "skipped", "detached"}
  /\ removal = "unregistered" => ~known
  /\ rng => ucode \/ removal = "detached"
  /\ removal = "detached" => ~ucode

(* An initialised core has its clock and an open interface.                *)
UpInv ==
  /\ up => iface = "open" /\ current = "dev" /\ Clocked
  /\ iface = "open" => known
  /\ ~known => ~restart /\ reload = {}
  /\ "start" \in reload /\ current = "dev" => up

AttachInv == AttachType /\ FirmwareFirst /\ Existing /\ UpInv /\ AccessSafe

(***************************************************************************)
(* The list of cores.                                                      *)
(***************************************************************************)

(* CoreAt finds a core of the list by its number.                          *)
LEMMA Listed ==
  ASSUME ListInv, NEW k \in DOMAIN list
  PROVE  list[k].index \in Indices /\ CoreAt(list[k].index) = list[k]
<1>1. list[k].index \in Indices
  BY DEF Indices
<1> DEFINE Cores == {list[j] : j \in DOMAIN list}
<1>2. list[k] \in Cores
  OBVIOUS
<1>3. ASSUME NEW c \in Cores, c.index = list[k].index
      PROVE  c = list[k]
  <2>1. PICK j \in DOMAIN list : c = list[j]
    OBVIOUS
  <2>2. j = k
    BY <1>3, <2>1 DEF ListInv
  <2> QED
    BY <2>1, <2>2
<1>4. CoreAt(list[k].index) = CHOOSE c \in Cores : c.index = list[k].index
  BY DEF CoreAt
<1> HIDE DEF Cores
<1> QED
  BY <1>1, <1>2, <1>3, <1>4

(* A core that was found is a new one, with the next number.               *)
LEMMA AppendCore ==
  ASSUME ListInv, NEW c, c.index = coreNum, list' = Append(list, c), coreNum' = coreNum + 1
  PROVE  ListInv'
<1>1. PICK S : list \in Seq(S)
  BY DEF ListInv
<1>2. /\ Len(list) \in Nat /\ DOMAIN list = 1..Len(list)
      /\ list \in Seq(S \union {c})
  BY <1>1, SeqMonotonic
<1>3. /\ list' \in Seq(S \union {c})
      /\ DOMAIN list' = 1..(Len(list) + 1)
      /\ \A k \in 1..Len(list) : list'[k] = list[k]
      /\ list'[Len(list) + 1] = c
  BY <1>2
<1>4. coreNum \in Nat /\ coreNum' \in Nat
  BY DEF ListInv
<1>5. \A k \in DOMAIN list' : list'[k].index \in Nat /\ list'[k].index < coreNum'
  <2> SUFFICES ASSUME NEW k \in DOMAIN list'
               PROVE  list'[k].index \in Nat /\ list'[k].index < coreNum'
    OBVIOUS
  <2>1. CASE k \in 1..Len(list)
    BY <1>2, <1>3, <1>4, <2>1 DEF ListInv
  <2>2. CASE k = Len(list) + 1
    BY <1>3, <1>4, <2>2
  <2> QED
    BY <1>2, <1>3, <2>1, <2>2
<1>6. \A j, k \in DOMAIN list' : list'[j].index = list'[k].index => j = k
  <2> SUFFICES ASSUME NEW j \in DOMAIN list', NEW k \in DOMAIN list',
                      list'[j].index = list'[k].index
               PROVE  j = k
    OBVIOUS
  <2>1. \A l \in 1..Len(list) : list'[l].index \in Nat /\ list'[l].index < coreNum
    BY <1>2, <1>3 DEF ListInv
  <2>2. CASE j \in 1..Len(list) /\ k \in 1..Len(list)
    BY <1>2, <1>3, <2>2 DEF ListInv
  <2>3. CASE j = Len(list) + 1 \/ k = Len(list) + 1
    BY <1>2, <1>3, <1>4, <2>1, <2>3
  <2> QED
    BY <1>2, <1>3, <2>2, <2>3
<1> QED
  BY <1>3, <1>4, <1>5, <1>6 DEF ListInv

(* list_del: the others stay what they were.                               *)
LEMMA WithoutCore ==
  ASSUME ListInv, NEW i \in Indices, list' = Without(i), coreNum' = coreNum
  PROVE  /\ ListInv'
         /\ Indices' = Indices \ {i}
         /\ \A j \in Indices \ {i} : CoreAt(j)' = CoreAt(j)
<1>1. PICK S : list \in Seq(S)
  BY DEF ListInv
<1>2. Len(list) \in Nat /\ DOMAIN list = 1..Len(list)
  BY <1>1
<1> DEFINE at == CHOOSE k \in DOMAIN list : list[k].index = i
           n == Len(list) - 1
           Old(k) == IF k < at THEN k ELSE k + 1
<1>3. at \in DOMAIN list /\ list[at].index = i
  BY DEF Indices
<1>4. list' = [k \in 1..n |-> IF k < at THEN list[k] ELSE list[k + 1]]
  BY DEF Without
<1> HIDE DEF at
<1>5. n \in Nat /\ at \in 1..Len(list)
  BY <1>2, <1>3
<1>6. DOMAIN list' = 1..n /\ \A k \in 1..n : Old(k) \in DOMAIN list \ {at} /\ list'[k] = list[Old(k)]
  BY <1>2, <1>4, <1>5
<1>7. \A k \in 1..n : list'[k] \in S
  BY <1>1, <1>2, <1>6
<1>8. list' \in Seq(S)
  BY <1>4, <1>5, <1>6, <1>7
<1>9. \A k \in DOMAIN list \ {at} : \E j \in 1..n : Old(j) = k
  <2> SUFFICES ASSUME NEW k \in DOMAIN list \ {at}
               PROVE  \E j \in 1..n : Old(j) = k
    OBVIOUS
  <2>1. CASE k < at
    <3>1. k \in 1..n /\ Old(k) = k
      BY <1>2, <1>5, <2>1
    <3> QED
      BY <3>1
  <2>2. CASE k > at
    <3>1. k - 1 \in 1..n /\ Old(k - 1) = k
      BY <1>2, <1>5, <2>2
    <3> QED
      BY <3>1
  <2> QED
    BY <1>2, <1>5, <2>1, <2>2
<1>10. \A j, k \in 1..n : Old(j) = Old(k) => j = k
  BY <1>2, <1>5
<1> HIDE DEF n, Old
<1>11. ListInv'
  <2>1. \A k \in DOMAIN list' : list'[k].index \in Nat /\ list'[k].index < coreNum'
    BY <1>6 DEF ListInv
  <2>2. \A j, k \in DOMAIN list' : list'[j].index = list'[k].index => j = k
    BY <1>6, <1>10 DEF ListInv
  <2>3. coreNum' \in Nat
    BY DEF ListInv
  <2> QED
    BY <1>8, <2>1, <2>2, <2>3 DEF ListInv
<1>12. Indices' = Indices \ {i}
  <2>1. \A j \in Indices' : j \in Indices \ {i}
    BY <1>3, <1>6 DEF Indices, ListInv
  <2>2. ASSUME NEW j \in Indices \ {i}
        PROVE  j \in Indices'
    <3>1. PICK k \in DOMAIN list : list[k].index = j
      BY <2>2 DEF Indices
    <3>2. PICK l \in 1..n : Old(l) = k
      BY <1>3, <1>9, <2>2, <3>1
    <3> QED
      BY <1>6, <3>1, <3>2 DEF Indices
  <2> QED
    BY <2>1, <2>2
<1>13. ASSUME NEW j \in Indices \ {i}
       PROVE  CoreAt(j)' = CoreAt(j)
  <2>1. PICK k \in DOMAIN list' : list'[k].index = j
    BY <1>12, <1>13 DEF Indices
  <2>2. CoreAt(j)' = list'[k]
    <3>1. (ListInv /\ k \in DOMAIN list => CoreAt(list[k].index) = list[k])'
      BY Listed, PTL
    <3> QED
      BY <1>11, <2>1, <3>1
  <2>3. Old(k) \in DOMAIN list /\ list'[k] = list[Old(k)]
    BY <1>6, <2>1
  <2>4. CoreAt(list[Old(k)].index) = list[Old(k)]
    BY <2>3, Listed
  <2> QED
    BY <2>1, <2>2, <2>3, <2>4
<1> QED
  BY <1>11, <1>12, <1>13

LEMMA SameList ==
  ASSUME list' = list
  PROVE  Indices' = Indices /\ \A j \in Indices : CoreAt(j)' = CoreAt(j)
BY DEF Indices, CoreAt

LEMMA NoList ==
  ASSUME list = <<>>
  PROVE  Indices = {}
BY DEF Indices

(***************************************************************************)
(* The bus's invariant, one lemma for each of its parts.  A step of the    *)
(* bus is one of its own or one that the driver takes part in.             *)
(***************************************************************************)
CoresStay == UNCHANGED <<scanVars, host, probes, power, todo, refs, added, driverVars, watchdog, lost>>

BusAction ==
  \/ BusNext \/ CoresStay
  \/ \E i \in toProbe : \E ok \in BOOLEAN : DeviceProbe(i, ok)
  \/ \E i \in bound : DeviceRemove(i)

(* Which of them leave the list alone.                                     *)
LEMMA ListChanges ==
  ASSUME BusAction
  PROVE  \/ list' = list /\ coreNum' = coreNum
         \/ HostProbe \/ Scanning \/ HostProbeFails \/ HostLeaves
BY DEF BusAction, BusNext, CoresStay, DeviceProbe, DeviceRemove, BusRegister, RegisterCore, HostUp,
       DriverRegister, DriverUnregister, DriverGone, HostRemove, scanVars

LEMMA BusStarts == BusInit => BusInv
<1> SUFFICES ASSUME BusInit
             PROVE  BusInv
  OBVIOUS
<1>1. list = <<>> /\ coreNum = 0 /\ Indices = {}
  BY NoList DEF BusInit, ScanInit
<1>2. ListInv
  BY <1>1 DEF ListInv
<1>3. DeviceInv
  BY <1>1 DEF BusInit, DeviceInv
<1>4. HostInv /\ LostInv
  BY <1>1 DEF BusInit, HostInv, LostInv
<1>5. RefsInv
  BY <1>1 DEF BusInit, RefsInv
<1> QED
  BY <1>2, <1>3, <1>4, <1>5 DEF BusInv

LEMMA ListStep == BusInv /\ BusAction => ListInv'
<1> SUFFICES ASSUME BusInv, BusAction
             PROVE  ListInv'
  OBVIOUS
<1>0. ListInv
  BY DEF BusInv
<1>1. CASE list' = list /\ coreNum' = coreNum
  BY <1>0, <1>1 DEF ListInv
<1>2. ASSUME list' = <<>>, coreNum' = coreNum \/ coreNum' = 0
      PROVE  ListInv'
  BY <1>0, <1>2 DEF ListInv
<1>3. CASE HostProbe \/ HostProbeFails \/ HostRemoved
  BY <1>2, <1>3 DEF HostProbe, EmptyBus, HostProbeFails, HostRemoved
<1>4. CASE Scanning
  <2>1. CASE ScanStart \/ ScanStops \/ ScanNoMemory
    BY <1>1, <2>1 DEF ScanStart, ScanStops, ScanNoMemory
  <2>2. CASE ScanPasses
    <3>1. list' = list /\ (coreNum' = coreNum \/ coreNum' = coreNum + 1)
      BY <2>2 DEF ScanPasses
    <3> QED
      BY <1>0, <3>1 DEF ListInv
  <2>3. CASE ScanFinds
    <3>1. PICK c : c.index = coreNum /\ list' = Append(list, c)
      BY <2>3 DEF ScanFinds
    <3>2. coreNum' = coreNum + 1
      BY <2>3 DEF ScanFinds
    <3> QED
      BY <1>0, <3>1, <3>2, AppendCore
  <2> QED
    BY <1>4, <2>1, <2>2, <2>3 DEF Scanning, ScanNext
<1>5. ASSUME NEW i \in added, UnregisterCore(i)
      PROVE  ListInv'
  <2>1. i \in Indices /\ list' = Without(i) /\ coreNum' = coreNum
    BY <1>5 DEF BusInv, DeviceInv, UnregisterCore
  <2> QED
    BY <1>0, <2>1, WithoutCore
<1> QED
  BY <1>1, <1>3, <1>4, <1>5, ListChanges DEF HostLeaves

LEMMA DeviceStep == BusInv /\ BusAction => DeviceInv'
<1> SUFFICES ASSUME BusInv, BusAction
             PROVE  DeviceInv'
  OBVIOUS
<1>0. ListInv /\ DeviceInv /\ HostInv
  BY DEF BusInv
<1>1. CASE HostProbe \/ Scanning \/ HostProbeFails \/ HostRemoved
  <2>1. todo' = {} /\ added' = {}
    BY <1>0, <1>1 DEF HostInv, HostProbe, Scanning, HostProbeFails, HostRemoved
  <2>2. added = {} /\ UNCHANGED driverVars
    BY <1>0, <1>1 DEF HostInv, HostProbe, Scanning, HostProbeFails, HostRemoved
  <2>3. toProbe' = {} /\ bound' = {} /\ driver' = driver
    BY <1>0, <2>2 DEF DeviceInv, driverVars
  <2> QED
    BY <2>1, <2>3 DEF DeviceInv
<1>2. ASSUME NEW i \in added, UnregisterCore(i)
      PROVE  DeviceInv'
  <2>1. i \in Indices /\ list' = Without(i) /\ coreNum' = coreNum
    BY <1>0, <1>2 DEF DeviceInv, UnregisterCore
  <2>2. /\ Indices' = Indices \ {i}
        /\ \A j \in Indices \ {i} : CoreAt(j)' = CoreAt(j)
    BY <1>0, <2>1, WithoutCore
  <2>3. todo' = {} /\ added' = added \ {i} /\ i \notin bound \union toProbe
    BY <1>0, <1>2 DEF HostInv, UnregisterCore
  <2>4. toProbe' = toProbe /\ bound' = bound /\ driver' = driver
    BY <1>2 DEF UnregisterCore, driverVars
  <2>5. \A j \in toProbe \union bound : Matches(CoreAt(j))'
    BY <1>0, <2>2, <2>3 DEF DeviceInv, Matches
  <2> QED
    BY <1>0, <2>2, <2>3, <2>4, <2>5 DEF DeviceInv
<1>3. CASE list' = list
  <2>0. Indices' = Indices /\ \A j \in Indices : Matches(CoreAt(j))' = Matches(CoreAt(j))
    BY <1>3, SameList DEF Matches
  <2>1. CASE BusRegister
    <3>1. todo' = Registered /\ Registered \subseteq Indices /\ added = {}
      BY <1>0, <2>1 DEF BusRegister, Registered, HostInv
    <3>2. added' = added /\ toProbe' = toProbe /\ bound' = bound /\ driver' = driver
      BY <2>1 DEF BusRegister, driverVars
    <3> QED
      BY <1>0, <2>0, <3>1, <3>2 DEF DeviceInv
  <2>2. ASSUME NEW i \in todo, RegisterCore(i)
        PROVE  DeviceInv'
    <3>1. /\ todo' = todo \ {i} /\ toProbe = {} /\ bound' = bound /\ driver' = driver
          /\ \/ added' = added \union {i} /\ toProbe' \subseteq {i}
             \/ added' = added /\ toProbe' = {}
      BY <2>2 DEF RegisterCore
    <3>2. i \in Indices /\ i \notin bound
      BY <1>0, <2>2 DEF DeviceInv
    <3>3. \A j \in toProbe' : driver = "present" /\ Matches(CoreAt(j))
      BY <2>2 DEF RegisterCore
    <3>4. \A j \in toProbe' \union bound' : Matches(CoreAt(j))'
      BY <1>0, <2>0, <3>1, <3>2, <3>3 DEF DeviceInv
    <3>5. todo' \subseteq Indices /\ added' \subseteq Indices /\ todo' \intersect added' = {}
      BY <1>0, <3>1, <3>2 DEF DeviceInv
    <3>6. toProbe' \subseteq added' /\ bound' \subseteq added' /\ toProbe' \intersect bound' = {}
      BY <1>0, <3>1, <3>2 DEF DeviceInv
    <3> QED
      BY <1>0, <2>0, <3>1, <3>3, <3>4, <3>5, <3>6 DEF DeviceInv
  <2>3. CASE DriverRegister
    <3>1. /\ todo' = todo /\ added' = added /\ bound = {} /\ bound' = {} /\ driver' = "present"
          /\ toProbe' = {j \in added : Matches(CoreAt(j))}
      BY <1>0, <2>3 DEF DriverRegister, DeviceInv
    <3> QED
      BY <1>0, <2>0, <3>1 DEF DeviceInv
  <2>4. CASE DriverUnregister \/ DriverGone
    <3>1. /\ todo' = todo /\ added' = added /\ toProbe' = toProbe /\ bound' = bound
          /\ toProbe = {} /\ (driver' = "absent" => bound = {})
      BY <1>0, <2>4 DEF DriverUnregister, DriverGone, DeviceInv
    <3> QED
      BY <1>0, <2>0, <3>1 DEF DeviceInv
  <2>5. ASSUME NEW i \in toProbe, NEW ok \in BOOLEAN, DeviceProbe(i, ok)
        PROVE  DeviceInv'
    <3>1. /\ todo' = todo /\ added' = added /\ driver' = driver
          /\ toProbe' = toProbe \ {i} /\ bound' \in {bound, bound \union {i}}
      BY <2>5 DEF DeviceProbe
    <3>2. driver # "absent"
      BY <1>0, <2>5 DEF DeviceInv
    <3> QED
      BY <1>0, <2>0, <3>1, <3>2 DEF DeviceInv
  <2>6. ASSUME NEW i \in bound, DeviceRemove(i)
        PROVE  DeviceInv'
    <3>1. /\ todo' = todo /\ added' = added /\ driver' = driver
          /\ toProbe' = toProbe /\ bound' = bound \ {i}
      BY <2>6 DEF DeviceRemove
    <3> QED
      BY <1>0, <2>0, <3>1 DEF DeviceInv
  <2>7. CASE HostUp \/ HostRemove \/ CoresStay
    <3>1. /\ todo' = todo /\ added' = added /\ driver' = driver
          /\ toProbe' = toProbe /\ bound' = bound
      BY <2>7 DEF HostUp, HostRemove, CoresStay, driverVars
    <3> QED
      BY <1>0, <2>0, <3>1 DEF DeviceInv
  <2> QED
    BY <1>1, <1>2, <2>1, <2>2, <2>3, <2>4, <2>5, <2>6, <2>7 DEF BusAction, BusNext, HostLeaves
<1> QED
  BY <1>1, <1>2, <1>3, ListChanges DEF HostLeaves

LEMMA HostStep == BusInv /\ BusAction => HostInv'
<1> SUFFICES ASSUME BusInv, BusAction
             PROVE  HostInv'
  OBVIOUS
<1>0. HostInv /\ DeviceInv
  BY DEF BusInv
<1>1. CASE HostProbe
  BY <1>0, <1>1 DEF HostInv, HostProbe, Bringup
<1>2. CASE Scanning
  BY <1>0, <1>2 DEF HostInv, Scanning
<1>3. CASE HostProbeFails
  BY <1>0, <1>3 DEF HostInv, HostProbeFails, Teardown
<1>4. CASE BusRegister
  <2>1. power
    BY <1>0, <1>4 DEF HostInv, BusRegister
  <2> QED
    BY <1>0, <1>4, <2>1 DEF HostInv, BusRegister
<1>5. ASSUME NEW i \in todo, RegisterCore(i)
      PROVE  HostInv'
  BY <1>0, <1>5 DEF HostInv, RegisterCore
<1>6. CASE HostUp \/ HostRemove
  BY <1>0, <1>6 DEF HostInv, HostUp, HostRemove
<1>7. CASE DriverRegister \/ DriverUnregister \/ DriverGone
  BY <1>0, <1>7 DEF HostInv, DriverRegister, DriverUnregister, DriverGone, scanVars
<1>8. CASE HostRemoved
  BY <1>0, <1>8 DEF HostInv, HostRemoved, Teardown
<1>9. ASSUME NEW i \in added, UnregisterCore(i)
      PROVE  HostInv'
  BY <1>0, <1>9 DEF HostInv, UnregisterCore
<1>10. ASSUME NEW i \in toProbe, NEW ok \in BOOLEAN, DeviceProbe(i, ok)
       PROVE  HostInv'
  BY <1>0, <1>10 DEF HostInv, DeviceProbe, scanVars
<1>11. ASSUME NEW i \in bound, DeviceRemove(i)
       PROVE  HostInv'
  BY <1>0, <1>11 DEF HostInv, DeviceRemove, scanVars
<1>12. CASE CoresStay
  BY <1>0, <1>12 DEF HostInv, CoresStay, scanVars
<1> QED
  BY <1>1, <1>2, <1>3, <1>4, <1>5, <1>6, <1>7, <1>8, <1>9, <1>10, <1>11, <1>12
  DEF BusAction, BusNext, HostLeaves

LEMMA RefsStep == BusInv /\ BusAction => RefsInv'
<1> SUFFICES ASSUME BusInv, BusAction
             PROVE  RefsInv'
  OBVIOUS
<1>0. ListInv /\ DeviceInv /\ HostInv /\ RefsInv
  BY DEF BusInv
<1>1. CASE HostProbe
  BY <1>1 DEF HostProbe, RefsInv
<1>2. CASE Scanning \/ HostProbeFails
  <2>1. refs' = refs /\ DOMAIN refs = {}
    BY <1>0, <1>2 DEF RefsInv, Scanning, HostProbeFails
  <2> QED
    BY <2>1 DEF RefsInv
<1>3. CASE BusRegister
  <2>1. bound' = {} /\ Indices' = Indices
    BY <1>0, <1>3, SameList DEF BusRegister, HostInv, DeviceInv, scanVars, driverVars
  <2>2. host' # "scanning" /\ refs' = [i \in Indices |-> 1]
    BY <1>3 DEF BusRegister
  <2> QED
    BY <2>1, <2>2 DEF RefsInv
<1>4. CASE HostRemoved
  <2>1. Indices' = {} /\ bound = {} /\ bound' = {}
    <3>1. (list = <<>> => Indices = {})'
      BY NoList, PTL
    <3> QED
      BY <1>0, <1>4, <3>1 DEF HostRemoved, DeviceInv, driverVars
  <2>2. /\ host' # "scanning" /\ DOMAIN refs' = DOMAIN refs
        /\ \A i \in DOMAIN refs : refs'[i] = refs[i] - (IF i \in Indices THEN 1 ELSE 0)
    BY <1>4 DEF HostRemoved
  <2>3. \A i \in DOMAIN refs : refs[i] = IF i \in Indices THEN 1 ELSE 0
    BY <1>0, <2>1 DEF RefsInv
  <2> QED
    BY <2>1, <2>2, <2>3 DEF RefsInv
<1>5. ASSUME NEW i \in added, UnregisterCore(i)
      PROVE  RefsInv'
  <2>1. i \in Indices /\ list' = Without(i) /\ coreNum' = coreNum
    BY <1>0, <1>5 DEF DeviceInv, UnregisterCore
  <2>2. Indices' = Indices \ {i}
    BY <1>0, <2>1, WithoutCore
  <2>3. i \notin bound /\ bound' = bound /\ host' # "scanning" /\ refs' = [refs EXCEPT ![i] = @ - 1]
    BY <1>5 DEF UnregisterCore, driverVars
  <2> QED
    BY <1>0, <2>1, <2>2, <2>3 DEF RefsInv
<1>6. ASSUME NEW i \in toProbe, NEW ok \in BOOLEAN, DeviceProbe(i, ok)
      PROVE  RefsInv'
  <2>1. i \notin bound /\ host' = host
    BY <1>0, <1>6 DEF DeviceInv, DeviceProbe
  <2>2. Indices' = Indices
    BY <1>6, SameList DEF DeviceProbe, scanVars
  <2>3. CASE ok
    <3>1. refs' = [refs EXCEPT ![i] = @ + 1] /\ bound' = bound \union {i}
      BY <1>6, <2>3 DEF DeviceProbe, ProbeRefs
    <3> QED
      BY <1>0, <2>1, <2>2, <3>1 DEF RefsInv
  <2>4. CASE ~ok
    <3>1. refs' = [refs EXCEPT ![i] = @] /\ bound' = bound
      BY <1>6, <2>4 DEF DeviceProbe, ProbeRefs
    <3> QED
      BY <1>0, <2>1, <2>2, <3>1 DEF RefsInv
  <2> QED
    BY <2>3, <2>4
<1>7. ASSUME NEW i \in bound, DeviceRemove(i)
      PROVE  RefsInv'
  <2>1. Indices' = Indices
    BY <1>7, SameList DEF DeviceRemove, scanVars
  <2>2. host' = host /\ refs' = [refs EXCEPT ![i] = @ - 1] /\ bound' = bound \ {i}
    BY <1>7 DEF DeviceRemove
  <2> QED
    BY <1>0, <2>1, <2>2 DEF RefsInv
<1>8. ASSUME list' = list, refs' = refs, bound' = bound, host' = "scanning" => host = "scanning"
      PROVE  RefsInv'
  BY <1>0, <1>8, SameList DEF RefsInv
<1>9. ASSUME NEW i \in todo, RegisterCore(i)
      PROVE  RefsInv'
  BY <1>8, <1>9 DEF RegisterCore, scanVars
<1>10. CASE HostUp \/ HostRemove \/ CoresStay
  BY <1>8, <1>10 DEF HostUp, HostRemove, CoresStay, scanVars, driverVars
<1>11. CASE DriverRegister \/ DriverUnregister \/ DriverGone
  BY <1>8, <1>11 DEF DriverRegister, DriverUnregister, DriverGone, scanVars
<1> QED
  BY <1>1, <1>2, <1>3, <1>4, <1>5, <1>6, <1>7, <1>9, <1>10, <1>11 DEF BusAction, BusNext, HostLeaves

LEMMA LostStep == BusInv /\ BusAction => LostInv'
<1> SUFFICES ASSUME BusInv, BusAction
             PROVE  LostInv'
  OBVIOUS
<1>0. LostInv
  BY DEF BusInv
<1>1. CASE HostProbe
  BY <1>0, <1>1 DEF LostInv, HostProbe
<1>2. CASE Scanning
  BY <1>0, <1>2 DEF LostInv, Scanning
<1>3. CASE HostProbeFails
  BY <1>0, <1>3 DEF LostInv, HostProbeFails
<1>4. ASSUME probes' = probes, lost' = lost, scan' = scan,
             host' = "scanning" => host = "scanning", host = "off" => host' = "off"
      PROVE  LostInv'
  BY <1>0, <1>4 DEF LostInv
<1>5. CASE BusRegister \/ HostUp \/ HostRemove \/ HostRemoved \/ CoresStay
  BY <1>4, <1>5 DEF BusRegister, HostUp, HostRemove, HostRemoved, CoresStay, scanVars
<1>6. CASE DriverRegister \/ DriverUnregister \/ DriverGone
  BY <1>4, <1>6 DEF DriverRegister, DriverUnregister, DriverGone, scanVars
<1>7. ASSUME NEW i \in todo \union added, RegisterCore(i) \/ UnregisterCore(i)
      PROVE  LostInv'
  BY <1>4, <1>7 DEF RegisterCore, UnregisterCore, scanVars
<1>8. ASSUME NEW i, NEW ok \in BOOLEAN, DeviceProbe(i, ok) \/ DeviceRemove(i)
      PROVE  LostInv'
  BY <1>4, <1>8 DEF DeviceProbe, DeviceRemove, scanVars
<1> QED
  BY <1>1, <1>2, <1>3, <1>5, <1>6, <1>7, <1>8 DEF BusAction, BusNext, HostLeaves

LEMMA BusStep == BusInv /\ BusAction => BusInv'
BY ListStep, DeviceStep, HostStep, RefsStep, LostStep DEF BusInv

(* Every step of the system is one of these for the bus.                   *)
LEMMA BusKeeps == [Next]_vars => BusAction
<1> SUFFICES ASSUME [Next]_vars
             PROVE  BusAction
  OBVIOUS
<1>1. CASE UNCHANGED busVars
  BY <1>1 DEF BusAction, CoresStay, busVars, driverVars, scanVars
<1>2. CASE MacChanges
  BY <1>2 DEF BusAction, CoresStay, MacChanges
<1>3. CASE BusSteps
  BY <1>3 DEF BusAction, BusSteps
<1>4. CASE Attaching
  BY <1>4 DEF BusAction, Attaching, AttachOk, AttachFails
<1>5. CASE Firmware
  BY <1>1, <1>5 DEF Firmware, FwStart, FwAnswer, FwTry, FwRegister, BusStays
<1>6. CASE Running
  BY <1>1, <1>2, <1>6 DEF Running, Open, Close, RestartAsked, RestartRun, RestartFreed, RngRead, Reload, BusStays
<1>7. CASE Removing
  <2>1. ASSUME NEW i \in bound, RemoveBegin(i) \/ RemoveNothing(i) \/ RemoveFree(i)
        PROVE  BusAction
    BY <1>1, <2>1 DEF BusAction, RemoveBegin, RemoveNothing, RemoveFree, BusStays
  <2>2. CASE RemoveDecide \/ RemoveUnregister \/ RemoveDetach
    BY <1>1, <2>2 DEF RemoveDecide, RemoveUnregister, RemoveDetach, BusStays
  <2> QED
    BY <1>7, <2>1, <2>2 DEF Removing
<1>8. CASE UNCHANGED vars
  BY <1>1, <1>8 DEF vars
<1> QED
  BY <1>3, <1>4, <1>5, <1>6, <1>7, <1>8 DEF Next

(* The bus's invariant, whatever the driver does.                          *)
THEOREM BusInvariant == Spec => []BusInv
<1>1. Init => BusInv
  BY BusStarts DEF Init
<1>2. BusInv /\ [Next]_vars => BusInv'
  BY BusStep, BusKeeps
<1> QED
  BY <1>1, <1>2, PTL DEF Spec

(* A core has one reference of the bus and one of a bound driver, nothing  *)
(* is left of a bus that was removed (bcma_unregister_cores and the host's *)
(* remove), and only a scan that failed loses a core's registers.          *)
THEOREM Released == Spec => []CoresReleased
<1>1. BusInv => CoresReleased
  BY DEF BusInv, DeviceInv, HostInv, RefsInv, LostInv, CoresReleased
<1> QED
  BY <1>1, BusInvariant, PTL

(***************************************************************************)
(* The driver's invariant, one lemma for each of its parts.                *)
(***************************************************************************)

(* One core for the driver is one device: while one is to be probed none   *)
(* is bound.                                                               *)
LEMMA Alone ==
  ASSUME BusInv, OneD11
  PROVE  /\ \A i \in toProbe : bound = {}
         /\ \A i \in bound : bound = {i}
<1>1. \A i, j \in toProbe \union bound : i = j
  BY DEF BusInv, DeviceInv, OneD11
<1>2. toProbe \intersect bound = {}
  BY DEF BusInv, DeviceInv
<1> QED
  BY <1>1, <1>2

(* What mac80211 reaches is there, unless a restart failed.                *)
LEMMA Present ==
  ASSUME BusInv, AttachInv, known, current = "dev"
  PROVE  ~Gone /\ bound # {} /\ power
<1>1. bound # {} /\ removal # "detached"
  BY DEF AttachInv, Existing
<1>2. alive = {"wldev", "wl"}
  BY <1>1 DEF AttachInv, Existing
<1>3. power
  BY <1>1 DEF BusInv, DeviceInv, HostInv
<1> QED
  BY <1>1, <1>2, <1>3 DEF Gone

(* bcma_core_enable leaves a core with its clock on and out of reset.      *)
LEMMA Enabled ==
  ASSUME NEW m, DOMAIN m = {"bits", "reset"}
  PROVE  /\ DOMAIN CoreReset(m) = {"bits", "reset"}
         /\ "CLK" \in CoreReset(m).bits /\ ~CoreReset(m).reset
         /\ DOMAIN CoreOff(m) = {"bits", "reset"}
<1>1. ASSUME NEW c, DOMAIN c = {"bits", "reset"}, NEW v
      PROVE  /\ DOMAIN SynthWrite(c, "IOCTL", v) = {"bits", "reset"}
             /\ SynthWrite(c, "IOCTL", v).bits = v
             /\ SynthWrite(c, "IOCTL", v).reset = c.reset
             /\ DOMAIN SynthWrite(c, "RESET_CTL", v) = {"bits", "reset"}
             /\ SynthWrite(c, "RESET_CTL", v).reset = v
  BY <1>1 DEF SynthWrite
<1>2. ASSUME NEW flags
      PROVE  DOMAIN CoreDisable(m, flags) = {"bits", "reset"}
  <2> DEFINE c == SynthWrite(m, "RESET_CTL", TRUE)
  <2>1. CoreDisable(m, flags) = IF m.reset THEN m ELSE SynthWrite(c, "IOCTL", flags)
    BY DEF CoreDisable
  <2>2. DOMAIN c = {"bits", "reset"}
    BY <1>1
  <2> HIDE DEF c
  <2> QED
    BY <1>1, <2>1, <2>2
<1> DEFINE off == CoreDisable(m, {"PHYCLK"})
           held == SynthWrite(off, "IOCTL", {"PHYCLK"} \union {"CLK", "FGC"})
           free == SynthWrite(held, "RESET_CTL", FALSE)
<1>3. CoreReset(m) = SynthWrite(free, "IOCTL", {"PHYCLK"} \union {"CLK"})
  BY DEF CoreReset, CoreEnable
<1>4. DOMAIN off = {"bits", "reset"}
  BY <1>2
<1> HIDE DEF off
<1>5. DOMAIN held = {"bits", "reset"}
  BY <1>1, <1>4
<1> HIDE DEF held
<1>6. DOMAIN free = {"bits", "reset"} /\ free.reset = FALSE
  BY <1>1, <1>5
<1> HIDE DEF free
<1> QED
  BY <1>1, <1>2, <1>3, <1>6 DEF CoreOff

(* The bus does not touch the control register of a bound device.          *)
LEMMA BusSpares ==
  ASSUME BusInv, BusSteps
  PROVE  bound' = bound /\ (bound # {} => Clocked' = Clocked)
<1>0. bound # {} => added # {} /\ host \notin {"off", "failed", "scanning"}
  BY DEF BusInv, DeviceInv, HostInv
<1>1. bound' = bound
  BY DEF BusSteps, BusNext, HostProbe, Scanning, HostProbeFails, BusRegister, RegisterCore, HostUp,
         DriverRegister, DriverUnregister, DriverGone, HostRemove, HostLeaves, HostRemoved,
         UnregisterCore, driverVars
<1>2. bound # {} => power' = power /\ mac' = mac
  BY <1>0 DEF BusSteps, BusNext, HostProbe, Scanning, HostProbeFails, BusRegister, RegisterCore,
         HostUp, DriverRegister, DriverUnregister, DriverGone, HostRemove, HostLeaves, HostRemoved,
         UnregisterCore
<1> QED
  BY <1>1, <1>2 DEF Clocked

LEMMA AttachStarts == Init => AttachInv
BY DEF Init, BusInit, Off, AttachInv, AttachType, FirmwareFirst, Existing, UpInv, AccessSafe

LEMMA TypeStep == AttachInv /\ [Next]_vars => AttachType'
<1> SUFFICES ASSUME AttachInv, [Next]_vars
             PROVE  AttachType'
  OBVIOUS
<1>0. AttachType
  BY DEF AttachInv
<1>1. DOMAIN mac' = {"bits", "reset"}
  <2>1. CASE mac' = mac
    BY <1>0, <2>1 DEF AttachType
  <2>2. CASE BusSteps
    BY <2>1, <2>2 DEF BusSteps, BusNext, HostProbe, Scanning, HostProbeFails, BusRegister,
         RegisterCore, HostUp, DriverRegister, DriverUnregister, DriverGone, HostRemove, HostLeaves,
         HostRemoved, UnregisterCore, Bringup, Teardown, Off
  <2>3. \A m : DOMAIN m = {"bits", "reset"} =>
          DOMAIN CoreReset(m) = {"bits", "reset"} /\ DOMAIN CoreOff(m) = {"bits", "reset"}
    BY Enabled
  <2>4. CASE Attaching
    BY <1>0, <2>3, <2>4 DEF Attaching, AttachOk, AttachFails, AttachType
  <2>5. CASE Open \/ Close \/ RestartRun
    BY <1>0, <2>3, <2>5 DEF Open, Close, RestartRun, BusStays, busVars, AttachType
  <2>6. CASE RestartAsked \/ RestartFreed \/ RngRead \/ Reload("start") \/ Reload("restart")
    BY <2>1, <2>6 DEF RestartAsked, RestartFreed, RngRead, Reload, BusStays, busVars
  <2>7. CASE Firmware
    BY <2>1, <2>7 DEF Firmware, FwStart, FwAnswer, FwTry, FwRegister, BusStays, busVars
  <2>8. CASE Removing
    BY <2>1, <2>8 DEF Removing, RemoveBegin, RemoveNothing, RemoveFree, RemoveDecide,
         RemoveUnregister, RemoveDetach, DeviceRemove, BusStays, busVars
  <2>9. CASE UNCHANGED vars
    BY <2>1, <2>9 DEF vars, busVars
  <2> QED
    BY <2>2, <2>4, <2>5, <2>6, <2>7, <2>8, <2>9 DEF Next, Running
<1>2. CASE BusSteps \/ UNCHANGED vars
  BY <1>0, <1>1, <1>2 DEF BusSteps, vars, attachVars, AttachType
<1>3. CASE Attaching
  BY <1>0, <1>1, <1>3 DEF Attaching, AttachOk, AttachFails, AttachType
<1>4. CASE Firmware
  BY <1>0, <1>1, <1>4 DEF Firmware, FwStart, FwAnswer, FwTry, FwRegister, AttachType
<1>5. CASE Open \/ Close \/ RestartAsked
  BY <1>0, <1>1, <1>5 DEF Open, Close, RestartAsked, AttachType
<1>6. CASE RestartRun
  BY <1>0, <1>1, <1>6 DEF RestartRun, AttachType
<1>7. CASE RestartFreed \/ RngRead \/ Reload("start") \/ Reload("restart")
  BY <1>0, <1>1, <1>7 DEF RestartFreed, RngRead, Reload, AttachType
<1>8. CASE Removing
  BY <1>0, <1>1, <1>8 DEF Removing, RemoveBegin, RemoveNothing, RemoveFree, RemoveDecide,
       RemoveUnregister, RemoveDetach, AttachType
<1> QED
  BY <1>2, <1>3, <1>4, <1>5, <1>6, <1>7, <1>8 DEF Next, Running

LEMMA FirmwareStep == BusInv /\ OneD11 /\ AttachInv /\ [Next]_vars => FirmwareFirst'
<1> SUFFICES ASSUME BusInv, OneD11, AttachInv, [Next]_vars
             PROVE  FirmwareFirst'
  OBVIOUS
<1>0. AttachType /\ FirmwareFirst /\ Existing /\ UpInv
  BY DEF AttachInv
<1>1. CASE BusSteps
  BY <1>0, <1>1, BusSpares DEF BusSteps, attachVars, FirmwareFirst
<1>2. ASSUME NEW i \in toProbe, AttachOk(i)
      PROVE  FirmwareFirst'
  <2>1. bound = {} /\ bound' = bound \union {i}
    BY <1>2, Alone DEF AttachOk, DeviceProbe
  <2> QED
    BY <1>0, <1>2, <2>1 DEF AttachOk, Existing, FirmwareFirst
<1>3. ASSUME NEW i \in toProbe, AttachFails(i)
      PROVE  FirmwareFirst'
  BY <1>0, <1>3 DEF AttachFails, DeviceProbe, FirmwareFirst
<1>4. CASE Firmware
  BY <1>0, <1>4 DEF Firmware, FwStart, FwAnswer, FwTry, FwRegister, BusStays, busVars, FirmwareFirst
<1>5. CASE Running
  <2>1. /\ UNCHANGED <<fw, ucode, known, rng, removal>> /\ bound' = bound
    BY <1>5 DEF Running, Open, Close, RestartAsked, RestartRun, RestartFreed, RngRead, Reload, MacChanges,
         BusStays, busVars, driverVars
  <2> QED
    BY <1>0, <2>1 DEF FirmwareFirst
<1>6. ASSUME NEW i \in bound, RemoveBegin(i)
      PROVE  FirmwareFirst'
  BY <1>6 DEF RemoveBegin, FirmwareFirst
<1>7. CASE removal # "no" /\ UNCHANGED fw
  <2>1. fw = "idle"
    BY <1>0, <1>7 DEF FirmwareFirst
  <2> QED
    BY <1>7, <2>1 DEF FirmwareFirst
<1>8. CASE Removing
  BY <1>6, <1>7, <1>8 DEF Removing, RemoveNothing, RemoveFree, RemoveDecide,
       RemoveUnregister, RemoveDetach
<1>9. CASE UNCHANGED vars
  BY <1>0, <1>9 DEF vars, busVars, attachVars, driverVars, FirmwareFirst
<1> QED
  BY <1>1, <1>2, <1>3, <1>4, <1>5, <1>8, <1>9 DEF Next, Attaching

LEMMA ExistingStep == BusInv /\ OneD11 /\ AttachInv /\ [Next]_vars => Existing'
<1> SUFFICES ASSUME BusInv, OneD11, AttachInv, [Next]_vars
             PROVE  Existing'
  OBVIOUS
<1>0. AttachType /\ FirmwareFirst /\ Existing /\ UpInv
  BY DEF AttachInv
<1>1. CASE BusSteps
  BY <1>0, <1>1, BusSpares DEF BusSteps, attachVars, Existing
<1>2. ASSUME NEW i \in toProbe, AttachOk(i)
      PROVE  Existing'
  <2>1. bound = {} /\ bound' = bound \union {i}
    BY <1>2, Alone DEF AttachOk, DeviceProbe
  <2> QED
    BY <1>0, <1>2, <2>1 DEF AttachOk, Existing
<1>3. ASSUME NEW i \in toProbe, AttachFails(i)
      PROVE  Existing'
  <2>1. bound = {} /\ bound' = {}
    BY <1>3, Alone DEF AttachFails, DeviceProbe
  <2> QED
    BY <1>0, <1>3, <2>1 DEF AttachFails, Existing
<1>4. CASE Firmware
  <2>1. bound # {} /\ bound' = bound /\ ~known /\ ~rng /\ removal = "no"
    BY <1>0, <1>4 DEF Firmware, FwStart, FwAnswer, FwTry, FwRegister, BusStays, busVars,
         driverVars, FirmwareFirst
  <2>2. alive' = alive /\ removal' = removal /\ alive = {"wldev", "wl"}
    BY <1>0, <1>4, <2>1 DEF Firmware, FwStart, FwAnswer, FwTry, FwRegister, Existing
  <2>3. (known' \/ rng') => ucode'
    BY <1>0, <1>4, <2>1 DEF Firmware, FwStart, FwAnswer, FwTry, FwRegister, FirmwareFirst
  <2> QED
    BY <2>1, <2>2, <2>3 DEF Existing
<1>5. CASE Running
  <2>1. /\ UNCHANGED <<alive, ucode, known, rng, removal>> /\ bound' = bound
        /\ current' \in {current, "NULL"}
    BY <1>5 DEF Running, Open, Close, RestartAsked, RestartRun, RestartFreed, RngRead, Reload, MacChanges,
         BusStays, busVars, driverVars
  <2> QED
    BY <1>0, <2>1 DEF Existing, AttachType
<1>6. ASSUME NEW i \in bound, RemoveBegin(i)
      PROVE  Existing'
  <2>1. bound' = bound
    BY <1>6 DEF RemoveBegin, BusStays, busVars, driverVars
  <2> QED
    BY <1>0, <1>6, <2>1 DEF RemoveBegin, Existing
<1>7. ASSUME NEW i \in bound, RemoveNothing(i)
      PROVE  Existing'
  <2>1. bound' = {}
    BY <1>7, Alone DEF RemoveNothing, DeviceRemove
  <2> QED
    BY <1>0, <1>7, <2>1 DEF RemoveNothing, Existing, AttachType
<1>8. ASSUME NEW i \in bound, RemoveFree(i)
      PROVE  Existing'
  <2>1. bound' = {}
    BY <1>8, Alone DEF RemoveFree, DeviceRemove
  <2> QED
    BY <1>0, <1>8, <2>1 DEF RemoveFree, Existing, AttachType
<1>9. CASE RemoveDecide \/ RemoveUnregister \/ RemoveDetach
  <2>1. bound' = bound /\ bound # {}
    BY <1>0, <1>9 DEF RemoveDecide, RemoveUnregister, RemoveDetach, BusStays, busVars, driverVars,
         Existing
  <2>2. CASE RemoveDecide
    BY <1>0, <2>1, <2>2 DEF RemoveDecide, Existing
  <2>3. CASE RemoveUnregister
    BY <1>0, <2>1, <2>3 DEF RemoveUnregister, Existing
  <2>4. CASE RemoveDetach
    BY <1>0, <2>1, <2>4 DEF RemoveDetach, Existing
  <2> QED
    BY <1>9, <2>2, <2>3, <2>4
<1>10. CASE UNCHANGED vars
  BY <1>0, <1>10 DEF vars, busVars, attachVars, driverVars, Existing
<1> QED
  BY <1>1, <1>2, <1>3, <1>4, <1>5, <1>6, <1>7, <1>8, <1>9, <1>10 DEF Next, Attaching, Removing

LEMMA UpStep == BusInv /\ OneD11 /\ AttachInv /\ [Next]_vars => UpInv'
<1> SUFFICES ASSUME BusInv, OneD11, AttachInv, [Next]_vars
             PROVE  UpInv'
  OBVIOUS
<1>0. AttachType /\ FirmwareFirst /\ Existing /\ UpInv
  BY DEF AttachInv
<1>1. up => known /\ current = "dev" /\ ucode /\ bound # {} /\ power
  BY <1>0, Present DEF UpInv, Existing
<1>2. ASSUME UNCHANGED <<current, known, iface, up, restart, reload>>, up => Clocked' = Clocked
      PROVE  UpInv'
  BY <1>0, <1>2 DEF UpInv
<1>3. CASE BusSteps
  BY <1>1, <1>2, <1>3, BusSpares DEF BusSteps, attachVars
<1>4. ASSUME NEW i \in toProbe, AttachOk(i)
      PROVE  UpInv'
  BY <1>4 DEF AttachOk, UpInv
<1>5. ASSUME NEW i \in toProbe, AttachFails(i)
      PROVE  UpInv'
  BY <1>1, <1>2, <1>5, Alone DEF AttachFails
<1>6. CASE Firmware
  <2>1. /\ ~known /\ Clocked' = Clocked /\ UNCHANGED <<current, iface, up, restart, reload>>
    BY <1>0, <1>6 DEF Firmware, FwStart, FwAnswer, FwTry, FwRegister, BusStays, busVars, Clocked,
         FirmwareFirst
  <2> QED
    BY <1>0, <2>1 DEF UpInv
<1>7. \A m : DOMAIN m = {"bits", "reset"} =>
        /\ DOMAIN CoreOff(m) = {"bits", "reset"}
        /\ "CLK" \in CoreReset(m).bits /\ ~CoreReset(m).reset
  BY Enabled
<1>8. CASE Open
  <2>1. known /\ UNCHANGED <<current, known, restart>>
    BY <1>8 DEF Open, Calls
  <2>2. CASE UNCHANGED <<iface, up, reload>> /\ ~up
    BY <1>0, <2>1, <2>2 DEF UpInv
  <2>3. CASE UNCHANGED <<iface, up, reload>> /\ BusStays
    BY <1>2, <2>1, <2>3 DEF BusStays, busVars, Clocked
  <2>4. CASE ~Gone /\ current = "dev" /\ mac' = CoreReset(mac) /\ up' = TRUE /\ iface' = "open"
             /\ MacChanges
    <3>1. power' /\ mac' = CoreReset(mac)
      BY <2>1, <2>4, Present DEF MacChanges
    <3>2. Clocked'
      BY <1>0, <1>7, <3>1 DEF AttachType, Clocked
    <3> QED
      BY <2>1, <2>4, <3>2 DEF UpInv
  <2>5. ~up
    BY <1>0, <1>8 DEF Open, UpInv
  <2> QED
    BY <1>8, <2>2, <2>3, <2>4, <2>5 DEF Open
<1>9. CASE Close
  <2>1. known /\ UNCHANGED <<current, known, restart, reload>> /\ up' = FALSE /\ iface' = "closed"
        /\ "start" \notin reload
    BY <1>9 DEF Close
  <2> QED
    BY <2>1 DEF UpInv
<1>10. CASE RestartAsked
  <2>1. UNCHANGED <<current, known, iface, up, reload>> /\ Clocked' = Clocked /\ up
    BY <1>10 DEF RestartAsked, BusStays, busVars, Clocked
  <2> QED
    BY <1>0, <1>1, <2>1 DEF UpInv
<1>11. CASE RestartRun
  <2>1. known /\ UNCHANGED <<known, iface>>
    BY <1>0, <1>11 DEF RestartRun, UpInv
  <2>2. CASE up /\ mac' = CoreReset(CoreOff(mac)) /\ UNCHANGED <<current, up>> /\ MacChanges
    <3>1. power' /\ mac' = CoreReset(CoreOff(mac))
      BY <1>1, <2>2 DEF MacChanges
    <3>2. Clocked'
      BY <1>0, <1>7, <3>1 DEF AttachType, Clocked
    <3> QED
      BY <1>0, <2>1, <2>2, <3>2 DEF UpInv
  <2>3. CASE current' = "NULL" /\ up' = FALSE
    BY <2>1, <2>3 DEF UpInv
  <2>4. CASE ~up /\ reload' = reload \union {"restart"} /\ UNCHANGED <<current, up>>
    BY <1>0, <2>1, <2>4 DEF UpInv
  <2> QED
    BY <1>11, <2>2, <2>3, <2>4 DEF RestartRun
<1>12. CASE Reload("start") \/ Reload("restart")
  <2>1. UNCHANGED <<current, known, iface, up, restart>> /\ Clocked' = Clocked
        /\ reload' \subseteq reload
    BY <1>12 DEF Reload, BusStays, busVars, Clocked
  <2> QED
    BY <1>0, <2>1 DEF UpInv
<1>13. CASE RngRead
  BY <1>2, <1>13 DEF RngRead, BusStays, busVars, Clocked
<1>14. ASSUME NEW i \in bound, RemoveBegin(i)
       PROVE  UpInv'
  <2>1. UNCHANGED <<current, known, iface, up, reload>> /\ Clocked' = Clocked /\ restart' = FALSE
    BY <1>14 DEF RemoveBegin, BusStays, busVars, Clocked
  <2> QED
    BY <1>0, <2>1 DEF UpInv
<1>15. ASSUME NEW i \in bound, RemoveNothing(i) \/ RemoveFree(i)
       PROVE  UpInv'
  BY <1>2, <1>15 DEF RemoveNothing, RemoveFree, DeviceRemove, Clocked
<1>16. CASE RemoveDecide \/ RemoveDetach
  BY <1>2, <1>16 DEF RemoveDecide, RemoveDetach, BusStays, busVars, Clocked
<1>17. CASE RemoveUnregister
  <2>1. UNCHANGED <<current, iface, up, restart, reload>> /\ iface = "closed" /\ ~restart
        /\ reload = {}
    BY <1>17 DEF RemoveUnregister
  <2> QED
    BY <1>0, <2>1 DEF UpInv
<1>18. CASE UNCHANGED vars
  BY <1>2, <1>18 DEF vars, busVars, attachVars, Clocked
<1>19. CASE RestartFreed
  <2>1. UNCHANGED <<current, known, iface, up, reload>> /\ Clocked' = Clocked /\ restart' = FALSE
    BY <1>19 DEF RestartFreed, BusStays, busVars, Clocked
  <2> QED
    BY <1>0, <2>1 DEF UpInv
<1> QED
  BY <1>3, <1>4, <1>5, <1>6, <1>8, <1>9, <1>10, <1>11, <1>12, <1>13, <1>14, <1>15, <1>16, <1>17,
     <1>18, <1>19 DEF Next, Attaching, Running, Removing

LEMMA AccessStep == BusInv /\ AttachInv /\ [Next]_vars => AccessSafe'
<1> SUFFICES ASSUME BusInv, AttachInv, [Next]_vars
             PROVE  AccessSafe'
  OBVIOUS
<1>0. AttachType /\ Existing /\ UpInv /\ AccessSafe
  BY DEF AttachInv
<1>1. CASE faults' = faults
  BY <1>0, <1>1 DEF AccessSafe
<1>2. ASSUME NEW who, NEW what, Fault(who, what),
             what = "freed" => who = "rng" \/ current = "NULL",
             what = "unclocked" => who = "restart",
             what = "null" => who \in {"start", "restart"}
      PROVE  AccessSafe'
  BY <1>0, <1>2 DEF Fault, AccessSafe
<1>3. known /\ Gone => current = "NULL"
  BY <1>0, Present DEF AttachType
<1>4. CASE Open
  <2>1. CASE Gone /\ Fault("start", "freed")
    BY <1>2, <1>3, <1>4, <2>1 DEF Open, Calls
  <2>2. CASE Fault("start", "null")
    BY <1>2, <2>2
  <2> QED
    BY <1>1, <1>4, <2>1, <2>2 DEF Open
<1>5. CASE Close
  BY <1>1, <1>2, <1>3, <1>5 DEF Close
<1>6. ASSUME NEW who \in {"start", "restart"}, Reload(who)
      PROVE  AccessSafe'
  <2>1. known /\ (who = "start" /\ current = "dev" => Clocked)
    BY <1>0, <1>6 DEF Reload, UpInv
  <2>2. CASE Gone /\ Fault(who, "freed")
    BY <1>2, <1>3, <2>1, <2>2
  <2>3. CASE Fault(who, "null")
    BY <1>2, <2>3
  <2>4. CASE current = "dev" /\ ~Clocked /\ Fault(who, "unclocked")
    BY <1>2, <2>1, <2>4
  <2> QED
    BY <1>1, <1>6, <2>2, <2>3, <2>4 DEF Reload
<1>7. CASE RngRead
  <2>1. CASE Fault("rng", "freed")
    BY <1>2, <2>1
  <2>2. Gone
    BY <1>0, <1>7 DEF RngRead, UpInv
  <2> QED
    BY <1>7, <2>1, <2>2 DEF RngRead
<1>8. CASE BusSteps \/ Attaching \/ Firmware \/ RestartAsked \/ RestartRun \/ Removing
           \/ UNCHANGED vars
  BY <1>1, <1>8 DEF BusSteps, attachVars, vars, Attaching, AttachOk, AttachFails, Firmware, FwStart,
       FwAnswer, FwTry, FwRegister, RestartAsked, RestartRun, Removing, RemoveBegin, RemoveNothing,
       RemoveFree, RemoveDecide, RemoveUnregister, RemoveDetach
<1>9. CASE RestartFreed
  <2>1. (known /\ Gone) \/ current = "NULL"
    BY <1>0, <1>9 DEF RestartFreed, Gone, AttachType, UpInv
  <2> QED
    BY <1>2, <1>3, <1>9, <2>1 DEF RestartFreed
<1> QED
  BY <1>4, <1>5, <1>6, <1>7, <1>8, <1>9 DEF Next, Running

LEMMA AttachInvariant == Spec /\ []OneD11 => []AttachInv
<1>1. Init => AttachInv
  BY AttachStarts
<1>2. BusInv /\ OneD11 /\ AttachInv /\ [Next]_vars => AttachInv'
  BY TypeStep, FirmwareStep, ExistingStep, UpStep, AccessStep DEF AttachInv
<1> QED
  BY <1>1, <1>2, BusInvariant, PTL DEF Spec

(* Once the driver is unbound nothing of it is left to be called, however  *)
(* far its attaching had come and whatever ran beside the removal          *)
(* (b43_bcma_remove), on a chip with one core for it; but for the hardware *)
(* and the restart that a failed restart makes the removal leave behind.   *)
THEOREM NothingOutlives == Spec /\ []OneD11 => []NoCallbackOutlives
<1>1. AttachInv => NoCallbackOutlives
  BY DEF AttachInv, FirmwareFirst, Existing, UpInv, NoCallbackOutlives
<1> QED
  BY <1>1, AttachInvariant, PTL

(* Who may reach a device that is freed, has no clock or is not there, on  *)
(* such a chip: the random number generator, mac80211, a restart and its   *)
(* reload in the windows the property names, and nobody else.              *)
THEOREM FaultsKnown == Spec /\ []OneD11 => []AccessSafe
<1>1. AttachInv => AccessSafe
  BY DEF AttachInv
<1> QED
  BY <1>1, AttachInvariant, PTL

(***************************************************************************)
(* The scan.  First the loops over the words, which are recursive          *)
(* functions: that they are defined, and where they end in words that are  *)
(* laid out as CoreLaid says.  Each argument by induction is one by the    *)
(* least counterexample.                                                   *)
(***************************************************************************)

(* A set of natural numbers has a least element.                           *)
LEMMA Least ==
  ASSUME NEW T \in SUBSET Nat, T # {}
  PROVE  \E x \in T : \A y \in T : x <= y
<1>1. PICK x \in T : \A y \in T : ~(<<y, x>> \in OpToRel(<, Nat))
  BY NatLessThanWellFounded, WFMin
<1>2. \A y \in T : ~(y < x)
  BY <1>1, Zenon DEF OpToRel
<1> QED
  BY <1>2

(* What the words of this chip's ROM are known to be where it is whole.    *)
RomFits == Len(rom.words) \in 1..Window

(* Nothing stands beyond the words of the ROM, and descriptors are short.  *)
LEMMA WordBounds ==
  ASSUME RomFits, NEW q \in Int
  PROVE  /\ At(q).tag # "none" => q <= Len(rom.words)
         /\ DescWords(q) \in 1..4
         /\ \A type, port : IsDesc(q, type, port) => q <= Len(rom.words)
<1>1. At(q).tag # "none" => q <= Len(rom.words)
  BY DEF At, WordAt, Blank
<1>2. DescWords(q) \in 1..4
  BY DEF DescWords, WordsFrom
<1>3. ASSUME NEW type, NEW port, IsDesc(q, type, port)
      PROVE  At(q).tag # "none"
  BY <1>3 DEF IsDesc, DescAt, At
<1> QED
  BY <1>1, <1>2, <1>3

(* The loop over the descriptors of a port ends, beyond the window at the  *)
(* latest.                                                                 *)
LEMMA RunDefined ==
  ASSUME RomFits, NEW type, NEW port, NEW n \in Nat, NEW top, top = Window + 4
  PROVE  \E f : f = [q \in (top - n)..top |->
                       IF IsDesc(q, type, port) THEN f[q + DescWords(q)] ELSE q]
<1> DEFINE Def(f, k) == f = [q \in (top - k)..top |->
                               IF IsDesc(q, type, port) THEN f[q + DescWords(q)] ELSE q]
           Bad == {k \in Nat : ~ \E f : Def(f, k)}
<1>0. top \in Nat /\ top > Len(rom.words) + 3 /\ Len(rom.words) \in Nat
  BY WindowAssumption DEF RomFits
<1>1. \A q \in Int : IsDesc(q, type, port) => q + DescWords(q) \in (q + 1)..top
  BY <1>0, WordBounds
<1>2. ~ IsDesc(top, type, port)
  BY <1>0, WordBounds
<1> SUFFICES ASSUME Bad # {}
             PROVE  FALSE
  OBVIOUS
<1>3. PICK k \in Bad : \A j \in Bad : k <= j
  BY Least
<1>4. k # 0
  <2> DEFINE g == [q \in (top - 0)..top |-> q]
  <2>1. \A q \in (top - 0)..top : q = top
    BY <1>0
  <2>2. Def(g, 0)
    BY <1>2, <2>1
  <2> QED
    BY <2>2
<1>5. PICK f : Def(f, k - 1)
  <2>1. k \in Nat /\ k - 1 \in Nat /\ ~(k <= k - 1)
    BY <1>4
  <2>2. k - 1 \notin Bad
    <3> HIDE DEF Bad
    <3> QED
      BY <1>3, <2>1
  <2> QED
    BY <2>1, <2>2
<1> DEFINE first == top - k
           g == [q \in first..top |->
                   IF q = first THEN (IF IsDesc(q, type, port) THEN f[q + DescWords(q)] ELSE q)
                   ELSE f[q]]
<1>6. ASSUME NEW q \in first..top
      PROVE  g[q] = IF IsDesc(q, type, port) THEN g[q + DescWords(q)] ELSE q
  <2>0. first \in Int /\ q \in Int /\ first <= q
    BY <1>0
  <2>1. IsDesc(q, type, port) => /\ q + DescWords(q) \in first..top
                                 /\ q + DescWords(q) # first
    BY <1>0, <1>1, <2>0
  <2>2. IsDesc(q, type, port) => g[q + DescWords(q)] = f[q + DescWords(q)]
    BY <2>1
  <2>3. CASE q = first
    BY <2>2, <2>3
  <2>4. CASE q # first
    <3>1. q \in (top - (k - 1))..top
      BY <1>0, <2>0, <2>4
    <3>2. f[q] = IF IsDesc(q, type, port) THEN f[q + DescWords(q)] ELSE q
      BY <1>5, <3>1
    <3> QED
      BY <2>2, <2>4, <3>2
  <2> QED
    BY <2>3, <2>4
<1>7. Def(g, k)
  <2> DEFINE h == [q \in (top - k)..top |->
                     IF IsDesc(q, type, port) THEN g[q + DescWords(q)] ELSE q]
  <2>1. DOMAIN g = first..top /\ DOMAIN h = first..top
    OBVIOUS
  <2>2. g = h
    BY <1>6
  <2> QED
    BY <2>2
<1> QED
  BY <1>7

(* A run of descriptors is passed over as a whole, from wherever one of its *)
(* descriptors begins.                                                     *)
LEMMA RunFound ==
  ASSUME RomFits, NEW type, NEW port, NEW a \in Nat \ {0}, NEW b \in 1..Len(rom.words),
         NEW starts \in SUBSET (1..(b - 1)), a \in starts \union {b},
         \A p \in starts : /\ IsDesc(p, type, port)
                           /\ p + DescWords(p) \in starts \union {b},
         ~IsDesc(b, type, port)
  PROVE  RunEnd(type, port, a) = b
<1> DEFINE top == Window + 4
           f == CHOOSE g : g = [q \in a..top |->
                                  IF IsDesc(q, type, port) THEN g[q + DescWords(q)] ELSE q]
           Bad == {n \in Nat : b - n \in starts \union {b} /\ b - n \in a..b /\ f[b - n] # b}
<1>1. RunEnd(type, port, a) = f[a]
  BY DEF RunEnd
<1>0. top \in Nat /\ b \in Nat /\ a <= b /\ b < top
  BY WindowAssumption DEF RomFits
<1>2. \A q \in a..top :
        f[q] = IF IsDesc(q, type, port) THEN f[q + DescWords(q)] ELSE q
  <2>1. top - a \in Nat /\ top - (top - a) = a
    BY <1>0
  <2>2. \E g : g = [q \in a..top |->
                      IF IsDesc(q, type, port) THEN g[q + DescWords(q)] ELSE q]
    <3> HIDE DEF f
    <3>1. \A n \in Nat : \E g : g = [q \in (top - n)..top |->
                      IF IsDesc(q, type, port) THEN g[q + DescWords(q)] ELSE q]
      BY RunDefined
    <3> QED
      BY <2>1, <3>1
  <2>3. f = [q \in a..top |-> IF IsDesc(q, type, port) THEN f[q + DescWords(q)] ELSE q]
    BY <2>2
  <2> HIDE DEF f
  <2> QED
    BY <2>3
<1> HIDE DEF f
<1>3. ASSUME Bad # {}
      PROVE  FALSE
  <2>1. PICK n \in Bad : \A m \in Bad : n <= m
    BY <1>3, Least
  <2> DEFINE q == b - n
  <2>2. n \in Nat /\ q \in starts \union {b} /\ q \in a..b /\ f[q] # b
    BY <2>1
  <2>3. q \in a..top
    BY <1>0, <2>2
  <2>4. CASE q = b
    BY <1>2, <2>2, <2>3, <2>4
  <2>5. CASE q # b
    <3>1. q \in starts /\ q \in Int
      BY <2>2, <2>5
    <3>2. IsDesc(q, type, port) /\ q + DescWords(q) \in starts \union {b} /\ DescWords(q) \in 1..4
      BY <3>1, WordBounds
    <3>3. f[q] = f[q + DescWords(q)]
      BY <1>2, <2>3, <3>2
    <3> DEFINE m == n - DescWords(q)
    <3>4. m \in Nat /\ m < n /\ b - m = q + DescWords(q) /\ b - m \in a..b
      BY <1>0, <2>2, <3>2
    <3>5. m \in Bad
      BY <2>2, <3>2, <3>3, <3>4
    <3> HIDE DEF m, Bad
    <3> QED
      BY <2>1, <2>2, <3>4, <3>5
  <2> QED
    BY <2>4, <2>5
<1>4. b - a \in Nat /\ b - (b - a) = a /\ a \in a..b
  BY <1>0
<1>5. b - a \notin Bad
  BY <1>3
<1> QED
  BY <1>1, <1>4, <1>5

(* The loop over the ports as a function of its own.                       *)
PortEnds(type, first, n, p) ==
  CHOOSE f : f = [i \in 0..n |-> IF i = 0 THEN p ELSE RunEnd(type, first + i - 1, f[i - 1])]

(* What the loop over the ports comes to after each of them.               *)
LEMMA PortsSteps ==
  ASSUME NEW type, NEW first \in Nat, NEW n \in Nat, NEW p
  PROVE  /\ PortEnds(type, first, n, p)[0] = p
         /\ \A i \in 1..n : PortEnds(type, first, n, p)[i]
                            = RunEnd(type, first + i - 1, PortEnds(type, first, n, p)[i - 1])
         /\ PortsEnd(type, first, n, p) = PortEnds(type, first, n, p)[n]
<1> DEFINE Def(f, k) == f = [i \in 0..k |->
                               IF i = 0 THEN p ELSE RunEnd(type, first + i - 1, f[i - 1])]
           Bad == {k \in Nat : ~ \E f : Def(f, k)}
<1>1. ASSUME Bad # {}
      PROVE  FALSE
  <2>1. PICK k \in Bad : \A j \in Bad : k <= j
    BY <1>1, Least
  <2>2. k # 0
    <3> DEFINE g == [i \in 0..0 |-> p]
    <3>1. \A i \in 0..0 : i = 0
      OBVIOUS
    <3>2. Def(g, 0)
      BY <3>1
    <3> QED
      BY <3>2
  <2>3. PICK f : Def(f, k - 1)
    <3>1. k \in Nat /\ k - 1 \in Nat /\ ~(k <= k - 1)
      BY <2>2
    <3>2. k - 1 \notin Bad
      <4> HIDE DEF Bad
      <4> QED
        BY <2>1, <3>1
    <3> QED
      BY <3>1, <3>2
  <2> DEFINE g == [i \in 0..k |->
                     IF i = k THEN RunEnd(type, first + k - 1, f[k - 1]) ELSE f[i]]
  <2>4. ASSUME NEW i \in 0..k
        PROVE  g[i] = IF i = 0 THEN p ELSE RunEnd(type, first + i - 1, g[i - 1])
    <3>1. CASE i = k
      <4>1. i - 1 \in 0..k /\ g[i - 1] = f[k - 1]
        BY <2>2, <3>1
      <4> QED
        BY <2>2, <3>1, <4>1
    <3>2. CASE i # k
      <4>1. g[i] = f[i] /\ (i # 0 => g[i - 1] = f[i - 1]) /\ i \in 0..(k - 1)
        BY <3>2
      <4>2. f[i] = IF i = 0 THEN p ELSE RunEnd(type, first + i - 1, f[i - 1])
        BY <2>3, <4>1
      <4> QED
        BY <4>1, <4>2
    <3> QED
      BY <3>1, <3>2
  <2>5. Def(g, k)
    <3> DEFINE h == [i \in 0..k |-> IF i = 0 THEN p ELSE RunEnd(type, first + i - 1, g[i - 1])]
    <3>1. DOMAIN g = 0..k /\ DOMAIN h = 0..k
      OBVIOUS
    <3>2. g = h
      BY <2>4
    <3> QED
      BY <3>2
  <2> QED
    BY <2>5
<1>2. \E f : Def(f, n)
  BY <1>1
<1> DEFINE end == CHOOSE f : Def(f, n)
<1>3. PortEnds(type, first, n, p) = end /\ PortsEnd(type, first, n, p) = end[n]
  BY DEF PortsEnd, PortEnds
<1>4. Def(end, n)
  BY <1>2
<1> HIDE DEF end
<1>5. end[0] = p /\ \A i \in 1..n : end[i] = RunEnd(type, first + i - 1, end[i - 1])
  BY <1>4
<1> QED
  BY <1>3, <1>5

(* From the end of each port but the first the next port is passed over.   *)
Follows(type, first, n, edge) ==
  \A i \in 2..n : RunEnd(type, first + i - 1, edge[i - 1]) = edge[i]

(* The ports one after the other, the first from wherever its run is met.  *)
LEMMA PortsFound ==
  ASSUME NEW type, NEW first \in Nat, NEW n \in Nat, NEW p, NEW edge,
         n = 0 => edge[0] = p,
         n > 0 => RunEnd(type, first, p) = edge[1],
         Follows(type, first, n, edge)
  PROVE  PortsEnd(type, first, n, p) = edge[n]
<1> USE DEF Follows
<1> DEFINE f == PortEnds(type, first, n, p)
<1>1. /\ f[0] = p
      /\ \A i \in 1..n : f[i] = RunEnd(type, first + i - 1, f[i - 1])
      /\ PortsEnd(type, first, n, p) = f[n]
  BY PortsSteps
<1> HIDE DEF f
<1> DEFINE Bad == {i \in Nat : i \in 1..n /\ f[i] # edge[i]}
<1>2. ASSUME Bad # {}
      PROVE  FALSE
  <2>1. PICK i \in Bad : \A j \in Bad : i <= j
    BY <1>2, Least
  <2>2. i \in 1..n /\ f[i] # edge[i]
    BY <2>1
  <2>3. CASE i = 1
    <3>1. first + 1 - 1 = first
      OBVIOUS
    <3> QED
      BY <1>1, <2>2, <2>3, <3>1
  <2>4. CASE i # 1
    <3>1. i - 1 \in 1..n /\ i - 1 \in Nat /\ ~(i <= i - 1) /\ i \in 2..n
      BY <2>2, <2>4
    <3>2. i - 1 \notin Bad
      <4> HIDE DEF Bad
      <4> QED
        BY <2>1, <3>1
    <3>3. f[i - 1] = edge[i - 1]
      BY <3>1, <3>2
    <3> QED
      BY <1>1, <2>2, <3>1, <3>3
  <2> QED
    BY <2>3, <2>4
<1> QED
  BY <1>1, <1>2

(* A component is skipped to the next identification or end mark.          *)
LEMMA SkipFound ==
  ASSUME RomFits, NEW p \in Nat, NEW q \in 1..Len(rom.words), p <= q,
         \A m \in p..(q - 1) : At(m).tag \notin {"ci", "end"}, At(q).tag \in {"ci", "end"}
  PROVE  SkipTo(p) = q /\ q # Beyond
<1> DEFINE stops == {m \in p..Window : At(m).tag \in {"ci", "end"}}
<1>1. q \in stops /\ \A m \in stops : q <= m
  BY WindowAssumption DEF RomFits
<1>2. stops \subseteq Int
  OBVIOUS
<1>3. SkipTo(p) = Min(stops)
  BY <1>1 DEF SkipTo
<1> HIDE DEF stops
<1>4. Min(stops) = q
  <2>1. \A x \in stops : (\A y \in stops : x <= y) => x = q
    BY <1>1, <1>2
  <2> QED
    BY <1>1, <2>1 DEF Min
<1> QED
  BY <1>3, <1>4, WindowAssumption DEF RomFits, Beyond

(* A run as the ROM lays it out is passed over, also after its first word. *)
LEMMA RunLaid ==
  ASSUME RomFits, NEW type, NEW port, NEW a \in 1..Len(rom.words), NEW b \in 1..Len(rom.words),
         RunOf(rom.words, type, port, a, b)
  PROVE  /\ RunEnd(type, port, a) = b
         /\ IsDesc(a, type, port) => RunEnd(type, port, a + DescWords(a)) = b
<1>1. a <= b /\ ~IsDesc(b, type, port)
  BY DEF RunOf, IsDesc
<1>2. PICK starts \in SUBSET (a..(b - 1)) :
        /\ a < b => a \in starts
        /\ \A p \in starts : IsDesc(p, type, port) /\ p + DescWords(p) \in starts \union {b}
  BY DEF RunOf, IsDesc, DescWords
<1>0. Len(rom.words) \in Nat
  BY DEF RomFits
<1>3. starts \in SUBSET (1..(b - 1)) /\ a \in starts \union {b} /\ a \in Nat \ {0}
  BY <1>0, <1>1, <1>2
<1>4. RunEnd(type, port, a) = b
  BY <1>1, <1>2, <1>3, RunFound
<1>5. ASSUME IsDesc(a, type, port)
      PROVE  RunEnd(type, port, a + DescWords(a)) = b
  <2>1. a \in starts /\ DescWords(a) \in 1..4
    BY <1>0, <1>1, <1>2, <1>5, WordBounds
  <2>2. a + DescWords(a) \in starts \union {b} /\ a + DescWords(a) \in Nat \ {0}
    BY <1>2, <2>1
  <2> QED
    BY <1>1, <1>2, <1>3, <2>2, RunFound
<1> QED
  BY <1>4, <1>5

(* So are the runs of several ports.                                       *)
LEMMA PortsLaid ==
  ASSUME RomFits, NEW type, NEW first \in Nat, NEW n \in Nat,
         NEW a \in 1..Len(rom.words), NEW b \in 1..Len(rom.words),
         PortsOf(rom.words, type, first, n, a, b)
  PROVE  /\ PortsEnd(type, first, n, a) = b
         /\ n > 0 /\ IsDesc(a, type, first) =>
              PortsEnd(type, first, n, a + DescWords(a)) = b
<1>1. PICK edge \in [0..n -> a..b] :
        /\ edge[0] = a /\ edge[n] = b
        /\ \A i \in 1..n : RunOf(rom.words, type, first + i - 1, edge[i - 1], edge[i])
  BY DEF PortsOf
<1>2. \A i \in 0..n : edge[i] \in 1..Len(rom.words)
  BY <1>1 DEF RomFits
<1>3. Follows(type, first, n, edge)
  <2> SUFFICES ASSUME NEW i \in 2..n
               PROVE  RunEnd(type, first + i - 1, edge[i - 1]) = edge[i]
    BY DEF Follows
  <2>1. i - 1 \in 0..n /\ i \in 0..n /\ i \in 1..n
    OBVIOUS
  <2> QED
    BY <1>1, <1>2, <2>1, RunLaid
<1>4. n > 0 => /\ RunEnd(type, first, a) = edge[1]
               /\ IsDesc(a, type, first) => RunEnd(type, first, a + DescWords(a)) = edge[1]
  <2> SUFFICES ASSUME n > 0
               PROVE  /\ RunEnd(type, first, a) = edge[1]
                      /\ IsDesc(a, type, first) => RunEnd(type, first, a + DescWords(a)) = edge[1]
    OBVIOUS
  <2>1. 1 \in 1..n /\ 1 \in 0..n /\ first + 1 - 1 = first /\ 1 - 1 = 0
    OBVIOUS
  <2>2. RunOf(rom.words, type, first, a, edge[1])
    BY <1>1, <2>1
  <2> QED
    BY <1>2, <2>1, <2>2, RunLaid
<1>5. PortsEnd(type, first, n, a) = edge[n]
  <2>1. (n = 0 => edge[0] = a) /\ (n > 0 => RunEnd(type, first, a) = edge[1])
    BY <1>1, <1>4
  <2> QED
    BY <1>3, <2>1, PortsFound
<1>6. ASSUME n > 0, IsDesc(a, type, first)
      PROVE  PortsEnd(type, first, n, a + DescWords(a)) = edge[n]
  <2>1. n # 0 /\ RunEnd(type, first, a + DescWords(a)) = edge[1]
    BY <1>4, <1>6
  <2> QED
    BY <1>3, <2>1, PortsFound
<1> QED
  BY <1>1, <1>5, <1>6

(* What a call makes of each component of a whole ROM, and of its end.     *)
WholeRom == rom.whole /\ WellFormed(rom)

(* Where the components of a whole ROM begin.                              *)
LEMMA WholeLaid ==
  ASSUME WholeRom
  PROVE  /\ RomFits /\ Len(rom.words) \in Nat \ {0}
         /\ Len(rom.comps) \in Nat /\ DOMAIN rom.comps = 1..Len(rom.comps)
         /\ \A k \in 1..Len(rom.comps) :
              /\ rom.comps[k] \in Components
              /\ Laid(rom.words, rom.comps[k], Begins(rom, k), Begins(rom, k + 1))
         /\ \A k \in 1..(Len(rom.comps) + 1) : /\ Begins(rom, k) \in 1..Len(rom.words)
                                               /\ At(Begins(rom, k)).tag \in {"ci", "end"}
         /\ At(Len(rom.words)).tag = "end" /\ Begins(rom, Len(rom.comps) + 1) = Len(rom.words)
<1>1. /\ Len(rom.words) \in Nat \ {0} /\ rom.comps \in Seq(Components)
      /\ Len(rom.words) \in 1..Window /\ rom.words[Len(rom.words)].tag = "end"
      /\ \A k \in DOMAIN rom.comps :
           Laid(rom.words, rom.comps[k], Begins(rom, k), Begins(rom, k + 1))
  BY WindowAssumption DEF WholeRom, WellFormed
<1>2. Len(rom.comps) \in Nat /\ DOMAIN rom.comps = 1..Len(rom.comps)
  BY <1>1
<1>3. \A k \in 1..Len(rom.comps) : rom.comps[k] \in Components
  BY <1>1, <1>2
<1>4. At(Len(rom.words)).tag = "end" /\ Begins(rom, Len(rom.comps) + 1) = Len(rom.words)
  BY <1>1, <1>2 DEF At, WordAt, Begins
<1>5. ASSUME NEW k \in 1..Len(rom.comps)
      PROVE  Begins(rom, k) \in 1..Len(rom.words) /\ At(Begins(rom, k)).tag = "ci"
  <2>1. Begins(rom, k) = rom.comps[k].at /\ rom.comps[k].at \in Nat \ {0}
    BY <1>2, <1>3 DEF Begins, Components
  <2>2. At(Begins(rom, k)).tag = "ci"
    BY <1>1, <1>2 DEF Laid, At
  <2>3. Begins(rom, k) <= Len(rom.words)
    BY <1>1, <2>1, <2>2 DEF At, WordAt, Blank
  <2> QED
    BY <1>1, <2>1, <2>2, <2>3
<1>6. \A k \in 1..(Len(rom.comps) + 1) : k \in 1..Len(rom.comps) \/ k = Len(rom.comps) + 1
  BY <1>2
<1>7. \A k \in 1..(Len(rom.comps) + 1) : /\ Begins(rom, k) \in 1..Len(rom.words)
                                         /\ At(Begins(rom, k)).tag \in {"ci", "end"}
  BY <1>1, <1>4, <1>5, <1>6
<1> QED
  BY <1>1, <1>2, <1>3, <1>4, <1>7 DEF RomFits

(* The first two words of component k, as the scan reads them.             *)
LEMMA Identified ==
  ASSUME WholeRom, NEW k \in 1..Len(rom.comps), ptr = Begins(rom, k)
  PROVE  /\ ptr \in 1..Len(rom.words) /\ IsCi(ptr) /\ IsCi(ptr + 1)
         /\ At(ptr).id = rom.comps[k].id
         /\ At(ptr + 1).mp = rom.comps[k].mp /\ At(ptr + 1).sp = rom.comps[k].sp
         /\ At(ptr + 1).mw = rom.comps[k].mw /\ At(ptr + 1).sw = rom.comps[k].sw
         /\ IsBridge(ptr + 2) <=> rom.comps[k].bridge
         /\ SkipTo(ptr + 2) = Begins(rom, k + 1)
         /\ ptr + 2 <= Begins(rom, k + 1)
         /\ Begins(rom, k + 1) \in 1..Len(rom.words) /\ Begins(rom, k + 1) # Beyond
<1>1. /\ RomFits /\ Len(rom.words) \in Nat \ {0} /\ Len(rom.comps) \in Nat
      /\ Laid(rom.words, rom.comps[k], ptr, Begins(rom, k + 1))
      /\ ptr \in 1..Len(rom.words)
      /\ Begins(rom, k + 1) \in 1..Len(rom.words) /\ At(Begins(rom, k + 1)).tag \in {"ci", "end"}
  <2>1. k \in 1..(Len(rom.comps) + 1) /\ k + 1 \in 1..(Len(rom.comps) + 1)
    BY WholeLaid
  <2> QED
    BY <2>1, WholeLaid
<1>2. IsCi(ptr) /\ IsCi(ptr + 1)
  BY <1>1 DEF Laid, IsCi, At
<1>3. ptr + 1 <= Len(rom.words)
  BY <1>1, <1>2 DEF IsCi, At, WordAt, Blank
<1>4. At(ptr) = rom.words[ptr] /\ At(ptr + 1) = rom.words[ptr + 1]
  BY <1>1, <1>3 DEF At, WordAt
<1>5. IsBridge(ptr + 2) <=> rom.comps[k].bridge
  BY <1>1 DEF Laid, IsBridge
<1>6. ptr + 2 <= Begins(rom, k + 1)
      /\ \A m \in (ptr + 2)..(Begins(rom, k + 1) - 1) : At(m).tag \notin {"ci", "end"}
  BY <1>1 DEF Laid, At
<1>7. SkipTo(ptr + 2) = Begins(rom, k + 1) /\ Begins(rom, k + 1) # Beyond
  <2>1. ptr + 2 \in Nat
    BY <1>1
  <2> QED
    BY <1>1, <1>6, <2>1, SkipFound
<1> QED
  BY <1>1, <1>2, <1>4, <1>5, <1>6, <1>7 DEF Laid

(* A component that is not a core is passed over.                          *)
LEMMA OthersPassed ==
  ASSUME WholeRom, NEW k \in 1..Len(rom.comps), ptr = Begins(rom, k), ~IsCore(rom.comps[k])
  PROVE  NextCore = Gives("ENXIO", Begins(rom, k + 1))
<1>1. rom.comps[k] \in Components
  BY WholeLaid
<1>2. rom.comps[k].sp \in Nat /\ rom.comps[k].bridge \in BOOLEAN
  BY <1>1 DEF Components
<1>3. /\ IsCi(ptr) /\ IsCi(ptr + 1) /\ At(ptr).tag = "ci"
      /\ SkipTo(ptr + 2) = Begins(rom, k + 1)
  BY Identified DEF IsCi
<1>4. \/ At(ptr).id = "ARMDEFAULT" \/ At(ptr + 1).sp = 0 \/ NotACore(At(ptr), At(ptr + 1))
      \/ IsBridge(ptr + 2)
  <2> DEFINE a == At(ptr)
             b == At(ptr + 1)
             c == rom.comps[k]
  <2>1. /\ a.id = c.id /\ b.sp = c.sp /\ b.mw = c.mw /\ b.sw = c.sw
        /\ IsBridge(ptr + 2) <=> c.bridge
    BY Identified
  <2>2. c.id = "ARMDEFAULT" \/ ~(c.sp > 0) \/ c.bridge
        \/ (~(c.mw + c.sw > 0) /\ ~NeedsNoWrapper(c.id))
    BY DEF IsCore
  <2>3. c.mw \in Nat /\ c.sw \in Nat /\ c.sp \in Nat
    BY <1>1 DEF Components
  <2> HIDE DEF a, b, c
  <2>4. a.id = "ARMDEFAULT" \/ b.sp = 0 \/ NotACore(a, b) \/ IsBridge(ptr + 2)
    BY <2>1, <2>2, <2>3 DEF NotACore
  <2> QED
    BY <2>4 DEF a, b
<1> QED
  BY <1>3, <1>4 DEF NextCore

(* A core is described, with all of its words.                             *)
LEMMA CoreFound ==
  ASSUME WholeRom, NEW k \in 1..Len(rom.comps), ptr = Begins(rom, k), IsCore(rom.comps[k]),
         \A i \in DOMAIN list : list[i].index # coreNum
  PROVE  NextCore = [err |-> "none", id |-> rom.comps[k].id,
                     wrap |-> rom.comps[k].mw + rom.comps[k].sw > 0,
                     ptr |-> Begins(rom, k + 1)]
<1> DEFINE c == rom.comps[k]
           p == ptr + 2 + c.mp
           q == Begins(rom, k + 1)
           hack == IF c.sp = 1 THEN 0 ELSE 1
<1>1. /\ c.id \in STRING /\ c.mp \in Nat /\ c.sp \in Nat \ {0} /\ c.mw \in Nat /\ c.sw \in Nat
      /\ RomFits /\ Len(rom.words) \in Nat \ {0}
  <2>1. c \in Components
    BY WholeLaid
  <2> QED
    BY <2>1, WholeLaid DEF Components, IsCore
<1>2. Laid(rom.words, c, ptr, q) /\ ptr \in 1..Len(rom.words) /\ q \in 1..Len(rom.words)
  BY WholeLaid, Identified
<1>3. /\ \A m \in (ptr + 2)..(p - 1) : At(m).tag = "mp"
      /\ CoreLaid(rom.words, c, p, q)
  <2>1. \A m \in (ptr + 2)..(ptr + c.mp + 1) : WordAt(rom.words, m).tag = "mp"
    BY <1>2 DEF Laid
  <2>2. p - 1 = ptr + c.mp + 1
    <3> DEFINE mp == c.mp
    <3>1. mp \in Nat /\ ptr \in Nat
      BY <1>1, <1>2
    <3> HIDE DEF mp
    <3>2. (ptr + 2 + mp) - 1 = ptr + mp + 1
      BY <3>1
    <3> QED
      BY <3>2 DEF mp
  <2> QED
    BY <1>2, <2>1, <2>2 DEF Laid, At
<1> HIDE DEF c
<1>4. p \in 1..Len(rom.words) /\ IsDesc(p, "slave", 0) /\ At(p).addr # 0
  <2>1. DescAt(rom.words, p, "slave", 0) /\ rom.words[p].addr # 0
    BY <1>3 DEF CoreLaid, Given
  <2>2. p \in Int /\ p > 0
    BY <1>1, <1>2
  <2>3. IsDesc(p, "slave", 0) /\ p <= Len(rom.words)
    BY <1>1, <2>1, <2>2, WordBounds DEF IsDesc
  <2> QED
    BY <1>1, <2>1, <2>2, <2>3 DEF At, WordAt
<1>5. PICK s \in p..q : \E m \in p..q :
        /\ PortsOf(rom.words, "slave", 0, c.sp, p, s)
        /\ PortsOf(rom.words, "mwrap", 0, c.mw, s, m)
        /\ PortsOf(rom.words, "swrap", hack, c.sw, m, q)
        /\ c.mw > 0 => Given(rom.words, s, "mwrap", 0)
        /\ c.mw = 0 /\ c.sw > 0 => Given(rom.words, m, "swrap", hack)
  BY <1>3 DEF CoreLaid
<1>6. PICK m \in p..q :
        /\ PortsOf(rom.words, "slave", 0, c.sp, p, s)
        /\ PortsOf(rom.words, "mwrap", 0, c.mw, s, m)
        /\ PortsOf(rom.words, "swrap", hack, c.sw, m, q)
        /\ c.mw > 0 => Given(rom.words, s, "mwrap", 0)
        /\ c.mw = 0 /\ c.sw > 0 => Given(rom.words, m, "swrap", hack)
  BY <1>5
<1>7. s \in 1..Len(rom.words) /\ m \in 1..Len(rom.words) /\ hack \in Nat
  BY <1>1, <1>2, <1>4
<1> HIDE DEF p, q
<1>8. PortsEnd("slave", 0, c.sp, p + DescWords(p)) = s
  BY <1>1, <1>4, <1>6, <1>7, PortsLaid
<1>9. PortsEnd("mwrap", 0, c.mw, s) = m
  BY <1>1, <1>6, <1>7, PortsLaid
<1>10. PortsEnd("swrap", hack, c.sw, m) = q
  BY <1>1, <1>2, <1>6, <1>7, PortsLaid
<1>11. /\ c.mw > 0 => IsDesc(s, "mwrap", 0) /\ At(s).addr # 0
       /\ c.mw = 0 /\ c.sw > 0 => IsDesc(m, "swrap", hack) /\ At(m).addr # 0
  BY <1>6, <1>7 DEF Given, IsDesc, At, WordAt
<1> DEFINE b == At(ptr + 1)
           wrap == IF c.mw > 0 THEN IsDesc(s, "mwrap", 0) /\ At(s).addr # 0
                   ELSE c.sw > 0 /\ IsDesc(m, "swrap", hack) /\ At(m).addr # 0
<1>12. b.mp = c.mp /\ b.sp = c.sp /\ b.mw = c.mw /\ b.sw = c.sw /\ At(ptr).id = c.id
  BY Identified DEF c
<1>13. Ports(c.id, b, p + DescWords(p)) = [err |-> "none", id |-> c.id, wrap |-> wrap, ptr |-> q]
  BY <1>8, <1>9, <1>10, <1>12 DEF Ports
<1>14. wrap = (c.mw + c.sw > 0)
  BY <1>1, <1>11
<1>15. NextCore = Ports(c.id, b, p + DescWords(p))
  <2>1. IsCi(ptr) /\ IsCi(ptr + 1) /\ At(ptr).tag = "ci"
    BY Identified DEF IsCi
  <2>2. /\ c.id # "ARMDEFAULT" /\ b.sp # 0 /\ ~IsBridge(ptr + 2)
        /\ ~NotACore(At(ptr), b)
    BY <1>1, <1>12, Identified DEF c, IsCore, NotACore
  <2>3. ptr + 2 + b.mp = p
    BY <1>12 DEF p
  <2>4. \A l \in (ptr + 2)..(p - 1) : At(l).tag = "mp"
    BY <1>3 DEF p
  <2> HIDE DEF b
  <2> QED
    BY <1>4, <1>12, <2>1, <2>2, <2>3, <2>4 DEF NextCore, b
<1> QED
  BY <1>13, <1>14, <1>15 DEF c, q

(* The end mark ends the scan.                                             *)
LEMMA EndFound ==
  ASSUME WholeRom, ptr = Len(rom.words)
  PROVE  NextCore = Gives("ESPIPE", ptr)
<1>1. At(ptr).tag = "end"
  BY WholeLaid
<1>2. (At(ptr).tag \notin {"ci", "end"}) = FALSE /\ IsCi(ptr) = FALSE /\ (At(ptr).tag = "end") = TRUE
  BY <1>1 DEF IsCi
<1> QED
  BY <1>2, ZenonT(60) DEF NextCore

(***************************************************************************)
(* Counting the cores among the components.                                *)
(***************************************************************************)
Found(comps, n) == Cardinality(Kept(comps, n))

(* The cores among the first components are finitely many.                 *)
LEMMA KeptFinite ==
  ASSUME NEW comps, NEW n \in Nat
  PROVE  /\ IsFiniteSet(Kept(comps, n)) /\ Found(comps, n) \in Nat
         /\ \A T \in SUBSET Kept(comps, n) : IsFiniteSet(T) /\ Cardinality(T) \in Nat
<1>1. IsFiniteSet(1..n)
  BY FS_Interval
<1>2. Kept(comps, n) \subseteq 1..n
  BY DEF Kept
<1>3. IsFiniteSet(Kept(comps, n))
  BY <1>1, <1>2, FS_Subset
<1>4. \A T \in SUBSET Kept(comps, n) : IsFiniteSet(T)
  BY <1>3, FS_Subset
<1> QED
  BY <1>3, <1>4, FS_CardinalityType DEF Found

(* The next component is one of them if it is a core.                      *)
LEMMA KeptNext ==
  ASSUME NEW comps, NEW n \in Nat
  PROVE  /\ IsCore(comps[n + 1]) => /\ Kept(comps, n + 1) = Kept(comps, n) \union {n + 1}
                                    /\ Found(comps, n + 1) = Found(comps, n) + 1
         /\ ~IsCore(comps[n + 1]) => Kept(comps, n + 1) = Kept(comps, n)
         /\ n + 1 \notin Kept(comps, n)
<1>1. 1..(n + 1) = (1..n) \union {n + 1} /\ n + 1 \notin 1..n
  OBVIOUS
<1>2. /\ IsCore(comps[n + 1]) => Kept(comps, n + 1) = Kept(comps, n) \union {n + 1}
      /\ ~IsCore(comps[n + 1]) => Kept(comps, n + 1) = Kept(comps, n)
      /\ n + 1 \notin Kept(comps, n)
  BY <1>1 DEF Kept
<1>3. Cardinality(Kept(comps, n) \union {n + 1}) = Cardinality(Kept(comps, n)) + 1
  BY <1>2, KeptFinite, FS_AddElement
<1> QED
  BY <1>2, <1>3 DEF Found

(* The cores before a core are fewer than those it is among.               *)
LEMMA FewerBefore ==
  ASSUME NEW comps, NEW n \in Nat, NEW k \in Kept(comps, n)
  PROVE  /\ k \in 1..n /\ Found(comps, k - 1) \in Nat
         /\ Found(comps, k - 1) < Found(comps, n)
<1>1. k \in 1..n /\ k - 1 \in Nat /\ IsCore(comps[k])
  BY DEF Kept
<1>2. Found(comps, k) = Found(comps, k - 1) + 1
  <2>1. (k - 1) + 1 = k
    BY <1>1
  <2> QED
    BY <1>1, <2>1, KeptNext
<1>3. Kept(comps, k) \subseteq Kept(comps, n)
  BY <1>1 DEF Kept
<1>4. Found(comps, k) <= Found(comps, n)
  BY <1>3, KeptFinite, FS_Subset DEF Found
<1>5. Found(comps, k - 1) \in Nat /\ Found(comps, n) \in Nat
  BY <1>1, KeptFinite
<1> QED
  BY <1>1, <1>2, <1>4, <1>5

(* The list is that of the cores among the first n components, and nothing *)
(* else is on it.                                                          *)
KeptListed(n) ==
  /\ ListsCores(rom.comps, n)
  /\ \A i \in DOMAIN list : \E k \in Kept(rom.comps, n) : i = Found(rom.comps, k - 1) + 1

SameKind(comps, n, id) == {j \in Kept(comps, n) : comps[j].id = id}

(* The unit a new core is given is the number of its kind before it.       *)
LEMMA UnitCounts ==
  ASSUME ListInv, NEW n \in Nat, KeptListed(n), NEW id
  PROVE  Unit(id) = Cardinality(SameKind(rom.comps, n, id))
<1> DEFINE comps == rom.comps
           same == {i \in DOMAIN list : list[i].id = id}
           ofKind == SameKind(comps, n, id)
<1>0. PICK S : list \in Seq(S)
  BY DEF ListInv
<1>1. /\ DOMAIN list = 1..Len(list) /\ Len(list) \in Nat /\ Len(list) = Found(comps, n)
      /\ \A k \in Kept(comps, n) : /\ list[Found(comps, k - 1) + 1] = CoreOf(comps, k)
                                   /\ Found(comps, k - 1) + 1 \in DOMAIN list
      /\ \A i \in DOMAIN list : \E k \in Kept(comps, n) : i = Found(comps, k - 1) + 1
  <2>1. DOMAIN list = 1..Len(list) /\ Len(list) \in Nat /\ Len(list) = Found(comps, n)
    BY <1>0 DEF KeptListed, ListsCores, Found
  <2>2. \A k \in Kept(comps, n) : Found(comps, k - 1) + 1 \in DOMAIN list
    BY <2>1, FewerBefore
  <2> QED
    BY <2>1, <2>2 DEF KeptListed, ListsCores, Found
<1>2. \A k \in Kept(comps, n) :
        /\ CoreOf(comps, k).id = comps[k].id
        /\ CoreOf(comps, k).unit = Cardinality(SameKind(comps, k - 1, comps[k].id))
  BY DEF CoreOf, SameKind
<1>3. Unit(id) = IF same = {} THEN 0 ELSE list[Max(same)].unit + 1
  BY DEF Unit
<1> HIDE DEF comps
<1>4. CASE same = {}
  <2>1. ASSUME NEW j \in ofKind
        PROVE  FALSE
    <3>1. j \in Kept(comps, n) /\ comps[j].id = id
      BY DEF SameKind
    <3>2. Found(comps, j - 1) + 1 \in same
      BY <1>1, <1>2, <3>1
    <3> QED
      BY <1>4, <3>2
  <2> QED
    BY <1>3, <1>4, <2>1, FS_EmptySet DEF comps
<1>5. CASE same # {}
  <2> HIDE DEF same
  <2>1. PICK i \in same : \A j \in same : j <= i
    <3>1. same \subseteq 1..Len(list)
      BY <1>1 DEF same
    <3> DEFINE T == {Len(list) - j : j \in same}
    <3>2. T # {} /\ T \in SUBSET Nat
      <4>1. \A j \in same : Len(list) - j \in Nat
        BY <1>1, <3>1
      <4>2. PICK j \in same : TRUE
        BY <1>5
      <4>3. Len(list) - j \in T
        BY <4>2
      <4> QED
        BY <4>1, <4>3
    <3>3. PICK x \in T : \A y \in T : x <= y
      BY <3>2, Least
    <3>4. PICK i \in same : x = Len(list) - i
      BY <3>3
    <3>5. \A j \in same : Len(list) - j \in T
      OBVIOUS
    <3>6. \A j \in same : Len(list) - i <= Len(list) - j
      BY <3>3, <3>4, <3>5
    <3>7. \A j \in same : j <= i
      BY <1>1, <3>1, <3>6
    <3> QED
      BY <3>7
  <2>2. same \subseteq Int
    BY <1>1 DEF same
  <2>3. Max(same) = i
    <3>1. \A x \in same : (\A y \in same : y <= x) => x = i
      BY <2>1, <2>2
    <3>2. \A x \in same : (\A y \in same : x >= y) => x = i
      BY <2>2, <3>1
    <3>3. \A y \in same : i >= y
      BY <2>1, <2>2
    <3> QED
      BY <3>2, <3>3 DEF Max
  <2>4. i \in DOMAIN list /\ list[i].id = id
    BY <2>1 DEF same
  <2>5. PICK k \in Kept(comps, n) : i = Found(comps, k - 1) + 1
    BY <1>1, <2>4
  <2>6. comps[k].id = id /\ list[i].unit = Cardinality(SameKind(comps, k - 1, id))
    BY <1>1, <1>2, <2>4, <2>5
  <2>7. ofKind = SameKind(comps, k - 1, id) \union {k}
    <3>1. k \in 1..n
      BY FewerBefore
    <3>2. k \in ofKind
      BY <2>6 DEF SameKind
    <3>3. SameKind(comps, k - 1, id) \subseteq ofKind
      BY <3>1 DEF SameKind, Kept
    <3>4. ASSUME NEW j \in ofKind, j # k
          PROVE  j \in SameKind(comps, k - 1, id)
      <4>1. j \in Kept(comps, n) /\ comps[j].id = id
        BY DEF SameKind
      <4>2. j \in 1..n
        BY <4>1, FewerBefore
      <4>3. Found(comps, j - 1) + 1 \in same
        BY <1>1, <1>2, <4>1 DEF same
      <4>4. Found(comps, j - 1) + 1 <= i
        BY <2>1, <4>3
      <4>5. j < k
        <5>1. SUFFICES ASSUME ~(j < k)
                       PROVE  FALSE
          OBVIOUS
        <5>2. j - 1 \in Nat /\ k \in Kept(comps, j - 1)
          BY <3>1, <3>4, <4>2, <5>1 DEF Kept
        <5>3. Found(comps, k - 1) < Found(comps, j - 1) /\ Found(comps, k - 1) \in Nat
          BY <5>2, FewerBefore
        <5>4. Found(comps, j - 1) \in Nat
          BY <5>2, KeptFinite
        <5> QED
          BY <2>5, <4>4, <5>3, <5>4
      <4> QED
        BY <3>1, <4>1, <4>2, <4>5 DEF SameKind, Kept
    <3> QED
      BY <3>2, <3>3, <3>4
  <2>8. k \notin SameKind(comps, k - 1, id) /\ IsFiniteSet(SameKind(comps, k - 1, id))
        /\ Cardinality(SameKind(comps, k - 1, id)) \in Nat
    <3>1. k \in 1..n /\ k - 1 \in Nat
      BY FewerBefore
    <3>2. SameKind(comps, k - 1, id) \in SUBSET Kept(comps, k - 1)
      BY DEF SameKind
    <3>3. k \notin 1..(k - 1)
      BY <3>1
    <3> QED
      BY <3>1, <3>2, <3>3, KeptFinite DEF SameKind, Kept
  <2>9. Cardinality(ofKind) = Cardinality(SameKind(comps, k - 1, id)) + 1
    BY <2>7, <2>8, FS_AddElement
  <2> QED
    BY <1>3, <1>5, <2>3, <2>6, <2>9 DEF comps
<1> QED
  BY <1>4, <1>5

(* The core that is found takes its place on the list.                     *)
LEMMA CoreListed ==
  ASSUME ListInv, NEW n \in Nat, KeptListed(n), coreNum = Len(list),
         IsCore(rom.comps[n + 1]), rom' = rom,
         NEW c, c = [id |-> rom.comps[n + 1].id, index |-> coreNum,
                     unit |-> Unit(rom.comps[n + 1].id),
                     maps |-> IF rom.comps[n + 1].mw + rom.comps[n + 1].sw > 0 THEN 2 ELSE 1],
         list' = Append(list, c)
  PROVE  KeptListed(n + 1)'
<1> DEFINE comps == rom.comps
<1>1. PICK S : list \in Seq(S)
  BY DEF ListInv
<1>2. /\ DOMAIN list = 1..Len(list) /\ Len(list) \in Nat /\ Len(list) = Found(comps, n)
      /\ DOMAIN list' = 1..(Len(list) + 1) /\ Len(list') = Len(list) + 1
      /\ \A i \in 1..Len(list) : list'[i] = list[i]
      /\ list'[Len(list) + 1] = c
  <2>1. list \in Seq(S \union {c}) /\ c \in S \union {c}
    BY <1>1, SeqMonotonic
  <2>2. Len(list) = Found(comps, n)
    BY DEF KeptListed, ListsCores, Found
  <2> QED
    BY <2>1, <2>2
<1>3. /\ Kept(comps, n + 1) = Kept(comps, n) \union {n + 1}
      /\ Found(comps, n + 1) = Found(comps, n) + 1
  BY KeptNext
<1>4. (n + 1) - 1 = n
  OBVIOUS
<1>5. c = CoreOf(comps, n + 1)
  <2>1. Unit(comps[n + 1].id) = Cardinality({j \in Kept(comps, n) : comps[j].id = comps[n + 1].id})
    BY UnitCounts DEF SameKind
  <2>2. coreNum = Cardinality(Kept(comps, n))
    BY <1>2 DEF Found
  <2> QED
    BY <1>4, <2>1, <2>2 DEF CoreOf
<1>6. \A k \in Kept(comps, n) : /\ list[Found(comps, k - 1) + 1] = CoreOf(comps, k)
                                /\ Found(comps, k - 1) + 1 \in 1..Len(list)
  <2>1. \A k \in Kept(comps, n) : Found(comps, k - 1) + 1 \in 1..Len(list)
    BY <1>2, FewerBefore
  <2> QED
    BY <2>1 DEF KeptListed, ListsCores, Found
<1>7. \A i \in 1..Len(list) : \E k \in Kept(comps, n) : i = Found(comps, k - 1) + 1
  BY <1>2 DEF KeptListed
<1>8. \A k \in Kept(comps, n + 1) : list'[Found(comps, k - 1) + 1] = CoreOf(comps, k)
  <2> SUFFICES ASSUME NEW k \in Kept(comps, n + 1)
               PROVE  list'[Found(comps, k - 1) + 1] = CoreOf(comps, k)
    OBVIOUS
  <2>1. CASE k \in Kept(comps, n)
    BY <1>2, <1>6, <2>1
  <2>2. CASE k = n + 1
    BY <1>2, <1>4, <1>5, <2>2
  <2> QED
    BY <1>3, <2>1, <2>2
<1>9. \A i \in DOMAIN list' : \E k \in Kept(comps, n + 1) : i = Found(comps, k - 1) + 1
  <2> SUFFICES ASSUME NEW i \in DOMAIN list'
               PROVE  \E k \in Kept(comps, n + 1) : i = Found(comps, k - 1) + 1
    OBVIOUS
  <2>1. CASE i \in 1..Len(list)
    BY <1>3, <1>7, <2>1
  <2>2. CASE i = Len(list) + 1
    <3>1. n + 1 \in Kept(comps, n + 1) /\ i = Found(comps, (n + 1) - 1) + 1
      BY <1>2, <1>3, <1>4, <2>2
    <3> QED
      BY <3>1
  <2> QED
    BY <1>2, <2>1, <2>2
<1>10. Len(list') = Found(comps, n + 1)
  BY <1>2, <1>3
<1> QED
  BY <1>8, <1>9, <1>10 DEF KeptListed, ListsCores, Found

(* What is not a core changes nothing.                                     *)
LEMMA OtherListed ==
  ASSUME NEW n \in Nat, KeptListed(n), ~IsCore(rom.comps[n + 1]), rom' = rom, list' = list
  PROVE  KeptListed(n + 1)'
<1>1. Kept(rom.comps, n + 1) = Kept(rom.comps, n)
  BY KeptNext
<1> QED
  BY <1>1 DEF KeptListed, ListsCores

(* Before the first component the list is empty.                           *)
LEMMA NoneListed ==
  ASSUME list = <<>>
  PROVE  KeptListed(0)
<1>1. Kept(rom.comps, 0) = {}
  BY DEF Kept
<1>2. Len(list) = 0 /\ DOMAIN list = {}
  OBVIOUS
<1>3. Cardinality(Kept(rom.comps, 0)) = 0
  BY <1>1, FS_EmptySet
<1> QED
  BY <1>1, <1>2, <1>3 DEF KeptListed, ListsCores

(* A new number is no core's yet.                                          *)
LEMMA NumberFree ==
  ASSUME ListInv
  PROVE  NextCore.err # "ENODEV"
<1>1. ~ \E i \in DOMAIN list : list[i].index = coreNum
  BY DEF ListInv
<1>2. \/ NextCore \in {Gives("ESPIPE", ptr), Gives("EILSEQ", ptr), Gives("EILSEQ", ptr + 2),
                     Gives("ENXIO", SkipTo(ptr + 2)), Gives("EILSEQ", ptr + 2 + At(ptr + 1).mp),
                     NoRegisters(ptr + 2 + At(ptr + 1).mp)}
      \/ \E q : NextCore = Ports(At(ptr).id, At(ptr + 1), q)
  BY <1>1 DEF NextCore
<1>3. \A q : NoRegisters(q).err \in {"ENXIO", "EILSEQ"}
  BY DEF NoRegisters, Gives
<1>4. \A id, cib, q : Ports(id, cib, q).err = "none"
  BY DEF Ports
<1>5. \A e, p : Gives(e, p).err = e
  BY DEF Gives
<1> QED
  BY <1>2, <1>3, <1>4, <1>5

(***************************************************************************)
(* The scan, while what it found is the bus's.                             *)
(***************************************************************************)

(* In a whole ROM the pointer stands where component k begins, or behind   *)
(* the last of them, and the cores before are on the list.                 *)
Standing(k) ==
  /\ ptr = Begins(rom, k) /\ KeptListed(k - 1)
  /\ scan = "done" => k = Len(rom.comps) + 1

Places == 1..(Len(rom.comps) + 1)

ScanKnown ==
  /\ scan = "idle" => list = <<>> /\ coreNum = 0 /\ ptr = 1 /\ ~window
  /\ coreNum = Len(list) /\ \A i \in DOMAIN list : list[i].index = i - 1
  /\ (scan \in {"done", "ENOMEM", "EILSEQ"} /\ ptr <= Window) => ~window
  /\ rom.whole => /\ scan \in {"idle", "running", "done", "ENOMEM"}
                  /\ \E k \in Places : Standing(k)

Holding == host \in {"scanning", "registering", "up"}

ScanInv == rom \in Roms /\ (Holding => ScanKnown)

LEMMA ScanStarts == BusInit => ScanInv
BY DEF BusInit, ScanInit, ScanInv, Holding

(* An empty bus is one that is about to be scanned.                        *)
LEMMA EmptyKnown ==
  ASSUME rom \in Roms, list = <<>>, coreNum = 0, ptr = 1, window = FALSE, scan = "idle"
  PROVE  ScanKnown
<1>1. Len(list) = 0 /\ DOMAIN list = {}
  OBVIOUS
<1>2. ASSUME rom.whole
      PROVE  \E k \in Places : Standing(k)
  <2>1. WholeRom
    BY <1>2, RomsAssumption DEF WholeRom
  <2>2. Len(rom.comps) \in Nat /\ Begins(rom, 1) = 1
    BY <2>1, WholeLaid DEF WholeRom, WellFormed
  <2>3. KeptListed(0) /\ 1 - 1 = 0
    BY NoneListed
  <2> QED
    BY <2>2, <2>3 DEF Standing, Places
<1> QED
  BY <1>1, <1>2 DEF ScanKnown

(* What a step of the scan does to the parts that hold of every ROM.       *)
LEMMA NumbersKept ==
  ASSUME ListInv, ScanKnown, ScanStart \/ ScanNext
  PROVE  /\ scan' # "idle"
         /\ coreNum' = Len(list') /\ \A i \in DOMAIN list' : list'[i].index = i - 1
         /\ (scan' \in {"done", "ENOMEM", "EILSEQ"} /\ ptr' <= Window) => ~window'
<1>0. coreNum = Len(list) /\ \A i \in DOMAIN list : list[i].index = i - 1
  BY DEF ScanKnown
<1>1. CASE ScanStart
  BY <1>0, <1>1 DEF ScanStart, ScanKnown
<1>2. CASE ScanPasses
  BY <1>0, <1>2, NumberFree DEF ScanPasses
<1>3. CASE ScanStops
  BY <1>0, <1>3 DEF ScanStops, Unmapped
<1>4. CASE ScanNoMemory
  BY <1>0, <1>4 DEF ScanNoMemory, Unmapped
<1>5. CASE ScanFinds
  <2>1. PICK c : c.index = coreNum /\ list' = Append(list, c)
    BY <1>5 DEF ScanFinds
  <2>2. coreNum' = coreNum + 1 /\ scan' = "running"
    BY <1>5 DEF ScanFinds
  <2>3. PICK S : list \in Seq(S)
    BY DEF ListInv
  <2>4. /\ DOMAIN list = 1..Len(list) /\ Len(list) \in Nat
        /\ DOMAIN list' = 1..(Len(list) + 1) /\ Len(list') = Len(list) + 1
        /\ \A i \in 1..Len(list) : list'[i] = list[i]
        /\ list'[Len(list) + 1] = c
    <3>1. list \in Seq(S \union {c}) /\ c \in S \union {c}
      BY <2>3, SeqMonotonic
    <3> QED
      BY <2>1, <3>1
  <2>5. ASSUME NEW i \in DOMAIN list'
        PROVE  list'[i].index = i - 1
    <3>1. CASE i \in 1..Len(list)
      BY <1>0, <2>4, <3>1
    <3>2. CASE i = Len(list) + 1
      BY <1>0, <2>1, <2>4, <3>2
    <3> QED
      BY <2>4, <3>1, <3>2
  <2> QED
    BY <1>0, <2>2, <2>4, <2>5
<1> QED
  BY <1>1, <1>2, <1>3, <1>4, <1>5 DEF ScanNext

LEMMA GivesSo == \A err, p : Gives(err, p).err = err /\ Gives(err, p).ptr = p
BY DEF Gives

(* How the scan describes the core that component k is.                    *)
Described(k) ==
  [err |-> "none", id |-> rom.comps[k].id, wrap |-> rom.comps[k].mw + rom.comps[k].sw > 0,
   ptr |-> Begins(rom, k + 1)]

LEMMA DescribedSo ==
  ASSUME NEW k
  PROVE  /\ Described(k).err = "none" /\ Described(k).id = rom.comps[k].id
         /\ Described(k).ptr = Begins(rom, k + 1)
         /\ (IF Described(k).wrap THEN 2 ELSE 1)
            = (IF rom.comps[k].mw + rom.comps[k].sw > 0 THEN 2 ELSE 1)
BY DEF Described

(* What a call makes of the words the pointer has come to in a whole ROM.  *)
LEMMA Outcome ==
  ASSUME WholeRom, ListInv, NEW k \in Places, ptr = Begins(rom, k)
  PROVE  /\ Len(rom.comps) \in Nat /\ ptr \in 1..Window
         /\ \/ k = Len(rom.comps) + 1 /\ NextCore = Gives("ESPIPE", ptr)
            \/ /\ k \in 1..Len(rom.comps) /\ Begins(rom, k + 1) # Beyond
               /\ \/ ~IsCore(rom.comps[k]) /\ NextCore = Gives("ENXIO", Begins(rom, k + 1))
                  \/ IsCore(rom.comps[k]) /\ NextCore = Described(k)
<1>1. Len(rom.comps) \in Nat /\ Len(rom.words) \in 1..Window
  BY WholeLaid DEF RomFits
<1>2. ptr \in 1..Window
  <2>1. ptr \in 1..Len(rom.words)
    BY <1>1, WholeLaid DEF Places
  <2> QED
    BY <1>1, <2>1, WindowAssumption
<1>3. CASE k = Len(rom.comps) + 1
  <2>1. NextCore = Gives("ESPIPE", ptr)
    BY <1>3, WholeLaid, EndFound
  <2> QED
    BY <1>1, <1>2, <1>3, <2>1
<1>4. CASE k \in 1..Len(rom.comps)
  <2>1. \A i \in DOMAIN list : list[i].index # coreNum
    BY DEF ListInv
  <2>2. Begins(rom, k + 1) # Beyond
    BY <1>4, Identified
  <2>3. CASE IsCore(rom.comps[k])
    BY <1>1, <1>2, <1>4, <2>1, <2>2, <2>3, CoreFound DEF Described
  <2>4. CASE ~IsCore(rom.comps[k])
    BY <1>1, <1>2, <1>4, <2>2, <2>4, OthersPassed
  <2> QED
    BY <2>3, <2>4
<1> QED
  BY <1>1, <1>3, <1>4 DEF Places

(* A step in a whole ROM leads to the next component, or ends at its end.  *)
LEMMA PlaceKept ==
  ASSUME WholeRom, ListInv, ScanKnown, ScanStart \/ ScanNext, rom' = rom
  PROVE  scan' \in {"running", "done", "ENOMEM"} /\ (\E k \in Places : Standing(k))'
<1>1. PICK k \in Places : Standing(k)
  BY DEF ScanKnown, WholeRom
<1>2. ptr = Begins(rom, k) /\ KeptListed(k - 1) /\ k \in Nat /\ k - 1 \in Nat
  BY <1>1, WholeLaid DEF Standing, Places
<1>3. Places' = Places /\ \A j : Begins(rom, j)' = Begins(rom, j)
  BY DEF Places, Begins
<1>4. ASSUME list' = list, ptr' = ptr, scan' = "done" => k = Len(rom.comps) + 1
      PROVE  (\E j \in Places : Standing(j))'
  <2>1. KeptListed(k - 1)'
    BY <1>2, <1>4 DEF KeptListed, ListsCores
  <2> QED
    BY <1>2, <1>3, <1>4, <2>1 DEF Standing
<1>5. CASE ScanStart \/ ScanNoMemory
  BY <1>4, <1>5 DEF ScanStart, ScanNoMemory
<1>6. CASE ScanStops
  <2>1. ptr \in 1..Window /\ k = Len(rom.comps) + 1 /\ NextCore = Gives("ESPIPE", ptr)
    <3>1. ptr \in 1..Window
      BY <1>2, Outcome
    <3>2. NextCore.err \in {"ESPIPE", "EILSEQ"}
      BY <1>6, <3>1, WindowAssumption DEF ScanStops
    <3>3. /\ \A p : Gives("ENXIO", p).err = "ENXIO"
          /\ \A j : Described(j).err = "none"
      BY DescribedSo, GivesSo
    <3> QED
      BY <1>2, <3>1, <3>2, <3>3, Outcome
  <2>2. ptr' = ptr /\ list' = list /\ scan' = "done"
    BY <1>6, <2>1, GivesSo, WindowAssumption DEF ScanStops
  <2> QED
    BY <1>4, <2>1, <2>2
<1>7. CASE ScanPasses \/ ScanFinds
  <2>1. NextCore.err \in {"none", "ENXIO", "ENODEV"}
    BY <1>7 DEF ScanPasses, ScanFinds
  <2>2. /\ k \in 1..Len(rom.comps) /\ Begins(rom, k + 1) # Beyond
        /\ \/ ~IsCore(rom.comps[k]) /\ NextCore = Gives("ENXIO", Begins(rom, k + 1))
           \/ IsCore(rom.comps[k]) /\ NextCore = Described(k)
    <3>1. NextCore # Gives("ESPIPE", ptr)
      BY <2>1, GivesSo
    <3> QED
      BY <1>2, <3>1, Outcome
  <2>3. k + 1 \in Places /\ (k - 1) + 1 = k /\ (k + 1) - 1 = k
    BY <2>2, WholeLaid DEF Places
  <2>4. ptr' = Begins(rom, k + 1) /\ scan' = "running"
    <3>1. NextCore.ptr = Begins(rom, k + 1)
      BY <2>2, DescribedSo, GivesSo
    <3> QED
      BY <1>7, <2>2, <3>1 DEF ScanPasses, ScanFinds
  <2>5. KeptListed(k)'
    <3>1. CASE ~IsCore(rom.comps[k])
      <4>1. list' = list
        <5>1. NextCore.err = "ENXIO"
          BY <2>2, <3>1, GivesSo
        <5> QED
          BY <1>7, <5>1 DEF ScanPasses, ScanFinds
      <4> QED
        BY <1>2, <2>3, <3>1, <4>1, OtherListed
    <3>2. CASE IsCore(rom.comps[k])
      <4>1. ScanFinds /\ NextCore = Described(k)
        BY <1>7, <2>2, <3>2, DescribedSo DEF ScanPasses
      <4> DEFINE c == [id |-> rom.comps[k].id, index |-> coreNum,
                       unit |-> Unit(rom.comps[k].id),
                       maps |-> IF rom.comps[k].mw + rom.comps[k].sw > 0 THEN 2 ELSE 1]
      <4>2. list' = Append(list, c)
        BY <4>1, DescribedSo DEF ScanFinds
      <4>3. coreNum = Len(list)
        BY DEF ScanKnown
      <4> HIDE DEF c
      <4> QED
        BY <1>2, <2>3, <3>2, <4>2, <4>3, CoreListed DEF c
    <3> QED
      BY <3>1, <3>2
  <2>6. Standing(k + 1)'
    BY <1>3, <2>3, <2>4, <2>5 DEF Standing
  <2> QED
    BY <1>3, <2>3, <2>4, <2>6
<1> QED
  BY <1>5, <1>6, <1>7 DEF ScanNext

(* What the scan found stays known while the host uses it.                 *)
LEMMA ScanStep == BusInv /\ ScanInv /\ BusAction => ScanInv'
<1> SUFFICES ASSUME BusInv, ScanInv, BusAction
             PROVE  ScanInv'
  OBVIOUS
<1>0. ListInv /\ rom \in Roms /\ (Holding => ScanKnown)
  BY DEF BusInv, ScanInv
<1>1. CASE HostProbe
  <2>1. /\ rom' = rom /\ list' = <<>> /\ coreNum' = 0 /\ ptr' = 1 /\ window' = FALSE
        /\ scan' = "idle"
    BY <1>1 DEF HostProbe, EmptyBus
  <2>2. (rom \in Roms /\ list = <<>> /\ coreNum = 0 /\ ptr = 1 /\ window = FALSE
         /\ scan = "idle" => ScanKnown)'
    BY EmptyKnown, PTL
  <2> QED
    BY <1>0, <2>1, <2>2 DEF ScanInv
<1>2. CASE Scanning
  <2>1. (ScanStart \/ ScanNext) /\ ScanKnown
    BY <1>0, <1>2 DEF Scanning, Holding
  <2>2. rom' = rom
    BY <2>1 DEF ScanStart, ScanNext, ScanPasses, ScanStops, ScanNoMemory, ScanFinds
  <2>3. rom.whole => WholeRom
    BY <1>0, RomsAssumption DEF WholeRom
  <2>4. rom.whole => scan' \in {"running", "done", "ENOMEM"} /\ (\E k \in Places : Standing(k))'
    BY <1>0, <2>1, <2>2, <2>3, PlaceKept
  <2>5. ScanKnown'
    BY <1>0, <2>1, <2>2, <2>4, NumbersKept DEF ScanKnown
  <2> QED
    BY <1>0, <2>2, <2>5 DEF ScanInv
<1>3. CASE UNCHANGED scanVars /\ (Holding' => Holding)
  <2>1. ScanKnown' = ScanKnown
    BY <1>3 DEF scanVars, ScanKnown, Places, Standing, KeptListed, ListsCores
  <2> QED
    BY <1>0, <1>3, <2>1 DEF ScanInv, scanVars
<1>4. CASE ~Holding' /\ rom' = rom
  BY <1>0, <1>4 DEF ScanInv
<1>5. CASE HostProbeFails \/ HostRemoved
  BY <1>4, <1>5 DEF HostProbeFails, HostRemoved, Holding
<1>6. ASSUME NEW i \in added, UnregisterCore(i)
      PROVE  ScanInv'
  BY <1>4, <1>6 DEF UnregisterCore, Holding
<1>7. CASE BusRegister \/ HostUp \/ HostRemove
  BY <1>3, <1>7 DEF BusRegister, HostUp, HostRemove, Holding
<1>8. ASSUME NEW i \in todo, RegisterCore(i)
      PROVE  ScanInv'
  BY <1>3, <1>8 DEF RegisterCore, Holding
<1>9. CASE DriverRegister \/ DriverUnregister \/ DriverGone \/ CoresStay
  BY <1>3, <1>9 DEF DriverRegister, DriverUnregister, DriverGone, CoresStay, Holding
<1>10. ASSUME NEW i \in toProbe, NEW ok \in BOOLEAN, DeviceProbe(i, ok)
       PROVE  ScanInv'
  BY <1>3, <1>10 DEF DeviceProbe, Holding
<1>11. ASSUME NEW i \in bound, DeviceRemove(i)
       PROVE  ScanInv'
  BY <1>3, <1>11 DEF DeviceRemove, Holding
<1> QED
  BY <1>1, <1>2, <1>5, <1>6, <1>7, <1>8, <1>9, <1>10, <1>11 DEF BusAction, BusNext, HostLeaves

LEMMA KnownSound == ScanInv => ScanSound
<1> SUFFICES ASSUME ScanInv, Holding
             PROVE  ScanSound
  BY DEF ScanSound, Holding
<1>1. ScanKnown
  BY DEF ScanInv
<1>2. ASSUME rom.whole
      PROVE  /\ scan \in {"idle", "running", "done", "ENOMEM"} /\ ptr <= Len(rom.words)
             /\ scan = "done" => ListsCores(rom.comps, Len(rom.comps))
  <2>1. WholeRom
    BY <1>2, RomsAssumption DEF WholeRom, ScanInv
  <2>2. PICK k \in Places : Standing(k)
    BY <1>1, <1>2 DEF ScanKnown
  <2>3. ptr \in 1..Len(rom.words) /\ Len(rom.words) \in Nat /\ Len(rom.comps) \in Nat
    BY <2>1, <2>2, WholeLaid DEF Standing, Places
  <2>4. scan = "done" => KeptListed(Len(rom.comps))
    <3>1. (Len(rom.comps) + 1) - 1 = Len(rom.comps)
      BY <2>3
    <3> QED
      BY <2>2, <3>1 DEF Standing
  <2> QED
    BY <1>1, <1>2, <2>3, <2>4 DEF ScanKnown, KeptListed
<1> QED
  BY <1>1, <1>2 DEF ScanSound, ScanKnown

(* The scan of every ROM: a whole one is read to its end mark and no       *)
(* further, gives exactly its cores in their order and numbers them, and   *)
(* its window is unmapped again, while the host goes on to use them        *)
(* (bcma_bus_scan, bcma_get_next_core).                                    *)
THEOREM ScanCorrect == Spec => []ScanSound
<1>1. Init => ScanInv
  BY ScanStarts DEF Init
<1>2. BusInv /\ ScanInv /\ [Next]_vars => ScanInv'
  BY ScanStep, BusKeeps
<1> QED
  BY <1>1, <1>2, BusInvariant, KnownSound, PTL DEF Spec
=============================================================================
