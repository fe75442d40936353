------------------------------- MODULE BcmaBus -------------------------------
(***************************************************************************)
(* bcma/main.c and host_soc_brcm6362_wlan.c: the host brings the WLAN      *)
(* macro up, scans its ROM, registers the cores found as devices, and on   *)
(* removal takes all of that back.  Binding a device calls its driver's    *)
(* probe, unbinding its remove; what these do is DriverAttach's.           *)
(***************************************************************************)
EXTENDS EromScan

CONSTANTS
  MaxProbes,   (* bound: how often the host is probed                         *)
  MaxLoads     (* bound: how often the driver's module is loaded              *)

ASSUME BoundsAssumption == MaxProbes \in Nat /\ MaxLoads \in Nat

VARIABLES
  host,      (* "off", "scanning", "registering", "up", "removing", "failed" *)
  probes,    (* probes of the host so far                                    *)
  power,     (* the macro's clock is on and its resets are released          *)
  mac,       (* the d11's control register: [bits, reset]                    *)
  todo,      (* cores still to be registered                                 *)
  refs,      (* references on each core's device                             *)
  added,     (* cores whose device is registered (dev_registered)            *)
  toProbe,   (* registered devices the driver core is about to probe         *)
  bound,     (* devices bound to the b43 driver                              *)
  driver,    (* the b43 driver: "absent", "present", "leaving"               *)
  loads,     (* loads of the module so far                                   *)
  watchdog,  (* the watchdog's platform device is registered                 *)
  lost       (* ioremaps of cores of a bus that went away unreleased         *)

busVars == <<scanVars, host, probes, power, mac, todo, refs, added, toProbe,
             bound, driver, loads, watchdog, lost>>
driverVars == <<toProbe, bound, driver, loads>>

Indices == {list[i].index : i \in DOMAIN list}
CoreAt(i) == CHOOSE c \in {list[k] : k \in DOMAIN list} : c.index = i

(***************************************************************************)
(* The wrapper registers of a core without a wrapper: the low half of its  *)
(* control register and, as bit 16, its reset.                             *)
(***************************************************************************)
Off == [bits |-> {}, reset |-> FALSE]

SynthWrite(m, reg, value) ==
  IF reg = "IOCTL" THEN [m EXCEPT !.bits = value] ELSE [m EXCEPT !.reset = value]

(* bcma_core_disable and bcma_core_enable.                                  *)
CoreDisable(m, flags) ==
  IF m.reset THEN m ELSE SynthWrite(SynthWrite(m, "RESET_CTL", TRUE), "IOCTL", flags)

CoreEnable(m, flags) ==
  LET held == SynthWrite(CoreDisable(m, flags), "IOCTL", flags \union {"CLK", "FGC"})
  IN  SynthWrite(SynthWrite(held, "RESET_CTL", FALSE), "IOCTL", flags \union {"CLK"})

Clocked == power /\ "CLK" \in mac.bits /\ ~mac.reset

(***************************************************************************)
(* The host's probe.                                                       *)
(***************************************************************************)
Bringup == power' = TRUE /\ mac' = [bits |-> {"CLK"}, reset |-> FALSE]

Teardown == power' = FALSE /\ mac' = Off

HostProbe ==
  /\ host \in {"off", "failed"} /\ probes < MaxProbes
  /\ probes' = probes + 1
  /\ host' = "scanning"
  /\ Bringup
  /\ EmptyBus
  /\ refs' = <<>> /\ added' = {} /\ todo' = {}
  /\ UNCHANGED <<driverVars, watchdog, lost>>

Scanning ==
  /\ host = "scanning"
  /\ ScanStart \/ ScanNext
  /\ UNCHANGED <<host, probes, power, mac, todo, refs, added, driverVars, watchdog, lost>>

Mapped == LET S[i \in 0..Len(list)] == IF i = 0 THEN 0 ELSE S[i - 1] + list[i].maps
          IN  S[Len(list)]

(* bcma_bus_register returns the scan's error and the host takes the clock  *)
(* away; the cores found before it stay where they are.                     *)
HostProbeFails ==
  /\ host = "scanning" /\ scan \in {"ENOMEM", "EILSEQ"}
  /\ host' = "failed"
  /\ Teardown
  /\ lost' = lost + Mapped
  /\ list' = <<>>
  /\ UNCHANGED <<rom, ptr, coreNum, scan, window, probes, todo, refs, added,
                 driverVars, watchdog>>

(* bcma_is_core_needed_early; bcma_register_devices passes over what the    *)
(* bus drives itself and over what was registered early.  Either walks the  *)
(* list, whose order is that of the indices.                                *)
Early(c) == c.id \in {"NAND"}
Ours(c) == c.id \in {"CC"}
Registered == {i \in Indices : Early(CoreAt(i)) \/ ~Ours(CoreAt(i))}

Before(i, j) ==
  IF Early(CoreAt(i)) = Early(CoreAt(j)) THEN i < j ELSE Early(CoreAt(i))

(* bcma_prepare_core: device_initialize takes the first reference.          *)
BusRegister ==
  /\ host = "scanning" /\ scan = "done"
  /\ host' = "registering"
  /\ todo' = Registered
  /\ refs' = [i \in Indices |-> 1]
  /\ UNCHANGED <<scanVars, probes, power, mac, added, driverVars, watchdog, lost>>

Matches(c) == c.id = "D11"

(* A core that the device tree says is not available, or that device_add    *)
(* refuses, is passed over.                                                 *)
RegisterCore(i) ==
  /\ host = "registering" /\ toProbe = {}
  /\ \A j \in todo \ {i} : Before(i, j)
  /\ todo' = todo \ {i}
  /\ \/ /\ added' = added \union {i}
        /\ toProbe' = IF driver = "present" /\ Matches(CoreAt(i)) THEN {i} ELSE {}
     \/ UNCHANGED <<added, toProbe>>
  /\ UNCHANGED <<scanVars, host, probes, power, mac, refs, bound, driver, loads, watchdog, lost>>

(* bcma_gpio_init may fail, then there is no watchdog; the host's probe     *)
(* succeeds whatever bcma_register_devices returned.                        *)
HostUp ==
  /\ host = "registering" /\ todo = {} /\ toProbe = {}
  /\ host' = "up"
  /\ watchdog' \in BOOLEAN
  /\ UNCHANGED <<scanVars, probes, power, mac, todo, refs, added, driverVars, lost>>

(***************************************************************************)
(* The driver's module and its devices.                                    *)
(***************************************************************************)
DriverRegister ==
  /\ driver = "absent" /\ toProbe = {} /\ loads < MaxLoads
  /\ driver' = "present" /\ loads' = loads + 1
  /\ toProbe' = {i \in added : Matches(CoreAt(i))}
  /\ UNCHANGED <<scanVars, host, probes, power, mac, todo, refs, added, bound, watchdog, lost>>

DriverUnregister ==
  /\ driver = "present" /\ toProbe = {}
  /\ driver' = "leaving"
  /\ UNCHANGED <<scanVars, host, probes, power, mac, todo, refs, added, toProbe, bound, loads, watchdog, lost>>

DriverGone ==
  /\ driver = "leaving" /\ bound = {}
  /\ driver' = "absent"
  /\ UNCHANGED <<scanVars, host, probes, power, mac, todo, refs, added, toProbe, bound, loads, watchdog, lost>>

(* bcma_device_probe holds a reference while the driver is bound.           *)
FailedProbeKeeps(i, ok) == refs' = [refs EXCEPT ![i] = @ + 1]
ProbeRefs(i, ok) == refs' = [refs EXCEPT ![i] = IF ok THEN @ + 1 ELSE @]

DeviceProbe(i, ok) ==
  /\ toProbe' = toProbe \ {i}
  /\ bound' = IF ok THEN bound \union {i} ELSE bound
  /\ ProbeRefs(i, ok)
  /\ UNCHANGED <<scanVars, host, probes, power, todo, added, driver, loads, watchdog, lost>>

(* Who unbinds device i: the module on its way out, or the bus on its way   *)
(* out at the first registered core of its list.                            *)
FirstAdded(i) == i \in added /\ \A j \in added : i <= j
Unbinds(i) ==
  /\ i \in bound
  /\ driver = "leaving" \/ (host = "removing" /\ FirstAdded(i))

DeviceRemove(i) ==
  /\ bound' = bound \ {i}
  /\ refs' = [refs EXCEPT ![i] = @ - 1]
  /\ UNCHANGED <<scanVars, host, probes, power, mac, todo, added, toProbe, driver, loads, watchdog, lost>>

(***************************************************************************)
(* The host's removal.                                                     *)
(***************************************************************************)
HostRemove ==
  /\ host = "up" /\ toProbe = {}
  /\ host' = "removing"
  /\ UNCHANGED <<scanVars, probes, power, mac, todo, refs, added, driverVars, watchdog, lost>>

Without(i) ==
  LET at == CHOOSE k \in DOMAIN list : list[k].index = i
  IN  [k \in 1..(Len(list) - 1) |-> IF k < at THEN list[k] ELSE list[k + 1]]

(* bcma_unregister_cores: list_del and device_unregister, whose last        *)
(* reference unmaps the registers and frees the core.                       *)
UnregisterCore(i) ==
  /\ host = "removing" /\ FirstAdded(i) /\ i \notin bound \union toProbe
  /\ list' = Without(i)
  /\ added' = added \ {i}
  /\ refs' = [refs EXCEPT ![i] = @ - 1]
  /\ UNCHANGED <<rom, ptr, coreNum, scan, window, host, probes, power, mac, todo,
                 driverVars, watchdog, lost>>

(* Then the watchdog, then the cores nobody else used, then the clock.      *)
HostRemoved ==
  /\ host = "removing" /\ added = {}
  /\ host' = "off"
  /\ watchdog' = FALSE
  /\ list' = <<>>
  /\ refs' = [i \in DOMAIN refs |-> refs[i] - (IF i \in Indices THEN 1 ELSE 0)]
  /\ Teardown
  /\ UNCHANGED <<rom, ptr, coreNum, scan, window, probes, todo, added, driverVars, lost>>

BusInit ==
  /\ ScanInit
  /\ host = "off" /\ probes = 0 /\ power = FALSE /\ mac = Off /\ todo = {}
  /\ refs = <<>> /\ added = {} /\ toProbe = {} /\ bound = {} /\ driver = "absent" /\ loads = 0
  /\ watchdog = FALSE /\ lost = 0

HostLeaves == HostRemoved \/ \E i \in added : UnregisterCore(i)

BusNext ==
  \/ HostProbe \/ Scanning \/ HostProbeFails \/ BusRegister
  \/ (\E i \in todo : RegisterCore(i)) \/ HostUp
  \/ DriverRegister \/ DriverUnregister \/ DriverGone
  \/ HostRemove \/ HostLeaves

(***************************************************************************)
(* A whole ROM is read to its end mark and no further, gives exactly its   *)
(* cores, and its window is unmapped again; only memory may be short.  The *)
(* cores before the spoiled word of another ROM are numbered in order.     *)
(***************************************************************************)
ScanSound ==
  host \in {"scanning", "registering", "up"} =>
    /\ rom.whole => scan \in {"idle", "running", "done", "ENOMEM"} /\ ptr <= Len(rom.words)
    /\ (rom.whole /\ scan = "done") => ListsCores(rom.comps, Len(rom.comps))
    /\ (scan \in {"done", "ENOMEM", "EILSEQ"} /\ ptr <= Window) => ~window
    /\ \A i \in DOMAIN list : list[i].index = i - 1

(***************************************************************************)
(* A core lives as long as somebody counts on it: one reference of the bus *)
(* while it is on the list and one of the driver bound to it, so that the  *)
(* last one goes with the list's; a bound device is a registered one.      *)
(* Nothing of a bus that was removed is left, and cores are lost only to a *)
(* scan that failed.                                                       *)
(***************************************************************************)
CoresReleased ==
  /\ \A i \in DOMAIN refs : refs[i] = (IF i \in Indices THEN 1 ELSE 0)
                                    + (IF i \in bound THEN 1 ELSE 0)
  /\ bound \subseteq added /\ added \subseteq Indices
  /\ host = "off" => list = <<>> /\ ~watchdog /\ ~power
  /\ (lost > 0 /\ probes = 1) => scan \in {"ENOMEM", "EILSEQ"}
=============================================================================
