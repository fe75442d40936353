# A TLA+ model of the BCM6362 b43 driver

The repository is a port of the Linux `b43` driver and of its `bcma` bus to the wireless
core of the BCM6362 router chip (an N-PHY, radio 2057), with a tracer for the vendor's
driver and a harness that runs the PHY code against recorded register reads. This directory
models the parts of it whose correctness depends on order: threads, callbacks, works,
interrupts, restarts and failures.

Every module names the C functions it stands for; `PROJECT.json` gives the lines of each
definition ("map"), the hazards each property is about, and a mutant for each property (a
plausible bug that the property notices).

## Inventory

`main.c` below is `src/b43/main.c`.

| component | state | operations | what makes it correct |
|---|---|---|---|
| core life cycle (`main.c` 3492-3545, 4042-4150, 4388-4503, 4842-5010, 5094-5170, 5274-5325, 5851-5860) | `__init_status`, `wl->current_dev`, the registered interrupt handler, the mask, `mac_suspended`, the periodic work, the restart work | `op_start`, `op_stop`, `op_config`, `chip_reset`, `core_init/start/stop/exit`, `controller_restart` | the status assertions of init, start and exit hold; handlers, suspends and works balance; a closed interface leaves nothing behind; a stop ends; a restart is served |
| interrupt path (`main.c` 2018-2215, 1783-1874) | reason and mask registers, `dev->irq_reason`, `dev->irq_mask`, the PHY error budget | hard handler, thread, beacon trigger work, `core_start`, `core_stop` | no reason is overwritten before the thread reads it; the device stays masked until the thread has finished; silence after `free_irq` |
| transmit queue (`main.c` 3647-3740, 4388-4460; callers in the external `dma.c`) | `wl->tx_queue[]`, `tx_queue_stopped[]`, mac80211's queue state, ring fill | `op_tx` (no lock), `tx_work`, transmit status, restart | no frame is left without somebody who will send it; a stopped queue is woken; a stopped core sends nothing |
| beacon update (`main.c` 1661-1910, 4164-4210, 4872, 5175) | `current_beacon`, the two templates and their uploaded flags, the valid bits, the beacon interrupt | `update_templates` from two callers of which one takes no mutex, trigger work, beacon interrupt, restart | a template in use is not written; the newest beacon reaches the air; each beacon is freed once |
| keys and TKIP (`main.c` 800-1090, 3585, 4223-4346) | `dev->key[]`, key memory, RCMTA addresses, per-slot algorithm | `op_set_key`, `op_update_tkip_key`, `security_init` | the receiver never matches an address with another station's key; driver and mac80211 agree |
| noise calculation, periodic work (`main.c` 1398-1540, 3440-3520) | `noise.calculation_running`, sample counters, the watchdog register | sample interrupts, periodic work | a calculation that has begun is finished or cancelled |
| attach, firmware loading, removal (`main.c` 2200-2770, 5510-5760) | the firmware buffers, `dev->wl`, the firmware work, mac80211's registration, the random number generator | `bcma_probe`, `request_firmware`, `bcma_remove` | a removal during loading leaves no registration, no work and no buffer; nobody reaches a device that is gone |
| configuration, filters, QoS, TSF (`main.c` 569-735, 3158-3258, 3712-4160, 4164-4383, 5029-5092, 5195-5325) | `struct b43_wl`'s copies of what mac80211 asked, the device's registers and memory | mac80211's callbacks, the restart's reload | between calls the device is set to what was asked, also after a restart that threw it all away |
| N-PHY operations (`src/b43/phy_n.c`) | `nphy` bookkeeping: `deaf_count`, classifier, saved calibration coefficients, saved registers, `hang_avoid` | init, channel switch, calibrations, power control | carrier search and hang avoidance nest; a calibration restores the registers and the transmitter it took |
| N-PHY and radio tables (`src/b43/tables_nphy.c`, `radio_2057.c`) | constant data | lookup, table access | |
| power per rate (`src/b43/ppr.c`) | a table of powers | load, add, clip, maximum | pure functions |
| bcma core (`src/bcma/drivers/bcma/main.c`, `scan.c`) | the bus's core list, registration flags | scan, register, unregister, suspend | every core registered once and unregistered; the ROM parser stays within the ROM |
| bcma host of the BCM6362 (`host_soc_brcm6362_wlan.c`) | the registers that stand for the agents the chip lacks, the macro's clock and resets | read, write, probe, remove | probe's errors undo what was done; a core that is used has its clock |
| wl-diag tracer (`src/wl-diag/`) | patched code, break hooks, stubs with their pool of return places, a reference on the vendor's module, buffer of events | install and remove detours, divert a return, record, read | who runs a detour runs the whole of it; a diverted return goes home; unloading leaves the original code; no record is lost uncounted |
| trace decoder, test harness, reverse tools, scripts, docs, patches | files | offline | |

### How they interact

mac80211 calls the `op_*` callbacks one at a time from process context, except for
transmission and the TIM update, which come at any time. mac80211's ordered workqueue runs
`restart_work`, `tx_work`, the beacon trigger and the periodic work one after the other. The
hard interrupt handler runs at any moment and wakes the interrupt thread. `wl->mutex`
serialises everything but the hard handler (`wl->hardirq_lock`), the transmit entry and the
TIM update; `core_stop` drops it twice in the middle, to wait for works and handlers that
need it themselves. The restart (`b43_chip_reset`) is a work that takes the core through
stop, exit, init and start and then calls mac80211's callbacks itself. The bcma host scans
the chip's ROM, registers a device per core and so calls the driver's probe, which queues
the firmware work on the system's queue; only that work registers with mac80211. Removal
comes down the same way and meets the work at any point. The tracer shares nothing with the
driver: it is loaded beside the vendor's `wl` module and rewrites its code while it runs.

### What is hard to test

The file `PROJECT.json` lists the hazards with their lines. The main ones: what is read
before the mutex and used after it (`wl->current_dev` in `op_start`, `op_config`,
`op_stop`), what a second stop or a restart does in the windows of `core_stop`, flags that
outlive the state they describe (`tx_queue_stopped` after a restart), operations outside the
mutex (`op_tx`, `op_beacon_set_tim`), failures halfway through a restart, interrupts masked
by one party and unmasked by another, settings that only the driver or only mac80211
remembers when the device's memory is lost, registers that a calibration has to put back one
by one, a removal that overtakes the firmware work, and code rewritten under the feet of its
callers.

## Modules

| module | stands for | runs |
|---|---|---|
| `CoreLifecycle` | the life of the core under `op_start`, `op_stop`, `op_config`, `chip_reset`, periodic work and interrupts | `core_quiet`, `core_race` |
| `CoreLifecycleProofs` | theorems for every environment, and for one without a reset during a stop | |
| `IrqEvents` | the abstract promise of the interrupt path | (refined by `irq_path`) |
| `IrqPath` | hard handler, thread, and everyone who writes the mask | `irq_path` |
| `TxQueue` | `op_tx`, `tx_work`, transmit status and restart | `tx_flow` |
| `PathProofs` | theorems about these two, the refinement included | |
| `BeaconUpdate` | the asynchronous beacon update | `beacon_update`, `beacon_double_free` |
| `BeaconUpdateProofs` | theorems about it | |
| `KeyMemory`, `MCKeyMemory` | key slots, receiver addresses and TKIP phase 1 keys | `key_memory` |
| `KeyMemoryProofs` | theorems about them | |
| `Settings`, `MCSettings` | what mac80211 asks for, what the device is set to, and the reload after a restart | `settings` |
| `SettingsProofs` | theorems about them | |
| `NphyRegs` | the registers that measurements and calibrations take over and put back | (part of `NphyCal`) |
| `NphyCal` | transmit power control, carrier search hold, init and deferred calibration of the N-PHY | `nphy_calibration`, `nphy_mac_underflow` |
| `NphyCalProofs` | theorems about both | |
| `EromScan` | the walk over the enumeration ROM | (part of `DriverAttach`) |
| `BcmaBus` | the host of the chip, the bus, its devices and the binding of a driver | (part of `DriverAttach`) |
| `DriverAttach`, `MCDriverAttach` | attach, firmware work, registration and removal of the driver, on that bus | `bus_attach` |
| `DriverAttachProofs` | theorems about the bus and the driver on it | |
| `TraceBuffer` | the tracer's records between writer and reader | (part of `WlDiag`) |
| `WlDiag`, `MCWlDiag` | the tracer: hooks, stubs, loading and unloading | `wl_diag` |
| `WlDiagProofs` | theorems about it and its buffer | |

Most modules are configured directly by their `.cfg` files: their constants are numbers,
Booleans and sets of strings. Where they are records or sequences (keys, ROMs, settings,
kernels to trace) an `MC` module defines them.

### CoreLifecycle

Three threads: `"op"` (mac80211's callbacks), `"work"` (its workqueue), `"irq"` (the
interrupt thread). `pc[t]` is the place of a thread; `dev[t]` and `prev[t]` are a caller's
local `dev` and `prev_status`. `status`, `mask`, `suspended`, `timer`, `queued` and
`current` are the fields of the same meaning; `handlers` counts registrations, so that a
handler freed twice or leaked shows. A section under `wl->mutex` is one step unless another
thread can look in between: `core_stop` is cut at its two unlock windows (`StopCancel`,
`StopRelock`, `StopFreeIrq`, `StopFinish`), and `core_init`, `core_start` and their failures
are steps of their own since the hard handler and the assertions see the difference. A
callback that follows a NULL `dev` ends in `"oops"` holding the mutex, as the kernel thread
would.

`ControllerRestart` is `b43_controller_restart`: asked for by the watchdog in the periodic
work, by fatal DMA errors and by PHY errors in the interrupt thread. `PowerCheck` is the
power check that the periodic work makes every fourth time, as far as this module can see
it: the calibration it may run enables a MAC that nobody suspended and suspends it again
(`phy_n.c` 7703), which takes `suspended` to -1 in between. `Faults` says whether
`core_init` and `request_irq` may fail. `ResetDuringStop` says whether the device may ask
for a reset while mac80211 is closing the interface. The closing calls of `chip_reset` are
`op_config`, modelled, and `op_bss_info_changed`, which is one balanced section under the
mutex and changes none of the state of this module; it is in `BeaconUpdate`.

- **`core_quiet`** (`FairSpec`, both faults, no reset during a stop): op_start, op_stop and
  chip_reset hand the core to each other. `HandlersExact`, `MacRunsWhenStarted` and
  `ClosedIsDown` say what balances: with the mutex free, since inside it the calibration of
  the periodic work does take the count below zero (`nphy_mac_underflow`). `StopCompletes`:
  although `core_stop` waits for a work and for handlers that want the mutex, it ends.
  `InterruptsComeBack`: the early return of the interrupt thread after a fatal DMA error
  leaves the device masked, and the restart it asked for brings interrupts back. `QuietInv`
  is the inductive invariant that the proofs use.
- **`core_race`** (`Spec`, a reset may be asked for at any time): what survives every
  interleaving of a stop with a restart: `HandlersCover`, and, proved only,
  `MutexHeldInside`. `InitFromUninit`, the warning in `core_init`, does not: see
  "Disagreements met".

Bounds: one device, as in the chip. `MaxCount` stops opening and closing once a counter has
passed it, so it bounds only behaviours in which something leaks; two or three are enough
for an extra handler to be present together with the right one.

### IrqPath and IrqEvents

`raw` is the reason register, `hwmask` the mask register, `irqMask`, `saved` and `taken` are
`dev->irq_mask`, `dev->irq_reason` and the thread's copy. The hard handler checks the status
first and takes `wl->hardirq_lock` after (`InterruptHandler`, `DoInterrupt`); each body
under that lock is one step. The thread is woken, takes the reasons and serves them
(`ThreadWakes`, `ThreadTakes`, `ThreadServes`). `HandleBeacon` is the effect of
`handle_irq_beacon` on mask and reasons; which of its three outcomes occurs depends on the
templates, which are in `BeaconUpdate`. Writing the reason register with the beacon bit
raises it ("Schedule interrupt manually", `main.c` 1802), while the hard handler's write of
the same register acknowledges (2155); the model follows what each place says it does.

`IrqEvents` is the outside view: a reason reported waits until the thread takes it up, and
is dropped only with the core down. `EventsKept` is the refinement (`Promise == INSTANCE
IrqEvents WITH ...`).

- **`irq_path`**: the line belongs to the device alone. `MaskedWhilePending` is the point of
  the condition in the beacon trigger work ("Writing the mask _here_ would incorrectly
  re-enable IRQs"), `StoppedIsSilent` of the order in `core_stop`, `ReasonsKept` of the
  single word `irq_reason`, `EventServed` of the fatal error's early return and of the error
  budget. Four reasons, one of each kind the thread treats differently, and a budget of two,
  so that it can run down and not.

`core_start` requests the line with `IRQF_SHARED`. With `SharedLine = TRUE` the hard handler
can run a second time while the thread is still to read the first reasons and replace them
(`main.c` 2169); `ReasonsKept` then fails. On this chip the line has no other user, so that
is not run as a finding; `SilentStop` is proved for both.

### TxQueue

Per queue: `txq` (frames waiting), `ring` (frames in flight), the driver's flag `stopped`
and mac80211's `macStopped`. `op_tx` is three steps without a lock (`OpTx`, `OpTxTest`,
`OpTxStop`); `tx_work` holds the mutex from `TxWork` to the last `QueueDone`. `dma.c` is not
in the repository: `SendFrame` (stop on full) and `RestartQueue` (the driver's flag first)
are external, modelled from how `main.c` uses them. `stale` is a history variable: a stop
flag has outlived the ring it was set for, either because a restart emptied the rings
without clearing the flags (`main.c` 4447) or because `op_tx` tested the flag, lost the race
with the last transmit status and stopped mac80211's queue afterwards (3706).

- **`tx_flow`**: as long as that has not happened data flows (`FreshDataFlows`), a queue
  with frames does not stand still (`QueueMoves`) and a stopped queue wakes (`QueueWakes`).
  `DownSendsNothing` (a core that is down is given nothing) is proved. Without the exception
  `DataFlows` fails: see "Disagreements met".

Bounds: two queues (one can be full while the other runs, `err` is carried over the loop),
two-slot rings (one slot would make the last status the only one), a backlog of two, and one
frame the ring refuses.

### BeaconUpdate

Beacons are numbered as mac80211 hands them out; `freed` collects what went to
`dev_kfree_skb_any`. `BssInfoChanged` runs under the mutex, `BeaconSetTim` does not and is
cut at the unlocked free. The bottom half (`TriggerWork`, `BeaconIrq`) picks templates,
uploads and marks; `Upload` copies the beacon, for which `GFP_ATOMIC` may find no memory,
and `WriteTemplate` then writes nothing and sets the uploaded flag all the same, as
`b43_upload_beaconN` does; `FirmwareFrees` is what the firmware does with two valid
templates (external). The restart frees the beacon in two steps, as `core_exit` does outside
any lock that `op_beacon_set_tim` takes. `spoilt` is a history variable: `"raced"` once a
TIM update overlapped a section of the mutex that uses the beacon, `"missed"` once the
restart's own update got no beacon. `skipped` is another: the templates whose last upload
found no memory.

- **`beacon_update`**: `LockedUpdatesAreSound` (the uploaded flags tell the truth and each
  beacon is freed once, until the first such overlap; what is valid was written, unless a
  restart got no beacon; both but for the templates in `skipped`), `NeverWriteValid`,
  `NoNullBeacon`, `BeaconReachesAir` (the newest beacon is sent, unless its upload found no
  memory, which nothing tries again).
- **`beacon_double_free`** (violation): without that exception `FreedOnce` fails: the TIM
  update swaps out a beacon that `core_exit` is freeing. The comment at the mutex ("Every
  operation must run with this mutex locked") is the promise; the finding is
  `beacon_double_free`.

Five beacons: one on the air, one being written, one waiting behind two valid templates, one
queued behind it and one for the restart. (With four, a trigger that is still queued when
the bottom half has already run by the interrupt does not meet a restart.)

### KeyMemory

`block`, `tek`, `phase1` and `rcmta` are what the receiver reads: per slot the algorithm,
the key, the TKIP phase 1 key with its iv32, and the address it matches. `conf` and `hwidx`
are the driver's `dev->key[].keyconf` and the `hw_key_idx` it tells mac80211; `uploaded` is
what mac80211 believes. A call (`SetKey`, `DisableKey`, `UpdateTkipKey`) takes the mutex and
is then one step per part written (`Zero`, `WritePhase1`, `WriteBlock`, `WriteTek`,
`WriteMac`, and `WriteCopy` when the firmware has default keys for receiving), because the
receiver does not take the mutex. The words of a key are one step: a slot being written
matches nobody, which is what is checked; those of an address are too, since half an address
matches nobody. `newApi` is the firmware's kind, unknown until it is loaded. mac80211
(external) uploads one key per station and one per index for groups. `stray` is a history
variable: a slot has been written, or cleared, for a key it does not hold.

- **`key_memory`**: `MatchedIsStill` is the comment "First zero out mac to avoid race"
  (`main.c` 953); `MemorySound` says that what is matched is the right key, in one slot
  only, of the right algorithm, with a phase 1 key that fits ("all packets will be lost",
  892) until a stale slot was written; `BooksAgree` says that the driver has no key that
  mac80211 does not know to be there, also over a restart; `GroupCopies` that the default
  keys for sending and receiving are the same.

Without that exception `DisabledIsOff` does not hold when `hwtkip=1` (not the default): see
"Disagreements met".

Bounds: three stations for two pairwise slots, so that a station is refused and a slot is
given again; one group key, with its copy; two TKIP keys and one AES key.

### Settings

`asked` is mac80211's side: the device open or not, the interface, `hw->conf`, every
interface's `bss_conf`, the filter, the queues' parameters, a scan under way. `wl` is what
the driver remembers of it (`struct b43_wl`), `chip` what the device is set to: `MACCTL`
(`mode`, `keep`), the address filters and the template of the BSSID, the shared memory (QoS,
slot, beacon interval, retry limits, listen interval, basic rates, host flags). A device's
reset is `Blank`. A function of the code that sets the device is an operator on `chip`, so
that `CoreInit` and `ChipInit` are the compositions the code makes. mac80211 makes one call
at a time and writes its own struct before the call; `op_start`, `op_config` and
`op_add_interface` with its `bss_info_changed` are cut where they leave the mutex. The
restart is cut at its windows: after `core_stop`, before it reloads the configuration,
before it reads `wl->vif` and before `bss_info_changed` gets the mutex.

- **`settings`**: `SettingsHold`: between calls and outside a restart the device is set to
  what was asked, whatever of it the driver was told while the core was down. One setting is
  excepted, and `Agrees` says exactly when: the host flag of a scan (`B43_HF_SKCFPUP`) is
  set while a scan is asked for that no restart has come into (`dropped`); a restart during
  a scan clears it and nothing sets it again. `Unaddressed`: without an interface it answers
  to no address. `Reloaded`: a restart that lost the settings does set them again in the
  end, all but that flag.

Assumed of mac80211 (external): its flush of the workqueue before `op_stop` leaves no
restart behind (what happens otherwise is `CoreLifecycle`'s), restarts succeed (failing ones
are `CoreLifecycle`'s and `DriverAttach`'s), it drops its filters with the last interface,
the band stays, and the firmware has QoS. Bounds: one interface of each of three types, two
queues, one set of parameters besides the driver's own, two configurations of which one has
a retry limit beyond its four bits, and three `bss_conf`s: before a network, in one, and in
one that differs from it in each field. With a second interface `SettingsHold` fails: see
"Disagreements met".

### NphyRegs and NphyCal

`phy` is one record: of `struct b43_phy_n` and of the registers, what one step saves and
another puts back. In `search`, `deaf`, `class`, `on` and `hang` are `deaf_count`, the saved
classifier, whether the receiver is deaf, and `hang_avoid`; in `power`, `ctrl` is
`txpwrctrl` and `on` the three enable bits in `TXPCTL_CMD`, `idx` is `tx_pwr_idx`, `index`
what the hardware's loop is on and `init` where it will start; `forced`, `savedGain` and
`savedMult` are `txpwrindex[]`; `gain` and `mult` are what is programmed, named by the index
it belongs to; `multSave` is `bb_mult_save`. A function of the code that takes and gives
back by itself is an operator from record to record (`TxPowerCtrl`, `TxpwrIndex`, `Tone`,
`StopPlayback`), so that a phase is the composition of its calls in the order of the code,
and the calibration one step per phase. `mac` is `mac_suspended`; `local` is what a running
function saved on its stack; `found` is a history variable, the indices and gains when the
calibration began.

`NphyRegs` has the registers that a measurement takes and has to put back: the enable bits
of the RF control overrides (`OVER0` to `OVER2`, with the fields of `rf_ctl_override_rev7`
as marks), the override of antenna switch and amplifier (`INTC`), the converter's (`AFECTL`,
`AFEOVER`), the PAPD engine's enable, the radio's strength and coupler cells. A register is
kept as the marks that were put on top of what the init left, per core: `{}` is "as the init
left it". What value an override forces is left out; that it is on, for whom, and who takes
it off, is not. The save areas (`tx_rx_cal_phy_saveregs`, which the transmitter's and the
receiver's calibration share, and the radio's) are positions of a layout that the setup
writes and the cleanup reads, as in the code.

Everything runs under `wl->mutex`. What varies is who asks for the recalculation
(`op_config` with the MAC suspended or the periodic work with it running), the channel, a
restart (which clears the struct), whether a tone finds memory for its samples, whether the
amplifier is inside, and where the hardware's power loop has moved.

- **`nphy_calibration`**: `Balanced` says that every enter of the nested carrier search has
  its leave, every tone its stop, and every caller leaves the MAC running.
  `TransmitterPutBack` says that the many disables nested in a calibration do not replace
  the index that the first one remembered, that the index forced only to read gains is gone
  when the transmitter is calibrated, and that in the end control, gains and multiplier are
  those of before, also after a failure. `SavedTogether`: the receiver's result is not saved
  without the transmitter's for the same channel. `RegistersPutBack`: after each phase no
  override is on that was not before it, the converter's gain is overridden exactly while
  the control is off, and the other registers are as the init left them, also when a tone
  failed in the middle. Three such restores were once missing, by the comments at `phy_n.c`
  5326, 5652 and 6183. `PendingRuns`: what the init left to do is done at the next
  recalculation, which is not skipped.
- **`nphy_mac_underflow`** (violation): the periodic work's recalculation enables a MAC that
  is not suspended, against the assertion in `b43_mac_enable` (`main.c` 3029).

Two registers are not put back as they were, and `RegistersPutBack` leaves them out: the
PAPD cleanup writes 0 to the coupler's power instead of what was there (7220 and following),
and 0x2ff keeps the bits of the switch's last override. The caches for `RestoreCal` and
`RestoreRssiCal` are cleared by every init (`prepare_structs`), so within the driver as it
is they find nothing.

Bounds: one channel that needs spur avoidance and may not be sent on unasked and one plain
one; revision 8, which calibrates, and 4, which holds the carrier search around each table
access and has the older override registers; both receive chains on; two power levels; two
indices for the loop, so that the chains differ and change.

### EromScan, BcmaBus and DriverAttach

`EromScan` walks a ROM of tagged words as `bcma_get_next_core` does: one step per component,
with its skips, its errors and its loops over address descriptors; `SkipTo` has no bound, as
in the code, and comes out beyond the window if nothing stops it. `ListsCores` is the
reference: the list has the cores among a ROM's components, in order, numbered and counted.
`WellFormed` says what a whole ROM is: where the words of each component stand and which
they are, down to the runs of descriptors of each port; TLC evaluates it on the run's ROMs
(`RomsAssumption`), and the proof starts from it. `BcmaBus` is the host (`Bringup`, scan,
registration of the early core, of the others, of the watchdog, with each error's way back),
the references on a device, and the driver core that binds and unbinds. `mac` is the control
and reset register of the d11 core, which the host synthesises: `Clocked` is whether an
access is answered. `DriverAttach` is the driver on it: `AttachOk` and `AttachFails` are
`one_core_attach`; `FwStart`, `FwAnswer`, `FwTry` and `FwRegister` the work with its two
kinds of firmware; `Open`, `Close`, `RestartRun`, `RestartFreed`, `Reload` and `RngRead`
what reaches the device meanwhile (`RestartFreed`: the restart work is part of `struct
b43_wldev` and was freed with it while queued); `RemoveBegin` to `RemoveFree` the steps of
`b43_bcma_remove`. `faults` is a history variable: who touched a device that was freed, was
NULL or had no clock.

- **`bus_attach`**: `ScanSound`: from a whole ROM the list is what the reference says; from
  any ROM the cores are numbered in order. `CoresReleased`: when the host is gone, and on
  every error path of its probe but those listed under "Disagreements met", nobody holds a
  core. `NoCallbackOutlives`: once no device is bound there is no firmware work, generator,
  registered hardware, queued restart or buffer, wherever in the loading the removal came;
  only after a restart that failed do the hardware and a queued restart stay. `AccessSafe`
  names all who may reach a device wrongly, and when: any other way to a freed, NULL or
  unclocked device is excluded. `RemovalEnds`: the host's removal ends.

Bounds: seven ROMs (the chip's, a larger backplane with every kind of component, one with a
core that is registered early, one that fills the window, three that are spoiled), one probe
of the host, two loads of the driver.

### TraceBuffer and WlDiag

`TraceBuffer` is the array between two counters, as the kfifo of 3.4 and as the ring of
2.6.30, with a writer that takes its number before the lock and a reader that may wait.
`WlDiag` is the rest: `Plan` decides from the binary how each function is hooked (a detour
of one word, of several, the call sites, a break), the loader then writes the text one word
per step while tasks call, execute and return word by word; a stub records, and diverts the
return if it finds a place in the pool. `build` is the kernel, its options and the `wl`
binary. Fetching is coherent: the flush of the instruction cache is part of the write. A
task that mixed old and new words, met a trap nobody takes, returned to the wrong caller,
ran freed code or was written to after `wl` left is kept in `faults`.

- **`wl_diag`**: `DetourSound`: which torn detours can happen, and that no others can: an
  entry of several words is written head last, so that whoever takes the new head runs all
  of it; `ReturnsHome`: nested and interleaved, and with the pool full, a diverted return
  goes back to its own caller, and the stub is still there then unless the kernel preempts;
  `Accounted`: every number given is a record on its way, in the buffer, read, or counted as
  dropped, in order, across the wrap of the counters; `TextRestored`: after unloading the
  text is the original and nothing stays registered; `StrayOnlyWhenLate`: nothing is written
  into memory that `wl` has left, unless `wl` was leaving already when the tracer asked for
  its reference.

Bounds: nine builds, which have every kind of hook and every way for loading to end; two
tasks (interchangeable: symmetry), two calls inside each other, two calls in all, two call
sites, a buffer of two records whose counters wrap at four; `ret_order`, which the code lets
wrap at 2^32, is unbounded.

## Fairness

Code that has begun goes on: a thread inside the driver is scheduled again. The mutex is
fair to its waiters, so the threads that take it have strong fairness. The workqueue is
ordered and runs what is queued. The kernel runs the handler of an asserted line and the
thread it woke. The device reports a transmit status for each frame it took, the firmware
gives templates back. In `NphyCal` a call that holds the mutex runs to its end (weak
fairness), and the periodic work, which is queued again each time and waits in line for the
mutex, gets its turn (strong fairness). In `Settings` a restart that was asked for runs and
a call that has begun goes on (weak). In `DriverAttach` the works run, a firmware request is
answered and a removal goes on (weak); a removal that waits in `cancel_work_sync`, which
keeps a work from being queued again, and for the device's lock gets its turn (strong); and
mac80211 closes an interface it is made to give up. Nothing is assumed of mac80211's other
calls, of the other timers or of the device's events: no property waits for them. `WlDiag`
has no fairness: all its properties are safety.

## What is proved

All theorems hold for every value of the constants; TLAPS checks them to the leaves.

- `CoreLifecycleProofs`, any environment: `TypeCorrect`, `LockDiscipline`,
  `HandlersSuffice`. Their inductive invariant is `LockInv == TypeOK /\ MutexHeldInside /\
  HandlersCover`: the count of handlers stays natural only because each `free_irq` in
  progress still has its own handler registered, and that count is kept only because the
  started status is set and cleared by the holder of the mutex. So the three are proved
  together. Assuming `~ResetDuringStop`: `QuietInvariant`. A restart and a stop or start
  never overlap (`Exclusive`), since mac80211 flushes the workqueue before `op_stop` and
  nothing queues a restart meanwhile; hence the status follows from the place of the one
  thread changing it (`StatusByPlace`), and so do the mask, the handler, the suspend count
  and the periodic work. `StatusAssertions`, `ClosedMeansDown`, `Balance`, `NoHandlerLeaks`
  and `StoppedStaysQuiet` are consequences. `Balance` does not say that the suspend count is
  never negative, which would be the driver's assertion and is false: it says where it is
  (`SuspendCountBounded`), namely -1 between the two calls that reserve the medium for a
  calibration of the periodic work, and nowhere else.
- `PathProofs`, interrupts: `TypeCorrect` and `SilentStop` on any line (from `StopInv`);
  assuming `~SharedLine`, `IrqInvariant`, `ThreadUndisturbed`, `NotOverwritten`, and
  `Implements`, the refinement of `IrqEvents`. `IrqInv` says who may unmask when: while the
  thread is pending the mask is empty, so the hard handler is not running and nobody but the
  thread unmasks.
- `KeyMemoryProofs`: `TypeCorrect`, `KeyInvariant`, `Agreement` and `RaceFree`, from
  `KeyInv`: where mac80211's keys are (`Placed`), what the call under way may write
  (`JobInv`), and that a slot matches nobody from the zeroing of its address to the end of
  the call (`LockedOut`). `ReceiverSound`: `SoundInv` adds that mac80211 has one key per use
  (`Unique`) and, until a stray slot is written, that an update is for the key in its slot
  (`Knows`), what a slot holds at each step of a call (`Progress`) and that any other slot
  holds its key ready for use or matches nobody (`Settled`). `CopiesAgree`: a call that
  writes a default key names it in the books first, so that what is still to be written of
  the two slots is known at each step (`GroupProgress`).
- `PathProofs`, transmissions (the names of `TxQueue`'s specification begin with `Tx`, since
  one module extends both): `TxTypeCorrect`, `OnlyStaleStalls` (`FreshDataFlows`) and
  `NothingSentDown` (`DownSendsNothing`), from `TxInv`: the work is inside a queue only
  while no reset runs (`Phases`), and until a flag is stale a set flag stands for a full
  ring, a queue that mac80211 stopped lacks at most one slot (`NearlyFull`; this needs rings
  of more than one slot), and every waiting frame has somebody to move it (`Rescued`).
- `BeaconUpdateProofs`: `TypeCorrect`, `WritesUnused`, `BeaconThere` and `LockedUpdates`,
  from `BeaconInv`: the bottom half and a restart exclude each other (`Apart`), the
  templates picked are not valid and stay so (`Chosen`), who asks for the bottom half has
  set a beacon (`Asked`), and until the first overlap nobody replaces a beacon that another
  is using (`Stages`, `Referred`, `Written`). What they say of a template's contents is said
  of the templates whose last upload found memory.
- `SettingsProofs`: `WlInvariant` and, from it, `Quiet` (`Unaddressed`), with any number of
  interfaces: what `struct b43_wl` remembers is what mac80211 asked (`Follows`), the device
  is set to that whether restarted or not (`SetAs`), and what only mac80211 knows is set or
  about to be, by its own call or by the restart (`Configures`). `SetAsAsked`
  (`SettingsHold`) holds along every behaviour in which a restart that has read `wl->vif`
  still finds that interface when its `bss_info_changed` gets the mutex, or none at all
  (`SameVif`). Behaviours that break it are the ones under "Disagreements met";
  `OneInterface` is the theorem without the hypothesis for a driver that has one interface,
  as in the run. Both include the scan's host flag, as an equivalence: it is set exactly
  while a scan is asked for that no restart has come into.
- `DriverAttachProofs`: `BusInvariant` and `Released` (`CoresReleased`), for every ROM:
  `BusInv` says that the bus's list numbers its cores (`ListInv`), that a device is being
  registered, registered, probed or bound in that order (`DeviceInv`), and that a device's
  references are the list's and the binding's (`RefsInv`). There the walk over the ROM
  enters only with the shape of the list it builds. `NothingOutlives` (`NoCallbackOutlives`)
  and `FaultsKnown` (`AccessSafe`) add `AttachInv`: the firmware work precedes all that is
  registered (`FirmwareFirst`), what exists at each stage of a removal (`Existing`), and
  that an initialised core has its clock and a restart is queued only for registered
  hardware (`UpInv`). They are about chips with one core that the driver is for (`OneD11`),
  as this one: the model has one `struct b43_wl`, and with a second d11 core the driver
  would make another. `ScanCorrect` (`ScanSound`) is about the walk itself, for every ROM:
  of any number of components with any number of ports, whole or not. `ScanInv` says that in
  a whole ROM the pointer stands where a component begins, or at the end mark, with exactly
  the cores before it on the list (`KeptListed`); TLC checked it on the run's ROMs first.
  The loops over descriptors are recursive functions. That such a function exists and where
  it ends is shown through a least counterexample (`Least`), since the library's induction
  theorems are out of reach: `RunFound` for the descriptors of a port, from any descriptor
  of the run, since the first slave descriptor is read before the loop; `PortsFound` for one
  port after the other. From these, one call of `bcma_get_next_core` describes a core and
  stops behind its last word (`CoreFound`), passes over what is not one (`OthersPassed`) and
  sees the end (`EndFound`). `UnitCounts` shows that one more than the unit of the last core
  of a kind is the number of its kind before it, and `NumberFree` that the test for a core
  number already taken never succeeds.
- `NphyCalProofs`: `CalInvariant`, `StepsBalanced` (`Balanced`), `TransmitterAsFound`
  (`TransmitterPutBack`) and `MeasuredTogether` (`SavedTogether`). A phase of the
  calibration is a composition of a dozen operators on the record `phy`, so the proof has
  two layers. The first says of each operator which fields it may write and that it leaves
  the nested carrier search as it met it (`Within`), whether or not tone and memory are
  there and for both families of registers; this composes (`WithinThen`, `WithinMore`). The
  second says of the few that touch gains, multiplier, index or control what they make of
  them (`ForceSets`, `HandBackSets`, `PlayedAndStopped`, `TxPowerCtrlSets`). `CalInv` then
  has one part per property and what it needs to be inductive: where the search is held
  (`SearchHeld`), on whose behalf the MAC is suspended (`MacCounted`, which goes below the
  caller's count for the two steps that reserve the medium), that throughout the sequence
  the control is off and the index it had is in `tx_pwr_idx`, in the target gains and in
  `found` alike (`Remembered`), and that while a channel's coefficients are measured nothing
  is saved yet (`Together`). `CalInv` was first checked as an invariant of the run's
  instance. `RegistersHandedBack` (`RegistersPutBack`) is a third layer, on what the
  registers hold, with `RegsInv` beside `CalInv` (checked by TLC on the run's instance as
  well). It needs more than the property says: which marks are on in every kind of register
  between two phases, with the control on and with it off, and which cores have their PAPD
  engine on after each pass (`Rest`, `Engines`). Of every operator the proof says which
  kinds of registers and which of the places that remember some it may touch (`Touch`, which
  composes as `Within` does), which override bits can be on in between (`OverIn`), and,
  where a mark matters, what becomes of it. What a phase saves comes back at its end because
  nothing in between writes a save area or takes a bit off that the cleanup does not know:
  `TxCalRegs`, `PapdPassedRegs` and `RxPassedRegs` for the three calibrations, `RssiCalRegs`
  and `IdleTssiRegs` for the two measurements, with and without memory for the tones and for
  both families of registers. Two things in the code make it work that one would not look
  for: the tone overrides the filter's bandwidth only if nobody else has, so that inside the
  calibrations it takes nothing off on stopping (`Filtered`), and forcing an index with the
  control off leaves the converter's override on, since it is marked again after it was
  cleared (`ForceTouch`).
- `WlDiagProofs`: `TracerInvariant` and, from it, the five properties of the run:
  `DetoursSound` (`DetourSound`), `ReturnsAreHome` (`ReturnsHome`), `RecordsAccounted`
  (`Accounted`), `WlRestored` (`TextRestored`) and `StraysOnlyLate` (`StrayOnlyWhenLate`),
  for any set of kernels and `wl` binaries, finitely many tasks, and any numbers of hooks,
  sites, nested calls and records. `TracerInv` has a part per actor. The loader: what it has
  still to write, by phase (`WorkInv`), where a displaced entry has its head written, or
  still to write, only behind its other words (`HeadLast`), and every word changed has its
  write back among those to come once unloading began; `RefInv` and `NotifierInv` say who
  keeps `wl` there and which notifiers are registered meanwhile. The callers: a task that
  took a new head finds the other three words new until unloading begins (`FrameSound`), no
  task is in a stub once they were waited for, unless the kernel preempts (`StubsInv`), and
  each diverted return has exactly one place in the pool, whose order grows with the nesting
  (`PoolInv`): so the youngest place of a task is that of its innermost diverted call. The
  buffer: its counters modulo `Counters` and the slots between them (`BufferType`), with
  lemmas on what taking and storing a record makes of `Contents`, wrap included, and with
  `Held`, the records on their way, as the cardinality of a set that a step changes by one.
  The properties on faults need that a fault ends the behaviour: the step that would add one
  is the step the invariant rules out. Every part was checked by TLC on the run's instance
  before it was proved. What the loop of `find_sites` computes is a recursive function; that
  it leaves pairs, however many looks it takes, is an induction made through a least
  counterexample (`Least`), since the induction theorems of the library are out of reach.

Assumptions on constants are the named `ASSUME`s of the modules (`MaxCount`, `Limit` and so
on natural numbers; a ROM called whole is `WellFormed`; one default per setting in
`Settings`; what the forced gain indices differ from in `NphyCal`; the shape of a kernel's
description and a finite set of tasks in `WlDiag`). The inductive invariants and the type
invariants are proved and so have no run of their own.

One thing to keep when changing `NphyRegs` and `NphyCal`: a register is written with a path,
`[p EXCEPT !.cell.INTC = Marked(@, cs, marks)]`. tlapm 1.4.5 expands the inner `@` of `[p
EXCEPT !.cell = [@ EXCEPT !.INTC = Marked(@, cs, marks)]]` to `p.cell.INTC.INTC`, so a proof
would be about another function than the one TLC evaluates.

Only model-checked: all liveness (TLAPS does not treat fairness and ENABLED). Every
invariant that a run expects to hold is a theorem.

## Disagreements met

Two have a run and are listed as findings: `beacon_double_free` and `nphy_mac_underflow`.
Others were met while modelling, by a definition of a module that a run refutes when it is
made its invariant, or by reading, and have no run of their own here:

- A restart that waits in `core_stop` while `op_stop` brings the core down and mac80211
  opens the interface again goes on to initialise the started core, of which `core_init`
  warns (`B43_WARN_ON(b43_status(dev) != B43_STAT_UNINIT)`, `main.c` 4888):
  `CoreLifecycle`'s `InitFromUninit` with `ResetDuringStop`.
- A restart leaves `beacon0_uploaded` and `beacon1_uploaded` as they were (4871). If
  mac80211 then has no beacon for it (1891), a trigger that was queued before marks a
  template valid that was never written since the reset: `ValidIsWritten` holds only without
  `"missed"`.
- `op_tx` tests `tx_queue_stopped` without the mutex and stops mac80211's queue after the
  last status has woken it (3709); a restart drains a full ring and keeps its flag (4447):
  `TxQueue`'s `DataFlows`.
- `b43_nphy_papd_cal` saves the receive reset at `phy_n.c` 7460, after the pulse at 7450 has
  cleared it, so that what "goes back at the end" (7457) is not what it was on a channel
  with spur avoidance: `NphyCal`'s `ReceiveResetBack`.
- `b43_chip_reset` reads `wl->vif` without the mutex and hands it to `bss_info_changed`
  (`main.c` 5321), which asserts that it is the driver's (4178): `Settings`' `VifAgrees`.
  With another interface added meanwhile the device gets the settings of the old one.
- A restart reloads "the configuration" (5319) but not the wake-up time of the synthesizer
  nor the time before a beacon, which are set only when an interface is added: `Settings`'
  `TimingsHold`.
- wl-diag writes a break before its hook is marked armed, and the trap in between is passed
  over (`src/wl-diag/3-4/wl_diag.c` 1454, 580; against 1420): `WlDiag`'s `TrapHandled`.
- `find_sites` drops one of two sites that share an `addiu` and keeps the other, whose
  `addiu` it rewrites under the dropped one (703; against 624): `WlDiag`'s `PairsWhole` with
  `MCWlDiag`'s `SharedBuilds`.
- `wd_read` returns 0, the end of the file, when records were dropped, without reporting how
  many (968).
- `chip_reset` reloads the configuration also of a core it found uninitialised (`main.c`
  5320): `ConfigOnlyWhenUp` (of `CoreLifecycle` and of `DriverAttach`) does not hold.
- The random number generator may read the device between `b43_one_core_detach` and
  `b43_rng_exit` (5749-5752), and after a restart that failed a removal does not unregister
  from mac80211 (5744): `AccessSafe` and `NoCallbackOutlives` state the exceptions.
- A scan that stops at a malformed entry, or for want of memory, leaves the cores before it
  on the bus's list with their mappings (`scan.c` 513): `lost` in `BcmaBus`.
- `op_config` reads `wl->current_dev` before it takes the mutex (4045): `DeviceIsCurrent`
  does not hold after a restart gave the device up in between.
- `op_tx` hands a NULL device to `b43_stop_queue` after a failed restart (3709).
- When the clone of the beacon finds no memory `b43_write_beacon_template` returns without
  writing anything (`main.c` 1683-1687); `b43_upload_beaconN` sets the uploaded flag all the
  same (1770, 1780) and `handle_irq_beacon` marks the template valid (1815-1828). The
  firmware then sends what was there before, and nothing tries again until the next update:
  `skipped` in `BeaconUpdate`.
- A restart during a scan clears `B43_HF_SKCFPUP` (`main.c` 4951), and until the scan is
  over nothing sets it again, against "Disable CFP update during scan on other channels"
  (5205): `dropped` in `Settings`.
- `b43_bcma_remove` cancels the restart work first (5738), "before unregistering from
  ieee80211"; a restart asked for after that is drained by the unregistering only, and after
  a restart that failed there is none (5744): the work stays queued and is freed with its
  device. `NoCallbackOutlives` and `AccessSafe` state the exception; `RestartFreed` is the
  step.
- wl-diag's unloading counts on `synchronize_sched` to wait for the calls that are in a stub
  (`src/wl-diag/3-4/wl_diag.c` 1481-1483, 1518). On a 3.4 kernel with `PREEMPT` a task can
  be preempted inside a stub and is not waited for, so that it comes back to code that is
  gone: `ReturnsHome` excepts it (`freed => build.preempt`).
- A bottom half that copies the beacon while the TIM update swaps it marks the old one as
  uploaded, and the new one waits for the next update (1770).
- A trigger left over from before a restart that got no beacon finds none (1677).
- With `hwtkip=1`, after a restart (which clears every slot, 3595) the next
  `b43_op_update_tkip_key` writes a station's address into a slot whose `keyconf` is NULL,
  which by `src/b43/b43.h` 705 is disabled: mac80211 was not asked to upload its keys again.
  `KeyMemory` has the restart and marks such a write as `stray`.
- `b43_nphy_papd_cal` returns in the middle on another band (`phy_n.c` 7469) and would keep
  the carrier search held; on this radio the band does not occur.
- `b43_nphy_txpwr_index` puts `saved->AfectrlOverride` back (4061) and nothing ever saves
  it.

## Plan

The order follows the weight of the behaviours. Modules marked done are in place.

1. `CoreLifecycle`, `IrqPath`, `TxQueue`, `BeaconUpdate`, `KeyMemory` (done), with theorems
   for each (done).
2. `NphyCal`: power control, carrier search and the deferred calibration, in the largest
   file of the driver (done); `NphyRegs`, the registers it takes and puts back (done).
3. `EromScan`, `BcmaBus`, `DriverAttach`: from the ROM to the registered hardware and back
   (done).
4. `TraceBuffer`, `WlDiag`: the tracer, with its theorems (done).
5. `Settings`: what mac80211 asked and what the device does, over restarts (done).
6. Proofs of the safety of `Settings`, `DriverAttach` and `NphyCal` (done), with what the
   walk over the ROM finds (`ScanSound`, done) and what the phases of `NphyCal` leave in the
   registers (`RegistersPutBack`, done).
7. Refinements worth stating: `TraceBuffer` of a bounded lossy queue, `DriverAttach` of a
   life of a driver (unbound, bound, serving).

## Not modelled

Register values and gain arithmetic of the PHY beyond `NphyRegs`, the tables and the powers
per rate: sequences of writes without control worth checking, pure functions, or data. The
noise calculation: whether its answer comes is up to the firmware. The TSF, antennas, 5 GHz
and 40 MHz, revisions of the PHY other than 4 and 8. The tracer's commands that poke
registers and dump memory and its parsers. `dma.c`, `pio.c`, `xmit.c`, `leds.c`, `rfkill.c`,
`phy_common.c`, the rest of bcma, mac80211 and the firmware are not in the repository. The
decoder, the harness and the scripts work offline on files. PIO and SDIO variants are left
out: the chip has neither.
