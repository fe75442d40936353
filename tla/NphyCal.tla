------------------------------ MODULE NphyCal ------------------------------
(***************************************************************************)
(* Transmit power control and the deferred calibration of b43/phy_n.c: the *)
(* init of the PHY schedules a calibration, the next recalculation of the  *)
(* transmit power (from op_config or from the periodic work) runs it, and  *)
(* it has to hand the radio back as it found it.  Everything here runs     *)
(* under wl->mutex, one caller at a time; what may go wrong is the order   *)
(* of the calls, a tone that cannot be played for want of memory, and what *)
(* the hardware's own power loop does in between.                          *)
(*                                                                         *)
(* Of the driver's struct and of the registers only what one step saves    *)
(* for another to put back is kept, with the registers of NphyRegs.  A     *)
(* step of the code that takes and gives back something by itself is an    *)
(* operator on the whole record, so that the steps compose in the order of *)
(* the code.                                                               *)
(*                                                                         *)
(* A definition directly above another and named for what it gets wrong is *)
(* a seeded fault, as in CoreLifecycle.                                    *)
(***************************************************************************)
EXTENDS NphyRegs

CONSTANTS
  Revs,      (* phy revisions: 8 calibrates, 4 is the one that holds the        *)
             (* carrier search around every table access (hang_avoid)           *)
  Channels,  (* channels of the 2.4 GHz band in use                             *)
  Spur,      (* those of them that need spur avoidance                          *)
  NoIr,      (* and those nothing may be sent on unasked (IEEE80211_CHAN_NO_IR) *)
  Powers,    (* power levels mac80211 asks for, not 0                           *)
  Loop       (* indices the hardware's power control loop settles on            *)

ASSUME RevsAssumption == Revs \subseteq {4, 8}
ASSUME SpurAssumption == Spur \subseteq Channels
ASSUME NoIrAssumption == NoIr \subseteq Channels
ASSUME PowersAssumption == 0 \notin Powers

VARIABLES
  board,  (* the revision of the PHY and whether its power amplifier is inside  *)
  conf,   (* mac80211's channel and the driver's desired_txpower                *)
  mac,    (* dev->mac_suspended                                                 *)
  phy,    (* struct b43_phy_n, and the registers it is about                    *)
  pc,     (* what the holder of wl->mutex does next                             *)
  caller, (* who asked for the recalculation                                    *)
  local,  (* what the functions that are running have saved on the stack        *)
  found   (* what the calibration met when it began (for the properties)        *)

vars == <<board, conf, mac, phy, pc, caller, local, found>>

(* Indices of the gain table that the driver forces: the one calibrations run *)
(* at, the one for a control that is off, one of the receive gain ladder, and *)
(* the one the control starts from.                                           *)
Cal == 10
Internal == 30
Ladder == 20
Start == 64

(* The multiplier a tone of the PAPD engine plays at, and silence. *)
ToneLevel == 65
Silent == 0

ASSUME LoopAssumption == Loop \subseteq Nat \ {Silent, Cal, Ladder, Internal, Start, ToneLevel}

------------------------------------------------------------------------------
(* The carrier search: while it is held the receiver hears nothing.          *)

(* The first to enter saves the classifier. *)
Entered(search) ==
  [search EXCEPT !.deaf = @ + 1,
                 !.class = IF search.deaf = 0 THEN search.on ELSE @,
                 !.on = TRUE]

(* The last to leave puts it back. *)
Left(search) ==
  [search EXCEPT !.deaf = @ - 1,
                 !.on = IF search.deaf = 1 THEN search.class ELSE @]

EnterSearch(p) == [p EXCEPT !.search = Entered(@)]

LeaveSearch(p) == [p EXCEPT !.search = Left(@)]

(* The bracket that only a PHY that may hang takes. *)
Hold(p) == [p EXCEPT !.search = IF @.hang THEN Entered(@) ELSE @]

Release(p) == [p EXCEPT !.search = IF @.hang THEN Left(@) ELSE @]

(* Table accesses and nothing else, under the bracket. *)
Tables(p) == Release(Hold(p))

------------------------------------------------------------------------------
(* Transmit power control.                                                   *)

(* Turning a running control off remembers the index it was on. *)
IndexSaved(power) == IF power.on THEN [power EXCEPT !.idx = power.index] ELSE power

(* Turning it on puts that index back, if there is one, and the loop starts  *)
(* from it.                                                                   *)
IndexBack(power) ==
  LET init == IF None \in {power.idx[c] : c \in Cores} THEN power.init ELSE power.idx
  IN [power EXCEPT !.init = init, !.index = init]

Switched(power, enable) ==
  [(IF enable THEN IndexBack(power) ELSE IndexSaved(power))
     EXCEPT !.ctrl = enable, !.on = enable]

(* A control that is off has the converter's gain overridden, and one that is *)
(* on has not; the amplifier inside loses its offset when it goes on.         *)
DacOverridden(p) == [p EXCEPT !.cell.AFEOVER = Marked(@, Cores, {"dac"})]

DacFreed(p) ==
  [p EXCEPT !.cell.AFEOVER = Unmarked(@, Cores, {"dac"}),
            !.cell.PAPD_EN = IF p.ipa THEN Unmarked(@, Cores, {"ext"}) ELSE @]

TxPowerCtrl(p, enable) ==
  LET switched == [Hold(p) EXCEPT !.power = Switched(@, enable)]
  IN Release(IF enable THEN DacFreed(switched) ELSE DacOverridden(switched))

(* A core put on an index of the gain table. *)
OnIndex(p, c, i) ==
  [p EXCEPT !.cell.AFEOVER = Marked(@, {c}, {"dac"}),
            !.cell.PAPD_EN = IF p.ipa THEN Marked(@, {c}, {"ext"}) ELSE @,
            !.gain[c] = i, !.mult[c] = i]

(* The gains of a control that is off, and what PAPD puts back. *)
TxPowerFix(p) ==
  Release(OnIndex(OnIndex([Hold(p) EXCEPT !.internal = Internal], 0, Internal), 1, Internal))

(* The tables of the loop and the index it is to start from. *)
CtlSetup(p) == Release([Hold(p) EXCEPT !.power.init = Both(Start)])

(* The saved converter's override of a chain is never assigned: putting it    *)
(* back clears it, on both cores.                                             *)
SavedOverrideBack(p) == [p EXCEPT !.cell.AFEOVER = Unmarked(@, Cores, {"dac"})]

(* Force one chain on an index: the first force keeps what it replaces. *)
ForceIndex(p, c, i) ==
  LET kept == IF p.forced[c] = None
              THEN [SavedOverrideBack(p) EXCEPT !.savedGain[c] = p.gain[c],
                                                !.savedMult[c] = p.mult[c]]
              ELSE p
      put == OnIndex(TxPowerCtrl(kept, FALSE), c, i)
  IN [TxPowerCtrl(put, p.power.ctrl) EXCEPT !.forced[c] = i]

HandBackForgets(p, c) == [p EXCEPT !.forced[c] = None]

(* Give a chain back what it had before, if an index is forced on it. *)
HandBack(p, c) ==
  IF p.forced[c] = None THEN p
  ELSE LET back == [SavedOverrideBack(p) EXCEPT !.gain[c] = p.savedGain[c],
                                                !.mult[c] = p.savedMult[c]]
       IN [TxPowerCtrl(back, p.power.ctrl) EXCEPT !.forced[c] = None]

------------------------------------------------------------------------------
(* Playing samples.                                                          *)

LoadSamples(p) == Tables(p)

(* Playing overrides the filter's bandwidth, unless that is overridden by     *)
(* someone else, and remembers whose the override is.                         *)
FilterForPlay(p) ==
  IF p.rev < 7 \/ \E c \in Cores : \h80 \in p.cell.OVER1[c] THEN p
  ELSE [RfCtlOverrideRev7(p, {\h80}, Cores, FALSE, 1) EXCEPT !.lpf = TRUE]

(* It saves the multiplier it is about to play over, unless one is saved      *)
(* already.                                                                   *)
RunSamples(p) ==
  LET q == FilterForPlay(EnterSearch(p))
  IN LeaveSearch([q EXCEPT !.multSave = IF @ = <<>> THEN <<q.mult>> ELSE @])

(* Without memory for its samples a tone does not start. *)
Tone(p, memory) == IF memory THEN RunSamples(LoadSamples(p)) ELSE p

StopForgets(p) == Tables(p)

(* Stopping puts the multiplier back, if a tone was started, and takes the    *)
(* filter's override off that the tone put on.                                *)
StopPlayback(p) ==
  LET quiet == [Hold(p) EXCEPT !.mult = IF p.multSave = <<>> THEN @ ELSE p.multSave[1],
                               !.multSave = <<>>]
  IN Release(IF p.rev >= 7 /\ p.lpf
             THEN [RfCtlOverrideRev7(quiet, {\h80}, Cores, TRUE, 1) EXCEPT !.lpf = FALSE]
             ELSE quiet)

(* The transmitter's gain is overridden while its strength is measured, on a  *)
(* channel that may be sent on.                                               *)
IdleGain(p, off) ==
  IF p.rev >= 7 THEN RfCtlOverrideRev7(p, {\h1000}, Cores, off, 0)
  ELSE RfCtlOverride(p, {\h2000}, Cores, off)

IdleTssi(p, memory, ch) ==
  LET set == IF p.ipa THEN IpaInternalTssiSetup(p) ELSE p
      tone == Tone(StopPlayback(IdleGain(set, FALSE)), memory)
      read == StopPlayback(PollRssi(tone, "TSSI_2G"))
  IN IF ch \in NoIr THEN p ELSE IdleGain(RssiSelect(read, 0, "W1"), TRUE)

(* The target gains: of the index the loop is on, which is remembered, or,   *)
(* with the control off, out of the table.                                   *)
GetTxGains(p) == IF p.power.ctrl THEN [p EXCEPT !.atGain = p.power.index] ELSE Tables(p)

TxpwrIndex(p, c, i) == Release(ForceIndex(Hold(p), c, i))

HandBackChain(p, c) == Release(HandBack(Hold(p), c))

------------------------------------------------------------------------------
(* The PHY's init and channel switch.                                        *)

RecalcKept(p) == p.last

RecalcReset(p) == <<>>

(* struct b43_phy_n as prepare_structs leaves it, and the registers after    *)
(* the reset of the core.                                                    *)
Prepared(p, of) ==
  [cell |-> Untouched.cell, saved |-> Untouched.saved, rad |-> Untouched.rad,
   lpf |-> Untouched.lpf, intc |-> Untouched.intc,
   rssi |-> Untouched.rssi, rssical |-> Untouched.rssical,
   rev |-> of.rev, ipa |-> of.ipa,
   search |-> [hang |-> of.rev = 4, deaf |-> 0, class |-> FALSE, on |-> FALSE],
   power |-> [ctrl |-> TRUE, on |-> FALSE, idx |-> Both(None),
              init |-> Both(Start), index |-> Both(Start)],
   forced |-> Both(None), savedGain |-> Both(0), savedMult |-> Both(0),
   internal |-> 0, atGain |-> Both(0), gain |-> Both(0), mult |-> Both(0),
   multSave |-> <<>>, pending |-> FALSE,
   coeffs |-> None, iqcal |-> None, last |-> RecalcReset(p)]

Workarounds(p) == Release(Tables(Hold(p)))

(* With no calibration saved, and on the one radio it is known for, one is   *)
(* left to be done.                                                          *)
Schedules(p) == p.iqcal = None /\ p.rev = 8

(* The coefficients of a calibration that is saved go back. *)
RestoreCal(p) == IF p.iqcal = None THEN p ELSE [p EXCEPT !.coeffs = p.iqcal]

(* b43_phy_initn: the overrides, the PAPD engine of an amplifier inside, and  *)
(* the old amplifier cut off while the receiver is reset.                     *)
InitOpen(p) ==
  LET cleared == ClearOverrides(p)
      engine == IF p.ipa
                THEN [cleared EXCEPT !.cell.PAPD_EN = Marked(@, Cores, {"on"})]
                ELSE cleared
      worked == Workarounds(engine)
  IN IF p.rev < 7 THEN PaOverride(PaOverride(worked, FALSE), TRUE) ELSE worked

(* Then the measurements, with the control off.  What is saved from before is *)
(* put back and what is not is measured, or left to be.                       *)
InitN(p, memory, ch) ==
  LET off == TxPowerFix(TxPowerCtrl(InitOpen(p), FALSE))
      set == Tables(CtlSetup(IdleTssi(off, memory, ch)))
      rssi == IF p.rssical = None THEN RssiCal(set, ch) ELSE RestoreRssiCal(set)
      cal == IF p.iqcal = None THEN GetTxGains(Tables(rssi)) ELSE RestoreCal(Tables(rssi))
  IN [TxPowerCtrl(cal, p.power.ctrl) EXCEPT !.pending = Schedules(p)]

(* b43_nphy_channel_setup *)
ChannelSetup(p, ch) ==
  LET fixed == IF p.power.ctrl THEN p ELSE TxPowerFix(p)
      Reset(pair) == IF ch \in Spur THEN Marked(pair, {0}, {"RSTRX"})
                     ELSE Unmarked(pair, {0}, {"RSTRX"})
  IN Tables([fixed EXCEPT !.cell.BBCFG = Reset(@)])

------------------------------------------------------------------------------
NoLocal == [entry |-> FALSE, ctrl |-> FALSE, bbcfg |-> {},
            mult |-> Both(0), gain |-> Both(0)]

Init ==
  /\ board \in [rev : Revs, ipa : BOOLEAN]
  /\ conf \in [channel : Channels, desired : {0}]
  /\ mac = 1
  /\ phy = Prepared([last |-> <<>>], board)
  /\ pc = "down"
  /\ caller = "none"
  /\ local = NoLocal
  /\ found = <<>>

(* Core init and start. *)
PowerUp ==
  /\ pc = "down"
  /\ \E memory \in BOOLEAN :
       phy' = ChannelSetup(InitN(Prepared(phy, board), memory, conf.channel), conf.channel)
  /\ mac' = 0
  /\ pc' = "idle"
  /\ UNCHANGED <<board, conf, caller, local, found>>

(* Core stop and exit, whether mac80211 asked or a restart did. *)
PowerDown ==
  /\ pc = "idle"
  /\ mac' = mac + 1
  /\ pc' = "down"
  /\ UNCHANGED <<board, conf, phy, caller, local, found>>

(* The hardware's loop moves the chains it controls. *)
LoopSettles ==
  /\ pc = "idle"
  /\ phy.power.on
  /\ \E index \in [Cores -> Loop] : phy' = [phy EXCEPT !.power.index = index]
  /\ UNCHANGED <<board, conf, mac, pc, caller, local, found>>

(* op_config: with the MAC suspended, a new channel and a new power.  Only a *)
(* power that is new asks for a recalculation.                               *)
Config(ch, power) ==
  /\ pc = "idle"
  /\ mac' = mac + 1
  /\ conf' = [channel |-> ch, desired |-> power]
  /\ phy' = IF ch = conf.channel THEN phy ELSE ChannelSetup(phy, ch)
  /\ pc' = IF power = conf.desired THEN "return" ELSE "recalc"
  /\ caller' = "config"
  /\ UNCHANGED <<board, local, found>>

(* The periodic work checks the transmit power with the MAC running. *)
Periodic ==
  /\ pc = "idle"
  /\ pc' = "recalc"
  /\ caller' = "work"
  /\ UNCHANGED <<board, conf, mac, phy, local, found>>

Return ==
  /\ pc = "return"
  /\ mac' = IF caller = "config" THEN mac - 1 ELSE mac
  /\ pc' = "idle"
  /\ caller' = "none"
  /\ local' = NoLocal
  /\ found' = <<>>
  /\ UNCHANGED <<board, conf, phy>>

(* The power is calculated once for a channel and a limit.  A calibration    *)
(* that is due follows.                                                      *)
Recalc ==
  /\ pc = "recalc"
  /\ IF phy.last = <<conf.channel, conf.desired>>
     THEN pc' = "return" /\ phy' = phy
     ELSE /\ phy' = [TxPowerCtrl(CtlSetup(phy), phy.power.ctrl)
                       EXCEPT !.last = <<conf.channel, conf.desired>>]
          /\ pc' = IF phy.pending THEN "begin" ELSE "return"
  /\ UNCHANGED <<board, conf, mac, caller, local, found>>

------------------------------------------------------------------------------
(* The calibration, phase by phase.                                          *)

Step(from, to) == pc = from /\ pc' = to

Quiet == UNCHANGED <<board, conf, caller, found>>

(* b43_nphy_run_pending_perical: take the target gains, turn the control     *)
(* off, force the index calibrations run at for long enough to read its      *)
(* gains, and give both chains back.                                         *)
Begin ==
  /\ Step("begin", "tx_iq_lo")
  /\ LET off == TxPowerCtrl(GetTxGains([phy EXCEPT !.pending = FALSE]), FALSE)
         read == Tables(TxpwrIndex(TxpwrIndex(off, 0, Cal), 1, Cal))
     IN phy' = HandBackChain(HandBackChain(read, 0), 1)
  /\ local' = [NoLocal EXCEPT !.entry = phy.power.ctrl]
  /\ found' = [index |-> phy.power.index, gain |-> phy.gain, mult |-> phy.mult]
  /\ UNCHANGED <<board, conf, mac, caller>>

FailureGoesOn == "papd_medium"

(* A calibration of the transmitter that fails ends the sequence: the phases *)
(* that build on it are skipped.                                             *)
AfterFailure == "tail"

(* The calibration's gains, and the radio and the PHY made ready. *)
TxCalOpen(p) ==
  LET in == [EnterSearch(p) EXCEPT !.search.hang = IF p.rev >= 4 THEN FALSE ELSE @,
                                   !.gain = Both(Cal)]
  IN TxCalPhySetup(IF p.rev >= 7 THEN TxCalRadioSetupRev7(in) ELSE in)

(* The commands of the calibration, while the tone plays. *)
TxCalLearn(p, ch) == [StopPlayback(p) EXCEPT !.coeffs = ch]

(* Everything back as it was in p, and the override of revision 8 off. *)
TxCalClose(q, p) ==
  LET phyback == TxCalPhyCleanup(q)
      off == IF q.rev >= 8 THEN RfCtlOverrideRev7(phyback, {\h8}, Cores, TRUE, 0) ELSE phyback
      gains == [off EXCEPT !.gain = p.gain]
      radio == IF q.rev >= 7 THEN TxCalRadioCleanupRev7(gains) ELSE gains
  IN LeaveSearch([radio EXCEPT !.search.hang = p.search.hang])

(* Without memory for its tone it learns no coefficients. *)
CalTxIqLo ==
  /\ pc = "tx_iq_lo"
  /\ \E memory \in BOOLEAN :
       LET played == Tone(TxCalOpen(phy), memory)
           learnt == IF memory THEN TxCalLearn(played, conf.channel) ELSE played
       IN /\ phy' = TxCalClose(learnt, phy)
          /\ pc' = IF memory THEN "papd_medium" ELSE AfterFailure
  /\ UNCHANGED mac /\ UNCHANGED local /\ Quiet

(* The medium is reserved for the transmission, which the firmware does with *)
(* the MAC running: b43_mac_enable here and b43_mac_suspend in the next step. *)
ReserveMedium(from, to) ==
  /\ Step(from, to)
  /\ mac' = mac - 1
  /\ UNCHANGED <<phy, local>> /\ Quiet

(* The receiver out of its reset: all of the calibrations listen. *)
Listening(p) == [p EXCEPT !.cell.BBCFG = Unmarked(@, {0}, {"RSTRX"})]

(* b43_nphy_papd_cal up to the first chain.  The reset of the receiver is    *)
(* read back only after it was cleared.                                      *)
PapdEnter ==
  /\ pc = "papd"
  /\ mac' = mac + 1
  /\ LET open == TxPowerCtrl(phy, FALSE)
         in == Listening(EnterSearch(open))
     IN IF board.ipa
        THEN /\ phy' = TxPowerCtrl(in, FALSE)
             /\ local' = [local EXCEPT !.bbcfg = in.cell.BBCFG[0], !.mult = in.mult,
                                       !.ctrl = in.power.ctrl]
             /\ pc' = "papd_0"
        ELSE phy' = open /\ local' = local /\ pc' = "rx_medium"
  /\ Quiet

(* One chain plays into its own receiver and the other is silent. *)
RunOne(p, c) ==
  LET gain == OneToMany(GetTxGains(p), "TX_GAIN", {c}, FALSE)
      loud == [PapdEngineOn(gain, c) EXCEPT
                 !.mult = [d \in Cores |-> IF d = c THEN ToneLevel ELSE Silent]]
  IN OneToMany(RfCtlOverrideRev7(loud, {\h8}, Cores, FALSE, 0), "TX_GAIN", {c}, TRUE)

(* A run for every gain that is tried, each of which leaves the same. *)
GainSearch(p, c) == RunOne(p, c)

(* The search for a gain and the run at the gain it finds, between setup and *)
(* cleanup.                                                                  *)
PapdPass(c, from, to) ==
  /\ Step(from, to)
  /\ \E memory \in BOOLEAN :
       LET set == PapdEngineOn(Tone(PapdCalSetup(phy, c), memory), c)
           done == StopPlayback(RunOne(GainSearch(set, c), c))
       IN phy' = [PapdCalCleanup(done, phy) EXCEPT !.mult = local.mult]
  /\ UNCHANGED <<mac, local>> /\ Quiet

(* The control comes back to what it was here, which is off, so both chains  *)
(* are put on the index of a control that is off.                            *)
PapdLeave ==
  /\ Step("papd_out", "rx_medium")
  /\ LET on == [phy EXCEPT !.cell.PAPD_EN = Marked(@, Cores, {"on"}),
                          !.cell.BBCFG[0] = local.bbcfg]
         closed == TxPowerCtrl(on, local.ctrl)
         back == IF closed.power.ctrl THEN closed
                 ELSE TxpwrIndex(TxpwrIndex(closed, 0, closed.internal), 1, closed.internal)
     IN phy' = LeaveSearch(back)
  /\ UNCHANGED <<mac, local>> /\ Quiet

(* b43_nphy_rev3_cal_rx_iq up to the first chain. *)
RxEnter ==
  /\ Step("rx", "rx_0")
  /\ mac' = mac + 1
  /\ phy' = EnterSearch([Listening(phy) EXCEPT !.gain = Both(Cal)])
  /\ local' = [local EXCEPT !.bbcfg = phy.cell.BBCFG[0], !.gain = phy.gain]
  /\ Quiet

(* The ladder forces an index and a gain for every tone of the sweep, and     *)
(* leaves the gain it found.                                                  *)
GainCtrl(p, c, memory) ==
  LET gain == OneToMany(p, "RX_GAIN", Cores, FALSE)
  IN StopPlayback(Tone(TxpwrIndex(gain, c, Ladder), memory))

(* Then one more tone measures. *)
RxPass(c, from, to) ==
  /\ Step(from, to)
  /\ \E memory \in BOOLEAN :
       LET set == RxcalRadioSetup(RxcalPhySetup(phy, c), c)
           measured == StopPlayback(Tone(GainCtrl(set, c, memory), memory))
       IN phy' = RxcalPhyCleanup(RxcalRadioCleanup(measured, c), c)
  /\ UNCHANGED <<mac, local>> /\ Quiet

SaveCal(p, ch) == Release([Hold(p) EXCEPT !.iqcal = ch])

(* The gains go back, the result is saved, the coefficients set up, and the   *)
(* receiver's strength is measured again.                                     *)
RxLeave ==
  /\ Step("rx_out", "idle_tssi")
  /\ LET off == OneToMany([phy EXCEPT !.cell.BBCFG[0] = local.bbcfg],
                          "RX_GAIN", Cores, TRUE)
         out == LeaveSearch([off EXCEPT !.gain = local.gain])
     IN phy' = RssiCal(Tables(SaveCal(out, conf.channel)), conf.channel)
  /\ UNCHANGED <<mac, local>> /\ Quiet

MeasureIdle ==
  /\ Step("idle_tssi", "tail")
  /\ \E memory \in BOOLEAN : phy' = CtlSetup(IdleTssi(phy, memory, conf.channel))
  /\ UNCHANGED <<mac, local>> /\ Quiet

(* Both chains go back on the index their control was on. *)
Tail ==
  /\ Step("tail", "return")
  /\ LET back == IF local.entry
                 THEN TxpwrIndex(TxpwrIndex(phy, 0, phy.atGain[0]), 1, phy.atGain[1])
                 ELSE phy
     IN phy' = TxPowerCtrl(back, local.entry)
  /\ UNCHANGED <<mac, local>> /\ Quiet

Calibrate ==
  \/ Begin
  \/ CalTxIqLo
  \/ ReserveMedium("papd_medium", "papd")
  \/ PapdEnter
  \/ PapdPass(0, "papd_0", "papd_1")
  \/ PapdPass(1, "papd_1", "papd_out")
  \/ PapdLeave
  \/ ReserveMedium("rx_medium", "rx")
  \/ RxEnter
  \/ RxPass(0, "rx_0", "rx_1")
  \/ RxPass(1, "rx_1", "rx_out")
  \/ RxLeave
  \/ MeasureIdle
  \/ Tail

Next ==
  \/ PowerUp
  \/ PowerDown
  \/ LoopSettles
  \/ \E ch \in Channels, power \in Powers : Config(ch, power)
  \/ Periodic
  \/ Recalc
  \/ Calibrate
  \/ Return

Spec == Init /\ [][Next]_vars

(* A call that holds wl->mutex runs to its end.  The periodic work is queued *)
(* again and again while the core is started, and the mutex is handed to     *)
(* whoever waits for it, so its turn comes.                                  *)
FairSpec ==
  /\ Spec
  /\ WF_vars(Recalc) /\ WF_vars(Calibrate) /\ WF_vars(Return)
  /\ SF_vars(Periodic)

------------------------------------------------------------------------------
(* Properties.                                                               *)

InSequence == {"begin", "tx_iq_lo", "papd_medium", "papd", "papd_0", "papd_1", "papd_out",
               "rx_medium", "rx", "rx_0", "rx_1", "rx_out", "idle_tssi", "tail"}

Indices == Loop \union {Cal, Internal, Ladder, Start}
Levels == Indices \union {Silent, ToneLevel}

(* The types of the variables. *)
TypeOK ==
  /\ board \in [rev : Revs, ipa : BOOLEAN]
  /\ conf \in [channel : Channels, desired : Powers \union {0}]
  /\ mac \in -1..2
  /\ phy.search.deaf \in 0..1
  /\ phy.power.idx \in [Cores -> Indices \union {None}]
  /\ phy.forced \in [Cores -> Indices \union {None}]
  /\ phy.power.index \in [Cores -> Indices]
  /\ phy.mult \in [Cores -> Levels]
  /\ phy.gain \in [Cores -> Levels]
  /\ pc \in InSequence \union {"down", "idle", "recalc", "return"}

Holding == {"papd_0", "papd_1", "papd_out", "rx_0", "rx_1", "rx_out"}

(* The carrier search is held in the two long calibrations and nowhere else: *)
(* every enter of the nested brackets has its leave, on the paths that fail  *)
(* as on the others, and the last leave puts the classifier back.            *)
SearchReleased ==
  /\ phy.search.deaf = IF pc \in Holding THEN 1 ELSE 0
  /\ phy.search.on = (pc \in Holding)
  /\ phy.search.hang = (board.rev = 4)

(* Between phases no multiplier is left saved for a tone to put back: every  *)
(* tone that was started was stopped.                                        *)
PlaybackStopped == phy.multSave = <<>>

(* A caller gives wl->mutex back with the MAC running, whatever it did to    *)
(* mac_suspended in between.                                                 *)
MacGivenBack == pc = "idle" => mac = 0

(* What the steps of the PHY take they give back. *)
Balanced == TypeOK /\ SearchReleased /\ PlaybackStopped /\ MacGivenBack

(* The control is off throughout the sequence and none of the many disables  *)
(* inside it overwrites the index that the first one remembered.             *)
ControlStaysOff ==
  pc \in InSequence \ {"begin"} =>
    ~phy.power.ctrl /\ ~phy.power.on /\ phy.power.idx = found.index

(* The index forced to read gains off is gone when the transmitter is        *)
(* calibrated, and the gains of that calibration when it is done.            *)
ForcedIndexGone ==
  pc \in {"tx_iq_lo", "papd_medium", "papd"} =>
    phy.forced = Both(None) /\ phy.gain = found.gain /\ phy.mult = found.mult

(* At the end both chains are on the index the loop had, in the gains, the   *)
(* multiplier and the loop itself, which is running again.                   *)
IndexRestored ==
  pc = "return" /\ found # <<>> =>
    /\ phy.power.ctrl /\ phy.power.on
    /\ phy.power.index = found.index
    /\ phy.gain = found.index
    /\ phy.mult = found.index

(* A calibration leaves the transmitter as it found it, also if one of its   *)
(* phases fails.                                                             *)
TransmitterPutBack == ControlStaysOff /\ ForcedIndexGone /\ IndexRestored

(* What is saved as the calibration of a channel was all measured on it: the *)
(* receiver's result is not saved over a transmitter's that is missing.      *)
SavedTogether == phy.iqcal # None => phy.coeffs = phy.iqcal

(* While a step runs it overrides what it likes; after it no override is on   *)
(* that was not on before it, and no tone owns one.                           *)
OverridesOff ==
  /\ \A c \in Cores, over \in {"OVER0", "OVER1", "OVER2", "INTC"} : phy.cell[over][c] = {}
  /\ ~phy.lpf

(* The converter's gain is overridden exactly while the control is off, and   *)
(* with it the amplifier's offset.                                            *)
DacFollowsControl ==
  \A c \in Cores :
    /\ ("dac" \in phy.cell.AFEOVER[c]) = ~phy.power.ctrl
    /\ board.ipa => ("ext" \in phy.cell.PAPD_EN[c]) = ~phy.power.ctrl

(* The other registers that a measurement or a calibration writes are as the  *)
(* init left them: the converter's, the routing of the signal strengths, the  *)
(* radio's calibration cells and couplers.  The PAPD engine of an amplifier   *)
(* inside is on, but between the passes of its calibration.  The receiver's   *)
(* offsets are the ones remembered.  Not among them are the coupler's power,  *)
(* which PAPD leaves at 0, and the switch's bits of 0x2ff.                    *)
CellsPutBack ==
  /\ \A c \in Cores, k \in {"AFECTL", "TXF_S0", "LUT_TRSW", "RSSIO", "CMD", "RFSEQCA",
                            "DAC", "ATTEN"} : phy.cell[k][c] = {}
  /\ \A c \in Cores :
       /\ phy.cell.AFEOVER[c] \subseteq {"dac"}
       /\ phy.cell.TSSI[c] \subseteq {"idle", "mux"}
       /\ pc \notin {"papd_1", "papd_out"} =>
            ("on" \in phy.cell.PAPD_EN[c]) = board.ipa
  /\ phy.rssi = phy.rssical

(* Every step of the init, of the recalculation and of the calibration hands  *)
(* the registers it took back, whichever of its parts fails.                  *)
RegistersPutBack ==
  pc # "down" => OverridesOff /\ DacFollowsControl /\ CellsPutBack

(* A calibration that the init scheduled is run, unless the core goes down:  *)
(* the recalculation that runs it is not skipped as one already made.        *)
PendingRuns == (pc # "down" /\ phy.pending) ~> (pc = "down" \/ ~phy.pending)

(* mac_suspended never drops below 0 (the assertion in b43_mac_enable and    *)
(* b43_mac_suspend): whoever enables the MAC had suspended it.               *)
MacNotNegative == mac >= 0

(* After a calibration the receive reset is what the channel needs: "whatever *)
(* it was goes back at the end".                                             *)
ReceiveResetBack ==
  pc = "idle" => ("RSTRX" \in phy.cell.BBCFG[0]) = (conf.channel \in Spur)
==============================================================================
