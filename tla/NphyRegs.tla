------------------------------ MODULE NphyRegs ------------------------------
(***************************************************************************)
(* The registers that the measurements and calibrations of b43/phy_n.c     *)
(* take over and hand back: the enable bits of the RF control overrides,   *)
(* the override of the antenna switch and the power amplifier (INTC), the  *)
(* converter's overrides (AFE), the PAPD enable and the radio's couplers.  *)
(*                                                                         *)
(* An operator takes the record that NphyCal keeps in phy and returns what *)
(* the function of the code makes of it.  A pair of registers, one a core, *)
(* is a pair of sets of marks: what was put on top of what the PHY's init  *)
(* leaves there, so that {} is "as the init left it".  The marks of an     *)
(* override's enable register are the bits that are on.  A register that   *)
(* is shared by the cores is kept in the first of the pair.                *)
(*                                                                         *)
(* The revisions of the PHY are those from 3 to 18.                        *)
(***************************************************************************)
EXTENDS Integers

Cores == {0, 1}
None == -1

Both(x) == [c \in Cores |-> x]

Kinds == {"AFECTL", "AFEOVER", "INTC", "PAPD_EN", "OVER0", "OVER1", "OVER2", "TXF_S0",
          "LUT_TRSW", "RSSIO", "CMD", "R2FF", "RFSEQCA", "BBCFG", "DAC", "TSSI",
          "PWRUP", "ATTEN"}

(* The registers, and what the driver's struct remembers of them. *)
Untouched ==
  [cell |-> [k \in Kinds |-> Both({})],
   saved |-> [i \in 1..15 |-> {}],   (* tx_rx_cal_phy_saveregs, shared by the      *)
   rad |-> [i \in 1..2 |-> {}],      (* calibrations, and ..._radio_saveregs       *)
   lpf |-> FALSE,                    (* lpf_bw_overrode_for_sample_play            *)
   intc |-> Both({}),                (* rfctrl_intc1_save, rfctrl_intc2_save       *)
   rssi |-> None, rssical |-> None]  (* the channel the RSSI's offsets are for, in *)
                                     (* the registers and in the cache             *)

Marked(pair, cs, marks) ==
  [c \in Cores |-> IF c \in cs THEN pair[c] \union marks ELSE pair[c]]

Unmarked(pair, cs, marks) ==
  [c \in Cores |-> IF c \in cs THEN pair[c] \ marks ELSE pair[c]]

Cleared(pair, cs) == [c \in Cores |-> IF c \in cs THEN {} ELSE pair[c]]

(* Whole registers written back from an earlier state of them. *)
PutBack(p, kinds, from) ==
  [p EXCEPT !.cell = [k \in Kinds |-> IF k \in kinds THEN from[k] ELSE @[k]]]

(* What is at the places of a layout goes into a save area, and comes back. *)
Saved(area, cell, layout) ==
  [i \in DOMAIN area |->
     IF i \in DOMAIN layout THEN cell[layout[i][1]][layout[i][2]] ELSE area[i]]

Restored(cell, area, layout) ==
  [k \in Kinds |-> [c \in Cores |->
     IF \E i \in DOMAIN layout : layout[i] = <<k, c>>
     THEN area[CHOOSE i \in DOMAIN layout : layout[i] = <<k, c>>]
     ELSE cell[k][c]]]

------------------------------------------------------------------------------
(* The overrides of the RF control.                                          *)

(* An override goes on for the cores it is asked for, and off for both.      *)
RfCtlOverrideRev7(p, bits, cs, off, id) ==
  LET kind == <<"OVER0", "OVER1", "OVER2">>[id + 1]
  IN [p EXCEPT !.cell[kind] = IF off THEN Unmarked(@, Cores, bits) ELSE Marked(@, cs, bits)]

(* The bits of each of the three registers that one command is about. *)
Many ==
  [RXRF_PU |-> <<{}, {\h20, \h10, \h8}, {}>>,
   RX_PU   |-> <<{}, {\h4, \h2, \h1, \h800}, {\h2}>>,
   TX_PU   |-> <<{\h4}, {\h2, \h800}, {\h1, \h4}>>,
   RX_GAIN |-> <<{\h800, \h2000, \h4000}, {}, {}>>,
   TX_GAIN |-> <<{\h1000, \h2000}, {}, {}>>]

OneToMany(p, cmd, cs, off) ==
  LET Over(q, id) == RfCtlOverrideRev7(q, Many[cmd][id + 1], cs, off, id)
  IN Over(Over(Over(p, 0), 1), 2)

(* Revisions 3 to 6: the lowest bit has a register of its own. *)
RfCtlOverride(p, bits, cs, off) ==
  LET Over(pair, b) == IF off THEN Unmarked(pair, Cores, b) ELSE Marked(pair, cs, b)
  IN [p EXCEPT !.cell.TXF_S0 = Over(@, bits \intersect {\h1}),
               !.cell.OVER0 = Over(@, bits \ {\h1})]

(* Switch and amplifier: taken back all at once, or one of them overridden.  *)
(* Only the former clears what the switch's override left in 0x2ff.          *)
IntcOverrideRev7(p, what, cs) ==
  CASE what = "OFF"  -> [p EXCEPT !.cell.INTC = Cleared(@, cs),
                                  !.cell.R2FF = Unmarked(@, {0}, {\h2000})]
    [] what = "TRSW" -> [p EXCEPT !.cell.INTC = Marked(@, cs, {"trsw"}),
                                  !.cell.R2FF = Marked(@, {0}, {\h2000, \h1})]
    [] what = "PA"   -> [p EXCEPT !.cell.INTC = Marked(@, cs, {"pa"})]

(* Before revision 7 the override is on with any of them, and the switch is   *)
(* moved by a pulse.                                                          *)
IntcOverride(p, what, cs) ==
  IF p.rev >= 7 THEN IntcOverrideRev7(p, what, cs)
  ELSE CASE what = "OFF"  -> [p EXCEPT !.cell.INTC = Cleared(@, cs)]
         [] what = "TRSW" -> [p EXCEPT !.cell.INTC = Marked(@, cs, {"on", "trsw"}),
                                       !.cell.OVER0 = Unmarked(@, cs, {\h1})]
         [] what = "PA"   -> [p EXCEPT !.cell.INTC = Marked(@, cs, {"on", "pa"})]

(* The old amplifier's override: off is remembered, on puts it back. *)
PaOverride(p, enable) ==
  IF enable THEN [p EXCEPT !.cell.INTC = p.intc]
  ELSE [p EXCEPT !.cell.INTC = Both({"pa"}), !.intc = p.cell.INTC]

------------------------------------------------------------------------------
(* Signal strength.                                                          *)

Narrow == {"W1", "W2", "NB"}

(* Route a signal to the converter, or, with code 0, none.  Code 0 leaves    *)
(* half of what routing the transmitter's strength sets.                     *)
RssiSelect(p, code, type) ==
  LET cs == CASE code = 1 -> {0} [] code = 2 -> {1} [] OTHER -> Cores
      mux == p.rev < 7 /\ type \notin {"IQ", "TBD"} /\ ~p.ipa
  IN CASE code = 0 ->
            [p EXCEPT !.cell.AFEOVER = Unmarked(@, Cores, {"rssi"}),
                      !.cell.AFECTL = Unmarked(@, Cores, {"rssi"}),
                      !.cell.TXF_S0 = Unmarked(@, Cores, {\h20}),
                      !.cell.LUT_TRSW = Unmarked(@, Cores, {"rssi"})]
       [] code # 0 /\ type \in Narrow ->
            [p EXCEPT !.cell.AFEOVER = Marked(@, cs, {"rssi"}),
                      !.cell.AFECTL = Unmarked(@, cs, {"rssi"}),
                      !.cell.LUT_TRSW = Marked(@, cs, {"rssi"}),
                      !.cell.TXF_S0 = Marked(@, cs, {\h20})]
       [] code # 0 /\ type \notin Narrow ->
            [p EXCEPT !.cell.AFEOVER = Marked(@, cs, {"rssi"}),
                      !.cell.AFECTL = Marked(@, cs, {"rssi", "range"}),
                      !.cell.TSSI = IF mux THEN Marked(@, cs, {"mux"}) ELSE @]

(* Measure, and put back all that the selection wrote but the radio's mux. *)
PollRssi(p, type) ==
  PutBack(RssiSelect(p, 5, type), {"AFECTL", "LUT_TRSW", "AFEOVER", "TXF_S0"}, p.cell)

(* The offsets of the receiver's measurement. *)
ScaleOffsetRssi(p, ch) == [p EXCEPT !.rssi = ch]

RssiKinds(rev) ==
  {"AFEOVER", "AFECTL", "OVER0", "TXF_S0", "CMD", "LUT_TRSW", "RSSIO"}
    \union IF rev >= 7 THEN {"OVER1", "OVER2", "R2FF"} ELSE {}

(* Deafen the receiver and cut it off its antenna. *)
RssiCalOpen(p) ==
  LET deaf == [p EXCEPT !.search.on = TRUE]
      cut == IntcOverride(IntcOverride(deaf, "OFF", Cores), "TRSW", Cores)
      up == OneToMany(OneToMany(cut, "RXRF_PU", Cores, FALSE), "RX_PU", Cores, FALSE)
  IN IF p.rev >= 7 THEN RfCtlOverrideRev7(up, {\h80, \h40, \h20, \h10}, Cores, FALSE, 0)
     ELSE RfCtlOverride(cut, {\h80, \h40, \h20, \h10, \h2, \h1}, Cores, FALSE)

(* The offset that makes every rail read zero, for the narrow band and then  *)
(* for the wide ones.                                                        *)
RssiMeasured(p, ch) ==
  LET narrow == ScaleOffsetRssi(PollRssi(p, "NB"), ch)
  IN ScaleOffsetRssi(PollRssi(narrow, "W1"), ch)

(* The switch is pulsed back and the saved registers are written, the caches  *)
(* last.                                                                      *)
RssiCalClose(q, p, ch) ==
  LET intc == [q EXCEPT !.cell.INTC = p.cell.INTC,
                        !.cell.OVER0 = Unmarked(@, Cores, {\h1}),
                        !.cell.CMD = Marked(@, {0}, {"start"})]
  IN [PutBack(intc, RssiKinds(p.rev), p.cell)
        EXCEPT !.rssical = ch, !.search.on = p.search.on]

RssiCal(p, ch) == RssiCalClose(RssiMeasured(RssiCalOpen(p), ch), p, ch)

(* The cached offsets go back, if there are any. *)
RestoreRssiCal(p) == IF p.rssical = None THEN p ELSE [p EXCEPT !.rssi = p.rssical]

(* The transmitter's own strength, of an amplifier that is inside. *)
IpaInternalTssiSetup(p) == [p EXCEPT !.cell.TSSI = Both({"idle"})]

------------------------------------------------------------------------------
(* What the transmitter's calibration takes.                                 *)

(* The nine radio cells of a core are one place. *)
TxRadioLayout == <<<<"TSSI", 0>>, <<"TSSI", 1>>>>

TxCalRadioSetupRev7(p) ==
  [p EXCEPT !.cell.TSSI = Both({"iqcal"}), !.rad = Saved(@, p.cell, TxRadioLayout)]

TxCalRadioCleanupRev7(p) == [p EXCEPT !.cell = Restored(@, p.rad, TxRadioLayout)]

TxLayout ==
  <<<<"AFECTL", 0>>, <<"AFECTL", 1>>, <<"AFEOVER", 0>>, <<"AFEOVER", 1>>, <<"BBCFG", 0>>,
    <<"DAC", 0>>, <<"DAC", 1>>, <<"INTC", 0>>, <<"INTC", 1>>, <<"PAPD_EN", 0>>,
    <<"PAPD_EN", 1>>>>

(* The filter's override goes on here and outlives the tones of the           *)
(* calibration.  Revision 8 has one override more.                            *)
TxCalPhySetup(p) ==
  LET open == [p.cell EXCEPT !.AFECTL = Marked(@, Cores, {"iqcal"}),
                             !.AFEOVER = Marked(@, Cores, {"iqcal"}),
                             !.BBCFG = Unmarked(@, {0}, {"RSTRX"}),
                             !.DAC = Both({"zero"}),
                             !.PAPD_EN = Unmarked(@, Cores, {"on"})]
      taken == [p EXCEPT !.cell = open, !.saved = Saved(@, p.cell, TxLayout)]
      rf == IntcOverride(IntcOverride(IntcOverride(taken, "PA", Cores), "TRSW", {0}),
                         "TRSW", {1})
      lpf == IF p.rev >= 7 THEN RfCtlOverrideRev7(rf, {\h80}, Cores, FALSE, 1) ELSE rf
  IN IF p.rev >= 8 THEN RfCtlOverrideRev7(lpf, {\h8}, Cores, FALSE, 0) ELSE lpf

FilterStaysOn(p) == [p EXCEPT !.cell = Restored(@, p.saved, TxLayout)]

TxCalPhyCleanup(p) ==
  RfCtlOverrideRev7([p EXCEPT !.cell = Restored(@, p.saved, TxLayout)], {\h80}, Cores, TRUE, 1)

------------------------------------------------------------------------------
(* What the receiver's calibration takes for one core.                       *)

RxLayout(c) ==
  <<<<"RFSEQCA", 0>>, <<"AFECTL", c>>, <<"AFEOVER", c>>, <<"INTC", 0>>, <<"INTC", 1>>,
    <<"RSSIO", 0>>, <<"RSSIO", 1>>, <<"OVER0", 0>>, <<"OVER0", 1>>, <<"PAPD_EN", 0>>,
    <<"PAPD_EN", 1>>, <<"OVER1", 0>>, <<"OVER1", 1>>, <<"OVER2", 0>>, <<"OVER2", 1>>>>

(* Transmit on the core and receive on the other. *)
RxcalPhySetup(p, c) ==
  LET open == [p.cell EXCEPT !.PAPD_EN = Unmarked(@, Cores, {"on"}),
                             !.RFSEQCA[0] = {c},
                             !.AFECTL = Marked(@, {c}, {"cal"}),
                             !.AFEOVER = Marked(@, {c}, {"cal"})]
      taken == [p EXCEPT !.cell = open, !.saved = Saved(@, p.cell, RxLayout(c))]
      Over(q, bits, id) == RfCtlOverrideRev7(q, bits, Cores, FALSE, id)
      rf == Over(Over(Over(IntcOverride(taken, "PA", Cores), {\h8}, 0),
                      {\h200, \h400, \h1, \h800, \h80, \h20}, 1),
                 {\h2}, 2)
  IN IntcOverride(rf, "TRSW", {c})

RxcalPhyCleanup(p, c) == [p EXCEPT !.cell = Restored(@, p.saved, RxLayout(c))]

RxRadioLayout(c) == <<<<"PWRUP", c>>, <<"ATTEN", c>>>>

RxcalRadioSetup(p, c) ==
  [p EXCEPT !.cell.PWRUP[c] = {"rx"}, !.cell.ATTEN[c] = {"rx"},
            !.rad = Saved(@, p.cell, RxRadioLayout(c))]

RxcalRadioCleanup(p, c) == [p EXCEPT !.cell = Restored(@, p.rad, RxRadioLayout(c))]

------------------------------------------------------------------------------
(* What the PAPD engine's calibration takes for one core.                    *)

(* Up to the tone. *)
PapdCalSetup(p, c) ==
  LET Over(q, bits, cs, id) == RfCtlOverrideRev7(q, bits, cs, FALSE, id)
      wide == Over(Over(p, {\h80}, Cores, 1), {\h800}, {c}, 0)
      up == OneToMany(OneToMany(wide, "TX_PU", {c}, FALSE), "TX_PU", {1 - c}, FALSE)
      all == Over(Over(Over(up, {\h8}, Cores, 0),
                       {\h1, \h4, \h8, \h10, \h20, \h100, \h200, \h400}, {c}, 1),
                  {\h2}, {c}, 2)
  IN [all EXCEPT !.cell.AFECTL = Marked(@, Cores, {"cal"}),
                 !.cell.AFEOVER = Marked(@, Cores, {"cal"}),
                 !.cell.PWRUP = Both({"papd"}), !.cell.ATTEN = Both({"papd"})]

PapdEngineOn(p, c) ==
  [p EXCEPT !.cell.PAPD_EN = Unmarked(Marked(@, {c}, {"on"}), {1 - c}, {"on"})]

(* After the tone.  The coupler's power goes to 0, not to what it was. *)
PapdCalCleanup(q, p) ==
  LET radio == [q EXCEPT !.cell.PWRUP = Both({"zero"}), !.cell.ATTEN = p.cell.ATTEN]
      Off(r, bits, id) == RfCtlOverrideRev7(r, bits, Cores, TRUE, id)
      off == Off(Off(Off(radio, {\h4, \h8, \h800, \h1000}, 0),
                     {\h1, \h2, \h4, \h8, \h10, \h20, \h100, \h200, \h400, \h800}, 1),
                 {\h1, \h2, \h4}, 2)
  IN Off(PutBack(off, {"AFECTL", "AFEOVER"}, p.cell), {\h80}, 1)

------------------------------------------------------------------------------
(* "Clear all overrides" of b43_phy_initn. *)
ClearOverrides(p) ==
  LET cleared == {"OVER0", "TXF_S0", "INTC", "AFEOVER"}
                   \union IF p.rev >= 7 THEN {"OVER1", "OVER2"} ELSE {}
  IN PutBack(p, cleared, Untouched.cell)
==============================================================================
