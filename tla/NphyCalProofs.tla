---------------------------- MODULE NphyCalProofs ----------------------------
(***************************************************************************)
(* Theorems about the N-PHY's calibration, for every set of channels,      *)
(* power levels and indices of the power loop.                             *)
(***************************************************************************)
EXTENDS NphyCal, TLAPS

(***************************************************************************)
(* What the steps of the PHY leave alone.                                  *)
(***************************************************************************)
(* The registers of NphyRegs and what the driver remembers of them; what   *)
(* sets the power of the transmitter; what is calibrated.                  *)
Regs == {"cell", "saved", "rad", "lpf", "intc", "rssi", "rssical"}
Levelling == {"power", "forced", "savedGain", "savedMult", "internal", "atGain", "gain",
              "mult", "multSave"}
Results == {"rev", "ipa", "pending", "coeffs", "iqcal", "last"}
PhyFields == Regs \union Levelling \union Results \union {"search"}

SearchFields == {"hang", "deaf", "class", "on"}
SearchOk(s) == DOMAIN s = SearchFields /\ s.deaf \in Nat /\ (s.deaf > 0 => s.on = TRUE)
Good(p) == DOMAIN p = PhyFields /\ SearchOk(p.search)

(* The search is held as it was; what the first to enter saved is there.   *)
Same(s, t) ==
  /\ t.hang = s.hang /\ t.deaf = s.deaf /\ t.on = s.on
  /\ s.deaf > 0 => t.class = s.class

(* q is p after a step that wrote some of the fields.                      *)
Within(p, q, fields) ==
  Good(p) => /\ Good(q) /\ Same(p.search, q.search)
             /\ \A f \in PhyFields \ (fields \union {"search"}) : q[f] = p[f]

(* p with the registers overwritten.                                       *)
Writes(p, cell) == [p EXCEPT !.cell = cell]

LEMMA WithinItself == ASSUME NEW p, NEW fields PROVE Within(p, p, fields)
BY DEF Within, Same

LEMMA WithinThen ==
  ASSUME NEW p, NEW q, NEW r, NEW fields, Within(p, q, fields), Within(q, r, fields)
  PROVE  Within(p, r, fields)
<1> SUFFICES ASSUME Good(p)
             PROVE  /\ Good(r) /\ Same(p.search, r.search)
                    /\ \A f \in PhyFields \ (fields \union {"search"}) : r[f] = p[f]
  BY DEF Within
<1>1. Good(q) /\ Same(p.search, q.search)
      /\ \A f \in PhyFields \ (fields \union {"search"}) : q[f] = p[f]
  BY DEF Within
<1>2. Good(r) /\ Same(q.search, r.search)
      /\ \A f \in PhyFields \ (fields \union {"search"}) : r[f] = q[f]
  BY <1>1 DEF Within
<1>3. Same(p.search, r.search)
  BY <1>1, <1>2 DEF Same
<1> QED
  BY <1>1, <1>2, <1>3

LEMMA WithinMore ==
  ASSUME NEW p, NEW q, NEW fields, NEW more, fields \subseteq more, Within(p, q, fields)
  PROVE  Within(p, q, more)
BY DEF Within

(* A field that the step may write.                                        *)
LEMMA OneField ==
  ASSUME NEW p, NEW f \in PhyFields \ {"search"}, NEW x
  PROVE  Within(p, [p EXCEPT ![f] = x], {f})
BY DEF Within, Good, Same

LEMMA FieldToo ==
  ASSUME NEW p, NEW q, NEW fields, Within(p, q, fields), NEW f \in fields, f \in PhyFields \ {"search"}, NEW x
  PROVE  Within(p, [q EXCEPT ![f] = x], fields)
<1>1. Within(q, [q EXCEPT ![f] = x], {f})
  BY OneField
<1>2. {f} \subseteq fields
  OBVIOUS
<1> QED
  BY <1>1, <1>2, WithinMore, WithinThen

(* One register, or one of the places that remember some, more.            *)
LEMMA Written ==
  ASSUME NEW p, NEW q, Within(p, q, Regs), NEW x
  PROVE  /\ Within(p, Writes(q, x), Regs)
         /\ Within(p, [q EXCEPT !.saved = x], Regs)
         /\ Within(p, [q EXCEPT !.rad = x], Regs)
         /\ Within(p, [q EXCEPT !.lpf = x], Regs)
         /\ Within(p, [q EXCEPT !.intc = x], Regs)
         /\ Within(p, [q EXCEPT !.rssi = x], Regs)
         /\ Within(p, [q EXCEPT !.rssical = x], Regs)
<1>1. \A f \in Regs : Within(p, [q EXCEPT ![f] = x], Regs)
  BY FieldToo DEF PhyFields, Regs
<1> QED
  BY <1>1 DEF Writes, Regs

(* The brackets of the carrier search.                                     *)
LEMMA SearchBracket ==
  ASSUME NEW s, SearchOk(s)
  PROVE  /\ SearchOk(Entered(s)) /\ Entered(s).hang = s.hang /\ Entered(s).deaf = s.deaf + 1
         /\ Entered(s).on = TRUE
         /\ \A t : SearchOk(t) /\ Same(Entered(s), t) => SearchOk(Left(t)) /\ Same(s, Left(t))
<1>1. /\ DOMAIN Entered(s) = SearchFields /\ Entered(s).hang = s.hang
      /\ Entered(s).deaf = s.deaf + 1 /\ Entered(s).on = TRUE
      /\ Entered(s).class = IF s.deaf = 0 THEN s.on ELSE s.class
  BY DEF SearchOk, SearchFields, Entered
<1>2. SearchOk(Entered(s))
  BY <1>1 DEF SearchOk
<1>3. ASSUME NEW t, SearchOk(t), Same(Entered(s), t)
      PROVE  SearchOk(Left(t)) /\ Same(s, Left(t))
  <2>1. /\ DOMAIN Left(t) = SearchFields /\ Left(t).hang = t.hang /\ Left(t).class = t.class
        /\ Left(t).deaf = t.deaf - 1 /\ Left(t).on = IF t.deaf = 1 THEN t.class ELSE t.on
    BY <1>3 DEF SearchOk, SearchFields, Left
  <2>2. t.hang = s.hang /\ t.deaf = s.deaf + 1 /\ t.on = TRUE
        /\ t.class = IF s.deaf = 0 THEN s.on ELSE s.class
    BY <1>1, <1>3 DEF Same, SearchOk
  <2>3. Left(t).deaf = s.deaf /\ Left(t).hang = s.hang
    BY <2>1, <2>2 DEF SearchOk
  <2>4. Left(t).on = s.on
    <3>1. CASE s.deaf = 0
      BY <2>1, <2>2, <3>1
    <3>2. CASE s.deaf > 0
      <4>1. t.deaf # 1 /\ s.on = TRUE
        BY <2>2, <3>2 DEF SearchOk
      <4> QED
        BY <2>1, <2>2, <4>1
    <3> QED
      BY <3>1, <3>2 DEF SearchOk
  <2> QED
    BY <2>1, <2>2, <2>3, <2>4 DEF SearchOk, Same
<1> QED
  BY <1>1, <1>2, <1>3

LEMMA Brackets ==
  ASSUME NEW p, DOMAIN p = PhyFields, NEW x
  PROVE  /\ DOMAIN [p EXCEPT !.search = x] = PhyFields
         /\ [p EXCEPT !.search = x].search = x
         /\ \A f \in PhyFields \ {"search"} : [p EXCEPT !.search = x][f] = p[f]
BY DEF PhyFields

(* Enter and leave, around steps that leave the search as it is.           *)
LEMMA EnterLeave ==
  ASSUME NEW p, NEW q, NEW fields, Within(EnterSearch(p), q, fields)
  PROVE  Within(p, LeaveSearch(q), fields)
<1> SUFFICES ASSUME Good(p)
             PROVE  /\ Good(LeaveSearch(q)) /\ Same(p.search, LeaveSearch(q).search)
                    /\ \A f \in PhyFields \ (fields \union {"search"}) : LeaveSearch(q)[f] = p[f]
  BY DEF Within
<1>1. /\ DOMAIN EnterSearch(p) = PhyFields /\ EnterSearch(p).search = Entered(p.search)
      /\ \A f \in PhyFields \ {"search"} : EnterSearch(p)[f] = p[f]
  BY Brackets DEF EnterSearch, Good
<1>2. Good(EnterSearch(p))
  BY <1>1, SearchBracket DEF Good
<1>3. /\ Good(q) /\ Same(Entered(p.search), q.search)
      /\ \A f \in PhyFields \ (fields \union {"search"}) : q[f] = p[f]
  BY <1>1, <1>2 DEF Within
<1>4. /\ DOMAIN LeaveSearch(q) = PhyFields /\ LeaveSearch(q).search = Left(q.search)
      /\ \A f \in PhyFields \ {"search"} : LeaveSearch(q)[f] = q[f]
  BY <1>3, Brackets DEF LeaveSearch, Good
<1>5. SearchOk(Left(q.search)) /\ Same(p.search, Left(q.search))
  BY <1>3, SearchBracket DEF Good
<1> QED
  BY <1>3, <1>4, <1>5 DEF Good

(* The same where only a PHY that may hang does so.                        *)
LEMMA HoldRelease ==
  ASSUME NEW p, NEW q, NEW fields, Within(Hold(p), q, fields)
  PROVE  Within(p, Release(q), fields)
<1> SUFFICES ASSUME Good(p)
             PROVE  Within(p, Release(q), fields)
  BY DEF Within
<1>1. CASE p.search.hang
  <2>1. Hold(p) = EnterSearch(p)
    BY <1>1 DEF Hold, EnterSearch
  <2>2. Good(EnterSearch(p)) /\ EnterSearch(p).search.hang = p.search.hang
    <3>1. DOMAIN EnterSearch(p) = PhyFields /\ EnterSearch(p).search = Entered(p.search)
      BY Brackets DEF EnterSearch, Good
    <3> QED
      BY <3>1, SearchBracket DEF Good
  <2>3. q.search.hang = p.search.hang
    BY <2>1, <2>2 DEF Within, Same
  <2>4. Release(q) = LeaveSearch(q)
    BY <1>1, <2>3 DEF Release, LeaveSearch
  <2> QED
    BY <2>1, <2>4, EnterLeave
<1>2. CASE ~p.search.hang
  <2>1. Within(p, Hold(p), fields)
    BY <1>2 DEF Hold, Within, Good, Same
  <2>2. Within(p, q, fields)
    BY <2>1, WithinThen
  <2>3. Good(q) /\ ~q.search.hang
    BY <1>2, <2>2 DEF Within, Same
  <2>4. Within(q, Release(q), fields)
    BY <2>3 DEF Release, Within, Good, Same
  <2> QED
    BY <2>2, <2>4, WithinThen
<1> QED
  BY <1>1, <1>2

LEMMA TablesToo ==
  ASSUME NEW p, NEW q, NEW fields, Within(p, q, fields)
  PROVE  Within(p, Tables(q), fields)
<1>1. Within(q, Tables(q), fields)
  BY WithinItself, HoldRelease DEF Tables
<1> QED
  BY <1>1, WithinThen

(***************************************************************************)
(* The steps of NphyRegs write registers.                                  *)
(***************************************************************************)
LEMMA RfCtlToo ==
  ASSUME NEW p, NEW q, Within(p, q, Regs), NEW bits, NEW cs, NEW off, NEW id
  PROVE  /\ Within(p, RfCtlOverrideRev7(q, bits, cs, off, id), Regs)
         /\ Within(p, RfCtlOverride(q, bits, cs, off), Regs)
<1>1. \A x : Within(p, Writes(q, x), Regs)
  BY Written
<1>2. Within(p, RfCtlOverrideRev7(q, bits, cs, off, id), Regs)
  BY <1>1, Zenon DEF Writes, RfCtlOverrideRev7
<1>3. Within(p, RfCtlOverride(q, bits, cs, off), Regs)
  BY <1>1, Zenon DEF Writes, RfCtlOverride
<1> QED
  BY <1>2, <1>3

LEMMA ManyToo ==
  ASSUME NEW p, NEW q, Within(p, q, Regs), NEW cmd, NEW cs, NEW off
  PROVE  Within(p, OneToMany(q, cmd, cs, off), Regs)
<1> DEFINE Over(r, id) == RfCtlOverrideRev7(r, Many[cmd][id + 1], cs, off, id)
<1>1. \A r, id : Within(p, r, Regs) => Within(p, Over(r, id), Regs)
  BY RfCtlToo
<1>2. OneToMany(q, cmd, cs, off) = Over(Over(Over(q, 0), 1), 2)
  BY DEF OneToMany
<1> HIDE DEF Over
<1> QED
  BY <1>1, <1>2

LEMMA IntcToo ==
  ASSUME NEW p, NEW q, Within(p, q, Regs), NEW what \in {"OFF", "TRSW", "PA"}, NEW cs
  PROVE  Within(p, IntcOverride(q, what, cs), Regs)
<1>1. \A x : Within(p, Writes(q, x), Regs)
  BY Written
<1>2. CASE what = "OFF"
  <2> DEFINE x == Cleared(q.cell.INTC, cs)
             y == Unmarked(q.cell.R2FF, {0}, {\h2000})
  <2>1. IntcOverrideRev7(q, what, cs) = [q EXCEPT !.cell.INTC = x, !.cell.R2FF = y]
    BY <1>2 DEF IntcOverrideRev7
  <2> HIDE DEF x, y
  <2>2. IntcOverrideRev7(q, what, cs) = Writes(q, [q.cell EXCEPT !.INTC = x, !.R2FF = y])
    BY <2>1, Zenon DEF Writes
  <2>3. q.rev >= 7 \/ IntcOverride(q, what, cs) = [q EXCEPT !.cell.INTC = Cleared(@, cs)]
    BY <1>2 DEF IntcOverride
  <2>4. Within(p, IntcOverrideRev7(q, what, cs), Regs)
    BY <1>1, <2>2
  <2> QED
    BY <1>1, <2>3, <2>4, Zenon DEF Writes, IntcOverride
<1>3. CASE what = "TRSW"
  <2> DEFINE x == Marked(q.cell.INTC, cs, {"trsw"})
             y == Marked(q.cell.R2FF, {0}, {\h2000, \h1})
             v == Marked(q.cell.INTC, cs, {"on", "trsw"})
             w == Unmarked(q.cell.OVER0, cs, {\h1})
  <2>1. IntcOverrideRev7(q, what, cs) = [q EXCEPT !.cell.INTC = x, !.cell.R2FF = y]
    BY <1>3 DEF IntcOverrideRev7
  <2>2. q.rev >= 7 \/ IntcOverride(q, what, cs) = [q EXCEPT !.cell.INTC = v, !.cell.OVER0 = w]
    BY <1>3 DEF IntcOverride
  <2> HIDE DEF x, y, v, w
  <2>3. IntcOverrideRev7(q, what, cs) = Writes(q, [q.cell EXCEPT !.INTC = x, !.R2FF = y])
    BY <2>1, Zenon DEF Writes
  <2>4. [q EXCEPT !.cell.INTC = v, !.cell.OVER0 = w] =
           Writes(q, [q.cell EXCEPT !.INTC = v, !.OVER0 = w])
    BY Zenon DEF Writes
  <2>5. Within(p, IntcOverrideRev7(q, what, cs), Regs)
    BY <1>1, <2>3
  <2>6. Within(p, [q EXCEPT !.cell.INTC = v, !.cell.OVER0 = w], Regs)
    BY <1>1, <2>4, Zenon
  <2> QED
    BY <2>2, <2>5, <2>6, Zenon DEF IntcOverride
<1>4. CASE what = "PA"
  <2>1. IntcOverrideRev7(q, what, cs) = [q EXCEPT !.cell.INTC = Marked(@, cs, {"pa"})]
    BY <1>4 DEF IntcOverrideRev7
  <2>2. Within(p, IntcOverrideRev7(q, what, cs), Regs)
    BY <1>1, <2>1, Zenon DEF Writes
  <2>3. q.rev >= 7 \/ IntcOverride(q, what, cs) =
                        [q EXCEPT !.cell.INTC = Marked(@, cs, {"on", "pa"})]
    BY <1>4 DEF IntcOverride
  <2> QED
    BY <1>1, <2>2, <2>3, Zenon DEF Writes, IntcOverride
<1> QED
  BY <1>2, <1>3, <1>4

LEMMA PaToo ==
  ASSUME NEW p, NEW q, Within(p, q, Regs), NEW enable
  PROVE  Within(p, PaOverride(q, enable), Regs)
<1>1. \A x, y : Within(p, [Writes(q, x) EXCEPT !.intc = y], Regs) /\ Within(p, Writes(q, x), Regs)
  BY Written
<1> QED
  BY <1>1, Zenon DEF Writes, PaOverride

LEMMA PollToo ==
  ASSUME NEW p, NEW q, Within(p, q, Regs), NEW type, NEW code
  PROVE  /\ Within(p, RssiSelect(q, code, type), Regs)
         /\ Within(p, PollRssi(q, type), Regs)
<1>1. \A c : Within(p, RssiSelect(q, c, type), Regs)
  <2>1. \A x : Within(p, Writes(q, x), Regs)
    BY Written
  <2>2. \A a, b, x, y : Within(p, [q EXCEPT !.cell.AFEOVER = a, !.cell.AFECTL = b,
                                           !.cell.TXF_S0 = x, !.cell.LUT_TRSW = y], Regs)
    <3> TAKE a, b, x, y
    <3>1. [q EXCEPT !.cell.AFEOVER = a, !.cell.AFECTL = b, !.cell.TXF_S0 = x, !.cell.LUT_TRSW = y]
            = Writes(q, [q.cell EXCEPT !.AFEOVER = a, !.AFECTL = b, !.TXF_S0 = x, !.LUT_TRSW = y])
      BY Zenon DEF Writes
    <3> QED
      BY <2>1, <3>1
  <2>3. \A a, b, x, y : Within(p, [q EXCEPT !.cell.AFEOVER = a, !.cell.AFECTL = b,
                                           !.cell.LUT_TRSW = y, !.cell.TXF_S0 = x], Regs)
    <3> TAKE a, b, x, y
    <3>1. [q EXCEPT !.cell.AFEOVER = a, !.cell.AFECTL = b, !.cell.LUT_TRSW = y, !.cell.TXF_S0 = x]
            = Writes(q, [q.cell EXCEPT !.AFEOVER = a, !.AFECTL = b, !.LUT_TRSW = y, !.TXF_S0 = x])
      BY Zenon DEF Writes
    <3> QED
      BY <2>1, <3>1
  <2>4. \A a, b, x : Within(p, [q EXCEPT !.cell.AFEOVER = a, !.cell.AFECTL = b,
                                        !.cell.TSSI = x], Regs)
    <3> TAKE a, b, x
    <3>1. [q EXCEPT !.cell.AFEOVER = a, !.cell.AFECTL = b, !.cell.TSSI = x]
            = Writes(q, [q.cell EXCEPT !.AFEOVER = a, !.AFECTL = b, !.TSSI = x])
      BY Zenon DEF Writes
    <3> QED
      BY <2>1, <3>1
  <2> TAKE c
  <2> DEFINE cs == CASE c = 1 -> {0} [] c = 2 -> {1} [] OTHER -> Cores
             mux == q.rev < 7 /\ type \notin {"IQ", "TBD"} /\ ~q.ipa
             none == [q EXCEPT !.cell.AFEOVER = Unmarked(@, Cores, {"rssi"}),
                               !.cell.AFECTL = Unmarked(@, Cores, {"rssi"}),
                               !.cell.TXF_S0 = Unmarked(@, Cores, {\h20}),
                               !.cell.LUT_TRSW = Unmarked(@, Cores, {"rssi"})]
             narrow == [q EXCEPT !.cell.AFEOVER = Marked(@, cs, {"rssi"}),
                                 !.cell.AFECTL = Unmarked(@, cs, {"rssi"}),
                                 !.cell.LUT_TRSW = Marked(@, cs, {"rssi"}),
                                 !.cell.TXF_S0 = Marked(@, cs, {\h20})]
             wide == [q EXCEPT !.cell.AFEOVER = Marked(@, cs, {"rssi"}),
                               !.cell.AFECTL = Marked(@, cs, {"rssi", "range"}),
                               !.cell.TSSI = IF mux THEN Marked(@, cs, {"mux"}) ELSE @]
  <2>5. RssiSelect(q, c, type) = CASE c = 0 -> none
                                   [] c # 0 /\ type \in Narrow -> narrow
                                   [] c # 0 /\ type \notin Narrow -> wide
    BY Zenon DEF RssiSelect
  <2>6. Within(p, none, Regs)
    BY <2>2, Zenon
  <2>7. Within(p, narrow, Regs)
    <3> HIDE DEF cs
    <3> QED
      BY <2>3, Zenon
  <2>8. Within(p, wide, Regs)
    <3> HIDE DEF cs, mux
    <3> QED
      BY <2>4, Zenon
  <2> HIDE DEF none, narrow, wide
  <2> QED
    BY <2>5, <2>6, <2>7, <2>8
<1>2. Within(p, PollRssi(q, type), Regs)
  <2> DEFINE r == RssiSelect(q, 5, type)
  <2>1. \A x : Within(p, Writes(r, x), Regs)
    BY <1>1, Written
  <2> QED
    BY <2>1, Zenon DEF Writes, PollRssi, PutBack
<1> QED
  BY <1>1, <1>2

(* b43_nphy_rev3_rssi_cal hands the search back as it was.                 *)
LEMMA RssiCalToo ==
  ASSUME NEW p, NEW q, Within(p, q, Regs), NEW ch
  PROVE  Within(p, RssiCal(q, ch), Regs)
<1> SUFFICES ASSUME Good(q)
             PROVE  Within(q, RssiCal(q, ch), Regs)
  BY WithinThen DEF Within
<1> DEFINE deaf == [q EXCEPT !.search.on = TRUE]
           open == RssiCalOpen(q)
           done == RssiMeasured(open, ch)
           intc == [done EXCEPT !.cell.INTC = q.cell.INTC,
                                !.cell.OVER0 = Unmarked(@, Cores, {\h1}),
                                !.cell.CMD = Marked(@, {0}, {"start"})]
           back == PutBack(intc, RssiKinds(q.rev), q.cell)
           cached == [back EXCEPT !.rssical = ch]
<1>1. Good(deaf) /\ deaf.search = [q.search EXCEPT !.on = TRUE]
      /\ \A f \in PhyFields \ {"search"} : deaf[f] = q[f]
  <2>1. /\ DOMAIN deaf = PhyFields /\ deaf.search = [q.search EXCEPT !.on = TRUE]
        /\ \A f \in PhyFields \ {"search"} : deaf[f] = q[f]
    BY Brackets DEF Good
  <2>2. SearchOk([q.search EXCEPT !.on = TRUE])
    BY DEF Good, SearchOk, SearchFields
  <2> QED
    BY <2>1, <2>2 DEF Good
<1>2. Within(deaf, open, Regs)
  <2> DEFINE cut == IntcOverride(IntcOverride(deaf, "OFF", Cores), "TRSW", Cores)
             up == OneToMany(OneToMany(cut, "RXRF_PU", Cores, FALSE), "RX_PU", Cores, FALSE)
  <2>1. open = IF q.rev >= 7 THEN RfCtlOverrideRev7(up, {\h80, \h40, \h20, \h10}, Cores, FALSE, 0)
               ELSE RfCtlOverride(cut, {\h80, \h40, \h20, \h10, \h2, \h1}, Cores, FALSE)
    BY Zenon DEF RssiCalOpen
  <2> HIDE DEF deaf
  <2>2. Within(deaf, cut, Regs)
    BY WithinItself, IntcToo
  <2> HIDE DEF cut
  <2>3. Within(deaf, up, Regs)
    BY <2>2, ManyToo
  <2> HIDE DEF up
  <2>4. /\ Within(deaf, RfCtlOverrideRev7(up, {\h80, \h40, \h20, \h10}, Cores, FALSE, 0), Regs)
        /\ Within(deaf, RfCtlOverride(cut, {\h80, \h40, \h20, \h10, \h2, \h1}, Cores, FALSE), Regs)
    BY <2>2, <2>3, RfCtlToo, ZenonT(60)
  <2> HIDE DEF open
  <2> QED
    BY <2>1, <2>4, Zenon
<1> HIDE DEF deaf, open
<1>3. Within(deaf, done, Regs)
  <2> DEFINE narrow == [PollRssi(open, "NB") EXCEPT !.rssi = ch]
  <2>1. Within(deaf, narrow, Regs)
    BY <1>2, PollToo, Written
  <2>2. done = [PollRssi(narrow, "W1") EXCEPT !.rssi = ch]
    BY Zenon DEF RssiMeasured, ScaleOffsetRssi
  <2> HIDE DEF narrow, done
  <2> QED
    BY <2>1, <2>2, PollToo, Written
<1>4. RssiCal(q, ch) = [cached EXCEPT !.search.on = q.search.on]
  BY Zenon DEF RssiCal, RssiCalClose, open
<1> HIDE DEF done
<1>5. Within(deaf, cached, Regs)
  <2>1. Within(deaf, intc, Regs)
    <3>1. \A x : Within(deaf, Writes(done, x), Regs)
      BY <1>3, Written
    <3> QED
      BY <3>1, Zenon DEF Writes
  <2> HIDE DEF intc
  <2>2. \A x : Within(deaf, Writes(intc, x), Regs)
    BY <2>1, Written
  <2>3. Within(deaf, back, Regs)
    BY <2>2, Zenon DEF Writes, PutBack
  <2> HIDE DEF back
  <2> QED
    BY <2>3, Written
<1> HIDE DEF cached
<1>6. /\ Good(cached) /\ Same([q.search EXCEPT !.on = TRUE], cached.search)
      /\ \A f \in PhyFields \ (Regs \union {"search"}) : cached[f] = q[f]
  BY <1>1, <1>5 DEF Within
<1>7. /\ DOMAIN RssiCal(q, ch) = PhyFields
      /\ RssiCal(q, ch).search = [cached.search EXCEPT !.on = q.search.on]
      /\ \A f \in PhyFields \ {"search"} : RssiCal(q, ch)[f] = cached[f]
  BY <1>4, <1>6, Brackets DEF Good
<1>8. /\ SearchOk([cached.search EXCEPT !.on = q.search.on])
      /\ Same(q.search, [cached.search EXCEPT !.on = q.search.on])
  BY <1>6 DEF Good, SearchOk, SearchFields, Same
<1> QED
  BY <1>6, <1>7, <1>8 DEF Within, Good

LEMMA CachedToo ==
  ASSUME NEW p, NEW q, Within(p, q, Regs)
  PROVE  /\ Within(p, RestoreRssiCal(q), Regs)
         /\ Within(p, IpaInternalTssiSetup(q), Regs)
         /\ Within(p, ClearOverrides(q), Regs)
<1>1. \A x : Within(p, Writes(q, x), Regs) /\ Within(p, [q EXCEPT !.rssi = x], Regs)
  BY Written
<1>2. Within(p, RestoreRssiCal(q), Regs)
  BY <1>1, Zenon DEF RestoreRssiCal
<1>3. Within(p, IpaInternalTssiSetup(q), Regs)
  BY <1>1, Zenon DEF Writes, IpaInternalTssiSetup
<1>4. Within(p, ClearOverrides(q), Regs)
  BY <1>1, Zenon DEF Writes, ClearOverrides, PutBack
<1> QED
  BY <1>2, <1>3, <1>4

(* What the transmitter's calibration takes and hands back.                *)
LEMMA TxCalToo ==
  ASSUME NEW p, NEW q, Within(p, q, Regs)
  PROVE  /\ Within(p, TxCalRadioSetupRev7(q), Regs)
         /\ Within(p, TxCalRadioCleanupRev7(q), Regs)
         /\ Within(p, TxCalPhySetup(q), Regs)
         /\ Within(p, TxCalPhyCleanup(q), Regs)
<1>1. \A x, y : /\ Within(p, Writes(q, x), Regs)
                /\ Within(p, [Writes(q, x) EXCEPT !.rad = y], Regs)
                /\ Within(p, [Writes(q, x) EXCEPT !.saved = y], Regs)
  BY Written
<1>2. Within(p, TxCalRadioSetupRev7(q), Regs)
  BY <1>1, Zenon DEF Writes, TxCalRadioSetupRev7
<1>3. Within(p, TxCalRadioCleanupRev7(q), Regs)
  BY <1>1, Zenon DEF Writes, TxCalRadioCleanupRev7
<1>4. Within(p, TxCalPhySetup(q), Regs)
  <2> DEFINE open == [q.cell EXCEPT !.AFECTL = Marked(@, Cores, {"iqcal"}),
                             !.AFEOVER = Marked(@, Cores, {"iqcal"}),
                             !.BBCFG = Unmarked(@, {0}, {"RSTRX"}),
                             !.DAC = Both({"zero"}),
                             !.PAPD_EN = Unmarked(@, Cores, {"on"})]
             taken == [Writes(q, open) EXCEPT !.saved = Saved(@, q.cell, TxLayout)]
             rf == IntcOverride(IntcOverride(IntcOverride(taken, "PA", Cores), "TRSW", {0}),
                                "TRSW", {1})
             lpf == IF q.rev >= 7 THEN RfCtlOverrideRev7(rf, {\h80}, Cores, FALSE, 1) ELSE rf
  <2> HIDE DEF open
  <2>1. Within(p, taken, Regs)
    BY <1>1
  <2>2. TxCalPhySetup(q) = IF q.rev >= 8 THEN RfCtlOverrideRev7(lpf, {\h8}, Cores, FALSE, 0) ELSE lpf
    BY Zenon DEF Writes, TxCalPhySetup, open
  <2> HIDE DEF taken
  <2>3. Within(p, rf, Regs)
    BY <2>1, IntcToo
  <2> HIDE DEF rf
  <2>4. Within(p, lpf, Regs)
    BY <2>3, RfCtlToo
  <2> HIDE DEF lpf
  <2> QED
    BY <2>2, <2>4, RfCtlToo
<1>5. Within(p, TxCalPhyCleanup(q), Regs)
  <2>1. \A x : Within(p, RfCtlOverrideRev7(Writes(q, x), {\h80}, Cores, TRUE, 1), Regs)
    BY <1>1, RfCtlToo
  <2> QED
    BY <2>1, Zenon DEF Writes, TxCalPhyCleanup
<1> QED
  BY <1>2, <1>3, <1>4, <1>5

(* What the receiver's calibration takes and hands back.                   *)
LEMMA RxCalToo ==
  ASSUME NEW p, NEW q, Within(p, q, Regs), NEW c
  PROVE  /\ Within(p, RxcalPhySetup(q, c), Regs)
         /\ Within(p, RxcalPhyCleanup(q, c), Regs)
         /\ Within(p, RxcalRadioSetup(q, c), Regs)
         /\ Within(p, RxcalRadioCleanup(q, c), Regs)
<1>1. \A x, y : /\ Within(p, Writes(q, x), Regs)
                /\ Within(p, [Writes(q, x) EXCEPT !.rad = y], Regs)
                /\ Within(p, [Writes(q, x) EXCEPT !.saved = y], Regs)
  BY Written
<1>2. Within(p, RxcalPhySetup(q, c), Regs)
  <2> DEFINE open == [q.cell EXCEPT !.PAPD_EN = Unmarked(@, Cores, {"on"}),
                                    !.RFSEQCA[0] = {c},
                                    !.AFECTL = Marked(@, {c}, {"cal"}),
                                    !.AFEOVER = Marked(@, {c}, {"cal"})]
             taken == [q EXCEPT !.cell = open, !.saved = Saved(@, q.cell, RxLayout(c))]
             Over(r, bits, id) == RfCtlOverrideRev7(r, bits, Cores, FALSE, id)
             pa == IntcOverride(taken, "PA", Cores)
             rf == Over(Over(Over(pa, {\h8}, 0), {\h200, \h400, \h1, \h800, \h80, \h20}, 1),
                        {\h2}, 2)
  <2>1. RxcalPhySetup(q, c) = IntcOverride(rf, "TRSW", {c})
    BY Zenon DEF RxcalPhySetup
  <2> HIDE DEF open
  <2>2. Within(p, taken, Regs)
    BY <1>1, Zenon DEF Writes
  <2> HIDE DEF taken
  <2>3. Within(p, pa, Regs)
    BY <2>2, IntcToo
  <2> HIDE DEF pa
  <2>4. \A r, bits, id : Within(p, r, Regs) => Within(p, Over(r, bits, id), Regs)
    BY RfCtlToo
  <2> HIDE DEF Over
  <2>5. Within(p, rf, Regs)
    BY <2>3, <2>4
  <2> HIDE DEF rf
  <2> QED
    BY <2>1, <2>5, IntcToo
<1>3. Within(p, RxcalPhyCleanup(q, c), Regs) /\ Within(p, RxcalRadioCleanup(q, c), Regs)
  BY <1>1, Zenon DEF Writes, RxcalPhyCleanup, RxcalRadioCleanup
<1>4. Within(p, RxcalRadioSetup(q, c), Regs)
  <2> DEFINE x == {"rx"}
             r == Saved(q.rad, q.cell, RxRadioLayout(c))
             on == [q EXCEPT !.cell.PWRUP[c] = x, !.cell.ATTEN[c] = x]
  <2>1. RxcalRadioSetup(q, c) = [q EXCEPT !.cell.PWRUP[c] = x, !.cell.ATTEN[c] = x, !.rad = r]
    BY Zenon DEF RxcalRadioSetup
  <2> HIDE DEF x, r
  <2>2. [q EXCEPT !.cell.PWRUP[c] = x, !.cell.ATTEN[c] = x, !.rad = r] = [on EXCEPT !.rad = r]
    BY Zenon
  <2>3. on = Writes(q, [q.cell EXCEPT !.PWRUP[c] = x, !.ATTEN[c] = x])
    BY Zenon DEF Writes
  <2>4. Within(p, on, Regs)
    BY <1>1, <2>3
  <2> HIDE DEF on
  <2>5. Within(p, [on EXCEPT !.rad = r], Regs)
    BY <2>4, Written
  <2> QED
    BY <2>1, <2>2, <2>5, Zenon
<1> QED
  BY <1>2, <1>3, <1>4

(* What the PAPD engine's calibration takes and hands back.                *)
LEMMA PapdToo ==
  ASSUME NEW p, NEW q, Within(p, q, Regs), NEW c, NEW from
  PROVE  /\ Within(p, PapdCalSetup(q, c), Regs)
         /\ Within(p, PapdEngineOn(q, c), Regs)
         /\ Within(p, PapdCalCleanup(q, from), Regs)
<1>1. \A r, x : Within(p, r, Regs) => Within(p, Writes(r, x), Regs)
  BY Written
<1>2. \A r, bits, cs, off, id :
        Within(p, r, Regs) => Within(p, RfCtlOverrideRev7(r, bits, cs, off, id), Regs)
  BY RfCtlToo
<1>3. Within(p, PapdCalSetup(q, c), Regs)
  <2> DEFINE Over(r, bits, cs, id) == RfCtlOverrideRev7(r, bits, cs, FALSE, id)
             wide == Over(Over(q, {\h80}, Cores, 1), {\h800}, {c}, 0)
             up == OneToMany(OneToMany(wide, "TX_PU", {c}, FALSE), "TX_PU", {1 - c}, FALSE)
             all == Over(Over(Over(up, {\h8}, Cores, 0),
                              {\h1, \h4, \h8, \h10, \h20, \h100, \h200, \h400}, {c}, 1),
                         {\h2}, {c}, 2)
  <2>1. PapdCalSetup(q, c) =
          [all EXCEPT !.cell.AFECTL = Marked(@, Cores, {"cal"}),
                      !.cell.AFEOVER = Marked(@, Cores, {"cal"}),
                      !.cell.PWRUP = Both({"papd"}), !.cell.ATTEN = Both({"papd"})]
    BY Zenon DEF PapdCalSetup
  <2>2. \A r, bits, cs, id : Within(p, r, Regs) => Within(p, Over(r, bits, cs, id), Regs)
    BY <1>2
  <2> HIDE DEF Over
  <2>3. Within(p, wide, Regs)
    BY <2>2
  <2> HIDE DEF wide
  <2>4. Within(p, up, Regs)
    BY <2>3, ManyToo
  <2> HIDE DEF up
  <2>5. Within(p, all, Regs)
    BY <2>2, <2>4
  <2> HIDE DEF all
  <2>6. \A x : Within(p, Writes(all, x), Regs)
    BY <1>1, <2>5
  <2> DEFINE x == Marked(all.cell.AFECTL, Cores, {"cal"})
             y == Marked(all.cell.AFEOVER, Cores, {"cal"})
             z == Both({"papd"})
  <2>7. PapdCalSetup(q, c) = [all EXCEPT !.cell.AFECTL = x, !.cell.AFEOVER = y,
                                         !.cell.PWRUP = z, !.cell.ATTEN = z]
    BY <2>1
  <2> HIDE DEF x, y, z
  <2>8. PapdCalSetup(q, c)
          = Writes(all, [all.cell EXCEPT !.AFECTL = x, !.AFEOVER = y, !.PWRUP = z, !.ATTEN = z])
    BY <2>7, Zenon DEF Writes
  <2> QED
    BY <2>6, <2>8
<1>4. Within(p, PapdEngineOn(q, c), Regs)
  BY <1>1, Zenon DEF Writes, PapdEngineOn
<1>5. Within(p, PapdCalCleanup(q, from), Regs)
  <2> DEFINE Off(r, bits, id) == RfCtlOverrideRev7(r, bits, Cores, TRUE, id)
             radio == [q EXCEPT !.cell.PWRUP = Both({"zero"}), !.cell.ATTEN = from.cell.ATTEN]
             off == Off(Off(Off(radio, {\h4, \h8, \h800, \h1000}, 0),
                            {\h1, \h2, \h4, \h8, \h10, \h20, \h100, \h200, \h400, \h800}, 1),
                        {\h1, \h2, \h4}, 2)
             put == PutBack(off, {"AFECTL", "AFEOVER"}, from.cell)
  <2>1. PapdCalCleanup(q, from) = Off(put, {\h80}, 1)
    BY Zenon DEF PapdCalCleanup
  <2>2. \A r, bits, id : Within(p, r, Regs) => Within(p, Off(r, bits, id), Regs)
    BY <1>2
  <2> HIDE DEF Off
  <2>3. Within(p, radio, Regs)
    BY <1>1, Zenon DEF Writes
  <2> HIDE DEF radio
  <2>4. Within(p, off, Regs)
    BY <2>2, <2>3
  <2> HIDE DEF off
  <2>5. Within(p, put, Regs)
    BY <1>1, <2>4, Zenon DEF Writes, PutBack
  <2> HIDE DEF put
  <2> QED
    BY <2>1, <2>2, <2>5
<1> QED
  BY <1>3, <1>4, <1>5

(***************************************************************************)
(* Transmit power control: what the steps of NphyCal write, and with what. *)
(***************************************************************************)
Power == Regs \union {"power"}
Gains == Regs \union {"gain", "mult"}
Forcing == Regs \union {"power", "gain", "mult", "forced", "savedGain", "savedMult"}
Playing == Regs \union {"mult", "multSave"}

(* A step that only takes and gives back the search, at most.              *)
LEMMA BracketValues ==
  ASSUME NEW p, Good(p)
  PROVE  /\ Good(Hold(p)) /\ \A f \in PhyFields \ {"search"} : Hold(p)[f] = p[f]
         /\ DOMAIN Release(p) = PhyFields
         /\ \A f \in PhyFields \ {"search"} : Release(p)[f] = p[f]
<1>1. \A x : /\ DOMAIN [p EXCEPT !.search = x] = PhyFields
             /\ [p EXCEPT !.search = x].search = x
             /\ \A f \in PhyFields \ {"search"} : [p EXCEPT !.search = x][f] = p[f]
  BY Brackets DEF Good
<1>2. SearchOk(IF p.search.hang THEN Entered(p.search) ELSE p.search)
  BY SearchBracket DEF Good
<1>3. Good(Hold(p)) /\ \A f \in PhyFields \ {"search"} : Hold(p)[f] = p[f]
  BY <1>1, <1>2 DEF Hold, Good
<1> QED
  BY <1>1, <1>3 DEF Release

LEMMA DacToo ==
  ASSUME NEW p, NEW q, Within(p, q, Regs)
  PROVE  /\ Within(p, DacOverridden(q), Regs)
         /\ Within(p, DacFreed(q), Regs)
         /\ Within(p, SavedOverrideBack(q), Regs)
<1>1. \A x : Within(p, Writes(q, x), Regs)
  BY Written
<1> QED
  BY <1>1, Zenon DEF Writes, DacOverridden, DacFreed, SavedOverrideBack

LEMMA TxPowerCtrlSets ==
  ASSUME NEW p, Good(p), NEW enable
  PROVE  /\ Within(p, TxPowerCtrl(p, enable), Power)
         /\ TxPowerCtrl(p, enable).power = Switched(p.power, enable)
<1> DEFINE held == Hold(p)
           switched == [held EXCEPT !.power = Switched(held.power, enable)]
           dac == IF enable THEN DacFreed(switched) ELSE DacOverridden(switched)
<1>1. TxPowerCtrl(p, enable) = Release(dac)
  BY Zenon DEF TxPowerCtrl
<1>2. Good(held) /\ held.power = p.power
  BY BracketValues DEF PhyFields, Levelling
<1>3. Within(held, switched, {"power"}) /\ switched.power = Switched(p.power, enable)
  <2>1. Within(held, switched, {"power"})
    BY OneField DEF PhyFields, Levelling
  <2> QED
    BY <1>2, <2>1 DEF Good, PhyFields, Levelling
<1> HIDE DEF switched
<1>4. Within(switched, dac, Regs)
  BY WithinItself, DacToo
<1> HIDE DEF dac
<1>5. Within(held, dac, Power)
  BY <1>3, <1>4, WithinMore, WithinThen DEF Power
<1>6. Good(switched) /\ Good(dac) /\ dac.power = Switched(p.power, enable)
  BY <1>2, <1>3, <1>4 DEF Within, Regs, PhyFields, Levelling
<1>7. Within(p, Release(dac), Power)
  BY <1>5, HoldRelease
<1>8. Release(dac).power = dac.power
  BY <1>6, BracketValues DEF PhyFields, Levelling
<1> QED
  BY <1>1, <1>6, <1>7, <1>8

(* One entry of a pair replaced.                                           *)
At(pair, c, x) == [pair EXCEPT ![c] = x]

LEMMA OnIndexSets ==
  ASSUME NEW p, Good(p), NEW c, NEW i
  PROVE  /\ Within(p, OnIndex(p, c, i), Gains)
         /\ OnIndex(p, c, i).gain = At(p.gain, c, i)
         /\ OnIndex(p, c, i).mult = At(p.mult, c, i)
<1> DEFINE x == [p.cell EXCEPT !.AFEOVER = Marked(@, {c}, {"dac"}),
                               !.PAPD_EN = IF p.ipa THEN Marked(@, {c}, {"ext"}) ELSE @]
           w == Writes(p, x)
           g == [w EXCEPT !.gain = [w.gain EXCEPT ![c] = i]]
           m == [g EXCEPT !.mult = [g.mult EXCEPT ![c] = i]]
<1>1. OnIndex(p, c, i) = m
  BY Zenon DEF Writes, OnIndex
<1> HIDE DEF x
<1>2. Within(p, w, Regs)
  BY WithinItself, Written
<1> HIDE DEF w
<1>3. Good(w) /\ w.gain = p.gain /\ w.mult = p.mult
  BY <1>2 DEF Within, Regs, PhyFields, Levelling
<1>4. Within(w, g, {"gain"}) /\ g.gain = At(p.gain, c, i)
  BY <1>3, OneField DEF At, Good, PhyFields, Levelling
<1> HIDE DEF g
<1>5. Good(g) /\ g.mult = p.mult
  BY <1>3, <1>4 DEF Within, PhyFields, Levelling
<1>6. Within(g, m, {"mult"}) /\ m.mult = At(p.mult, c, i)
  BY <1>5, OneField DEF At, Good, PhyFields, Levelling
<1> HIDE DEF m
<1>7. m.gain = At(p.gain, c, i)
  BY <1>4, <1>5, <1>6 DEF Within, PhyFields, Levelling
<1>8. Within(p, m, Gains)
  BY <1>2, <1>4, <1>6, WithinMore, WithinThen DEF Gains
<1> QED
  BY <1>1, <1>6, <1>7, <1>8

Fixing == Gains \union {"internal"}

LEMMA TxPowerFixSets ==
  ASSUME NEW p, Good(p)
  PROVE  /\ Within(p, TxPowerFix(p), Fixing)
         /\ TxPowerFix(p).internal = Internal
         /\ TxPowerFix(p).gain = At(At(p.gain, 0, Internal), 1, Internal)
         /\ TxPowerFix(p).mult = At(At(p.mult, 0, Internal), 1, Internal)
<1> DEFINE h == Hold(p)
           n == [h EXCEPT !.internal = Internal]
           a == OnIndex(n, 0, Internal)
           b == OnIndex(a, 1, Internal)
<1>1. TxPowerFix(p) = Release(b)
  BY Zenon DEF TxPowerFix
<1>2. Good(h) /\ h.gain = p.gain /\ h.mult = p.mult
  BY BracketValues DEF PhyFields, Levelling
<1>3. Within(h, n, {"internal"}) /\ n.internal = Internal
  BY <1>2, OneField DEF Good, PhyFields, Levelling
<1> HIDE DEF n
<1>4. Good(n) /\ n.gain = p.gain /\ n.mult = p.mult
  BY <1>2, <1>3 DEF Within, PhyFields, Levelling
<1>5. Within(n, a, Gains) /\ a.gain = At(p.gain, 0, Internal)
      /\ a.mult = At(p.mult, 0, Internal)
  BY <1>4, OnIndexSets
<1> HIDE DEF a
<1>6. Good(a)
  BY <1>4, <1>5 DEF Within
<1>7. Within(a, b, Gains) /\ b.gain = At(a.gain, 1, Internal)
      /\ b.mult = At(a.mult, 1, Internal)
  BY <1>6, OnIndexSets
<1> HIDE DEF b
<1>8. Good(b) /\ b.internal = Internal
  BY <1>3, <1>4, <1>5, <1>6, <1>7 DEF Within, Gains, Regs, PhyFields, Levelling
<1>9. Within(h, b, Fixing)
  BY <1>3, <1>5, <1>7, WithinMore, WithinThen DEF Fixing
<1>10. Within(p, Release(b), Fixing)
  BY <1>9, HoldRelease
<1>11. Release(b).internal = Internal /\ Release(b).gain = b.gain /\ Release(b).mult = b.mult
  BY <1>8, BracketValues DEF PhyFields, Levelling
<1> QED
  BY <1>1, <1>5, <1>7, <1>10, <1>11

LEMMA CtlSetupSets ==
  ASSUME NEW p, Good(p)
  PROVE  /\ Within(p, CtlSetup(p), {"power"})
         /\ CtlSetup(p).power = [p.power EXCEPT !.init = Both(Start)]
<1> DEFINE h == Hold(p)
           n == [h EXCEPT !.power = [h.power EXCEPT !.init = Both(Start)]]
<1>1. CtlSetup(p) = Release(n)
  BY Zenon DEF CtlSetup
<1>2. Good(h) /\ h.power = p.power
  BY BracketValues DEF PhyFields, Levelling
<1>3. Within(h, n, {"power"}) /\ n.power = [p.power EXCEPT !.init = Both(Start)]
  BY <1>2, OneField DEF Good, PhyFields, Levelling
<1> HIDE DEF n
<1>4. Good(n) /\ Within(p, Release(n), {"power"})
  <2>1. Within(p, Release(n), {"power"})
    BY <1>3, HoldRelease
  <2> QED
    BY <1>2, <1>3, <2>1 DEF Within
<1>5. Release(n).power = n.power
  BY <1>4, BracketValues DEF PhyFields, Levelling
<1> QED
  BY <1>1, <1>3, <1>4, <1>5

(* The control off, and back to what it was.                               *)
Toggled(power) == Switched(Switched(power, FALSE), power.ctrl)

Kept(forced, saved, of, c) == IF forced[c] = None THEN At(saved, c, of[c]) ELSE saved

(* The first force of a chain keeps what it replaces.                      *)
LEMMA ForceSets ==
  ASSUME NEW p, Good(p), NEW c, NEW i
  PROVE  /\ Within(p, ForceIndex(p, c, i), Forcing)
         /\ ForceIndex(p, c, i).power = Toggled(p.power)
         /\ ForceIndex(p, c, i).gain = At(p.gain, c, i)
         /\ ForceIndex(p, c, i).mult = At(p.mult, c, i)
         /\ ForceIndex(p, c, i).forced = At(p.forced, c, i)
         /\ ForceIndex(p, c, i).savedGain = Kept(p.forced, p.savedGain, p.gain, c)
         /\ ForceIndex(p, c, i).savedMult = Kept(p.forced, p.savedMult, p.mult, c)
<1> DEFINE back == SavedOverrideBack(p)
           g == [back EXCEPT !.savedGain = [back.savedGain EXCEPT ![c] = p.gain[c]]]
           m == [g EXCEPT !.savedMult = [g.savedMult EXCEPT ![c] = p.mult[c]]]
           kept == IF p.forced[c] = None THEN m ELSE p
           off == TxPowerCtrl(kept, FALSE)
           put == OnIndex(off, c, i)
           on == TxPowerCtrl(put, p.power.ctrl)
           f == [on EXCEPT !.forced = [on.forced EXCEPT ![c] = i]]
<1>1. ForceIndex(p, c, i) = f
  BY Zenon DEF ForceIndex
<1>2. Within(p, back, Regs)
  BY WithinItself, DacToo
<1> HIDE DEF back
<1>3. Good(back) /\ back.savedGain = p.savedGain /\ back.savedMult = p.savedMult
  BY <1>2 DEF Within, Regs, PhyFields, Levelling
<1>4. Within(back, g, {"savedGain"}) /\ g.savedGain = At(p.savedGain, c, p.gain[c])
  BY <1>3, OneField DEF At, Good, PhyFields, Levelling
<1> HIDE DEF g
<1>5. Good(g) /\ g.savedMult = p.savedMult
  BY <1>3, <1>4 DEF Within, PhyFields, Levelling
<1>6. Within(g, m, {"savedMult"}) /\ m.savedMult = At(p.savedMult, c, p.mult[c])
  BY <1>5, OneField DEF At, Good, PhyFields, Levelling
<1> HIDE DEF m
<1>7. Good(m) /\ m.savedGain = g.savedGain
  BY <1>5, <1>6 DEF Within, PhyFields, Levelling
<1> DEFINE Keeping == Regs \union {"savedGain", "savedMult"}
<1>8. Within(p, m, Keeping)
  BY <1>2, <1>4, <1>6, WithinMore, WithinThen
<1>9. /\ Good(kept) /\ Within(p, kept, Keeping)
      /\ kept.savedGain = Kept(p.forced, p.savedGain, p.gain, c)
      /\ kept.savedMult = Kept(p.forced, p.savedMult, p.mult, c)
  BY <1>4, <1>6, <1>7, <1>8, WithinItself DEF Kept
<1> HIDE DEF kept
<1>10. kept.power = p.power /\ kept.gain = p.gain /\ kept.mult = p.mult /\ kept.forced = p.forced
  BY <1>9 DEF Within, Regs, PhyFields, Levelling
<1>11. Within(kept, off, Power) /\ off.power = Switched(p.power, FALSE)
  BY <1>9, <1>10, TxPowerCtrlSets
<1> HIDE DEF off
<1>12. /\ Good(off) /\ off.gain = p.gain /\ off.mult = p.mult /\ off.forced = p.forced
       /\ off.savedGain = kept.savedGain /\ off.savedMult = kept.savedMult
  BY <1>9, <1>10, <1>11 DEF Within, Power, Regs, PhyFields, Levelling
<1>13. /\ Within(off, put, Gains) /\ put.gain = At(p.gain, c, i)
       /\ put.mult = At(p.mult, c, i)
  BY <1>12, OnIndexSets
<1> HIDE DEF put
<1>14. /\ Good(put) /\ put.power = off.power /\ put.forced = p.forced
       /\ put.savedGain = kept.savedGain /\ put.savedMult = kept.savedMult
  BY <1>12, <1>13 DEF Within, Gains, Regs, PhyFields, Levelling
<1>15. /\ Within(put, on, Power)
       /\ on.power = Toggled(p.power)
  <2>1. /\ Within(put, TxPowerCtrl(put, p.power.ctrl), Power)
        /\ TxPowerCtrl(put, p.power.ctrl).power = Switched(put.power, p.power.ctrl)
    BY <1>14, TxPowerCtrlSets
  <2> QED
    BY <1>11, <1>14, <2>1, Zenon DEF Toggled
<1> HIDE DEF on
<1>16. /\ Good(on) /\ on.gain = put.gain /\ on.mult = put.mult /\ on.forced = p.forced
       /\ on.savedGain = kept.savedGain /\ on.savedMult = kept.savedMult
  BY <1>14, <1>15 DEF Within, Power, Regs, PhyFields, Levelling
<1>17. Within(on, f, {"forced"}) /\ f.forced = At(p.forced, c, i)
  BY <1>16, OneField DEF At, Good, PhyFields, Levelling
<1> HIDE DEF f
<1>18. /\ f.power = on.power /\ f.gain = put.gain /\ f.mult = put.mult
       /\ f.savedGain = kept.savedGain /\ f.savedMult = kept.savedMult
  BY <1>16, <1>17 DEF Within, PhyFields, Levelling
<1>19. Within(p, f, Forcing)
  <2>1. Within(p, kept, Forcing) /\ Within(kept, off, Forcing) /\ Within(off, put, Forcing)
        /\ Within(put, on, Forcing) /\ Within(on, f, Forcing)
    BY <1>9, <1>11, <1>13, <1>15, <1>17, WithinMore DEF Forcing, Power, Gains
  <2> QED
    BY <2>1, WithinThen
<1> QED
  BY <1>1, <1>9, <1>13, <1>15, <1>17, <1>18, <1>19

LEMMA HandBackSets ==
  ASSUME NEW p, Good(p), NEW c, p.forced[c] # None
  PROVE  /\ Within(p, HandBack(p, c), Forcing)
         /\ HandBack(p, c).power = Switched(p.power, p.power.ctrl)
         /\ HandBack(p, c).gain = At(p.gain, c, p.savedGain[c])
         /\ HandBack(p, c).mult = At(p.mult, c, p.savedMult[c])
         /\ HandBack(p, c).forced = At(p.forced, c, None)
         /\ HandBack(p, c).savedGain = p.savedGain
         /\ HandBack(p, c).savedMult = p.savedMult
<1> DEFINE back == SavedOverrideBack(p)
           g == [back EXCEPT !.gain = [back.gain EXCEPT ![c] = p.savedGain[c]]]
           m == [g EXCEPT !.mult = [g.mult EXCEPT ![c] = p.savedMult[c]]]
           on == TxPowerCtrl(m, p.power.ctrl)
           f == [on EXCEPT !.forced = [on.forced EXCEPT ![c] = None]]
<1>1. HandBack(p, c) = f
  BY Zenon DEF HandBack
<1>2. Within(p, back, Regs)
  BY WithinItself, DacToo
<1> HIDE DEF back
<1>3. Good(back) /\ back.gain = p.gain /\ back.mult = p.mult
  BY <1>2 DEF Within, Regs, PhyFields, Levelling
<1>4. Within(back, g, {"gain"}) /\ g.gain = At(p.gain, c, p.savedGain[c])
  BY <1>3, OneField DEF At, Good, PhyFields, Levelling
<1> HIDE DEF g
<1>5. Good(g) /\ g.mult = p.mult
  BY <1>3, <1>4 DEF Within, PhyFields, Levelling
<1>6. Within(g, m, {"mult"}) /\ m.mult = At(p.mult, c, p.savedMult[c])
  BY <1>5, OneField DEF At, Good, PhyFields, Levelling
<1> HIDE DEF m
<1>7. Within(p, m, Gains)
  BY <1>2, <1>4, <1>6, WithinMore, WithinThen DEF Gains
<1>8. Good(m) /\ m.gain = g.gain /\ m.power = p.power /\ m.forced = p.forced
      /\ m.savedGain = p.savedGain /\ m.savedMult = p.savedMult
  <2>1. Good(m) /\ m.gain = g.gain
    BY <1>5, <1>6 DEF Within, PhyFields, Levelling
  <2> QED
    BY <1>7, <2>1 DEF Within, Gains, Regs, PhyFields, Levelling
<1>9. Within(m, on, Power) /\ on.power = Switched(p.power, p.power.ctrl)
  BY <1>8, TxPowerCtrlSets
<1> HIDE DEF on
<1>10. /\ Good(on) /\ on.gain = g.gain /\ on.mult = m.mult /\ on.forced = p.forced
       /\ on.savedGain = p.savedGain /\ on.savedMult = p.savedMult
  BY <1>8, <1>9 DEF Within, Power, Regs, PhyFields, Levelling
<1>11. Within(on, f, {"forced"}) /\ f.forced = At(p.forced, c, None)
  BY <1>10, OneField DEF At, Good, PhyFields, Levelling
<1> HIDE DEF f
<1>12. /\ f.power = on.power /\ f.gain = g.gain /\ f.mult = m.mult
       /\ f.savedGain = p.savedGain /\ f.savedMult = p.savedMult
  BY <1>10, <1>11 DEF Within, PhyFields, Levelling
<1>13. Within(p, f, Forcing)
  <2>1. Within(p, m, Forcing) /\ Within(m, on, Forcing) /\ Within(on, f, Forcing)
    BY <1>7, <1>9, <1>11, WithinMore DEF Forcing, Power, Gains
  <2> QED
    BY <2>1, WithinThen
<1> QED
  BY <1>1, <1>4, <1>6, <1>9, <1>11, <1>12, <1>13

LEMMA Widen ==
  ASSUME NEW p, NEW q, NEW r, NEW some, NEW fields,
         Within(p, q, fields), Within(q, r, some), some \subseteq fields
  PROVE  Within(p, r, fields)
<1>1. Within(q, r, fields)
  BY WithinMore
<1> QED
  BY <1>1, WithinThen

(* A step inside the bracket of a PHY that may hang.                       *)
LEMMA Inside ==
  ASSUME NEW p, Good(p), NEW q, NEW fields, Within(Hold(p), q, fields)
  PROVE  /\ Good(q) /\ Within(p, Release(q), fields)
         /\ \A f \in PhyFields \ {"search"} : Release(q)[f] = q[f]
<1>1. Good(Hold(p))
  BY BracketValues
<1>2. Good(q)
  BY <1>1 DEF Within
<1> QED
  BY <1>2, HoldRelease, BracketValues

LEMMA TxpwrIndexSets ==
  ASSUME NEW p, Good(p), NEW c, NEW i
  PROVE  /\ Within(p, TxpwrIndex(p, c, i), Forcing)
         /\ TxpwrIndex(p, c, i).power = Toggled(p.power)
         /\ TxpwrIndex(p, c, i).gain = At(p.gain, c, i)
         /\ TxpwrIndex(p, c, i).mult = At(p.mult, c, i)
         /\ TxpwrIndex(p, c, i).forced = At(p.forced, c, i)
         /\ TxpwrIndex(p, c, i).savedGain = Kept(p.forced, p.savedGain, p.gain, c)
         /\ TxpwrIndex(p, c, i).savedMult = Kept(p.forced, p.savedMult, p.mult, c)
<1> DEFINE h == Hold(p)
           q == ForceIndex(h, c, i)
<1>1. TxpwrIndex(p, c, i) = Release(q)
  BY Zenon DEF TxpwrIndex
<1>2. /\ Good(h) /\ h.power = p.power /\ h.gain = p.gain /\ h.mult = p.mult
      /\ h.forced = p.forced /\ h.savedGain = p.savedGain /\ h.savedMult = p.savedMult
  BY BracketValues DEF PhyFields, Levelling
<1> HIDE DEF h
<1>3. /\ Within(h, q, Forcing)
      /\ q.power = Toggled(h.power)
      /\ q.gain = At(h.gain, c, i) /\ q.mult = At(h.mult, c, i)
      /\ q.forced = At(h.forced, c, i)
      /\ q.savedGain = Kept(h.forced, h.savedGain, h.gain, c)
      /\ q.savedMult = Kept(h.forced, h.savedMult, h.mult, c)
  BY <1>2, ForceSets
<1> HIDE DEF q
<1>4. /\ Within(p, Release(q), Forcing)
      /\ \A f \in PhyFields \ {"search"} : Release(q)[f] = q[f]
  BY <1>3, Inside DEF h
<1>5. /\ Release(q).power = q.power /\ Release(q).gain = q.gain /\ Release(q).mult = q.mult
      /\ Release(q).forced = q.forced /\ Release(q).savedGain = q.savedGain
      /\ Release(q).savedMult = q.savedMult
  BY <1>4 DEF PhyFields, Levelling
<1> QED
  BY <1>1, <1>2, <1>3, <1>4, <1>5, Zenon

LEMMA HandBackChainSets ==
  ASSUME NEW p, Good(p), NEW c, p.forced[c] # None
  PROVE  /\ Within(p, HandBackChain(p, c), Forcing)
         /\ HandBackChain(p, c).power = Switched(p.power, p.power.ctrl)
         /\ HandBackChain(p, c).gain = At(p.gain, c, p.savedGain[c])
         /\ HandBackChain(p, c).mult = At(p.mult, c, p.savedMult[c])
         /\ HandBackChain(p, c).forced = At(p.forced, c, None)
         /\ HandBackChain(p, c).savedGain = p.savedGain
         /\ HandBackChain(p, c).savedMult = p.savedMult
<1> DEFINE h == Hold(p)
           q == HandBack(h, c)
<1>1. HandBackChain(p, c) = Release(q)
  BY Zenon DEF HandBackChain
<1>2. /\ Good(h) /\ h.power = p.power /\ h.gain = p.gain /\ h.mult = p.mult
      /\ h.forced = p.forced /\ h.savedGain = p.savedGain /\ h.savedMult = p.savedMult
  BY BracketValues DEF PhyFields, Levelling
<1> HIDE DEF h
<1>3. /\ Within(h, q, Forcing) /\ q.power = Switched(h.power, h.power.ctrl)
      /\ q.gain = At(h.gain, c, h.savedGain[c]) /\ q.mult = At(h.mult, c, h.savedMult[c])
      /\ q.forced = At(h.forced, c, None)
      /\ q.savedGain = h.savedGain /\ q.savedMult = h.savedMult
  <2>1. h.forced[c] # None
    BY <1>2
  <2> QED
    BY <1>2, <2>1, HandBackSets, ZenonT(60)
<1> HIDE DEF q
<1>4. /\ Within(p, Release(q), Forcing)
      /\ \A f \in PhyFields \ {"search"} : Release(q)[f] = q[f]
  BY <1>3, Inside DEF h
<1>5. /\ Release(q).power = q.power /\ Release(q).gain = q.gain /\ Release(q).mult = q.mult
      /\ Release(q).forced = q.forced /\ Release(q).savedGain = q.savedGain
      /\ Release(q).savedMult = q.savedMult
  BY <1>4 DEF PhyFields, Levelling
<1> QED
  BY <1>1, <1>2, <1>3, <1>4, <1>5, Zenon

(* The gains of the index the loop is on are remembered.                   *)
LEMMA GetTxGainsSets ==
  ASSUME NEW p, Good(p)
  PROVE  /\ Within(p, GetTxGains(p), {"atGain"})
         /\ GetTxGains(p).atGain = IF p.power.ctrl THEN p.power.index ELSE p.atGain
<1>1. CASE p.power.ctrl
  <2> DEFINE q == [p EXCEPT !.atGain = p.power.index]
  <2>1. GetTxGains(p) = q
    BY <1>1, Zenon DEF GetTxGains
  <2>2. Within(p, q, {"atGain"}) /\ q.atGain = p.power.index
    BY OneField DEF Good, PhyFields, Levelling
  <2> HIDE DEF q
  <2> QED
    BY <1>1, <2>1, <2>2
<1>2. CASE ~p.power.ctrl
  <2>1. GetTxGains(p) = Tables(p)
    BY <1>2, Zenon DEF GetTxGains
  <2>2. Within(p, Tables(p), {})
    BY WithinItself, TablesToo
  <2>3. Within(p, Tables(p), {"atGain"}) /\ Tables(p).atGain = p.atGain
    BY <2>2, WithinMore DEF Within, PhyFields, Levelling
  <2> QED
    BY <1>2, <2>1, <2>3
<1> QED
  BY <1>1, <1>2

(***************************************************************************)
(* Playing samples.                                                        *)
(***************************************************************************)
LEMMA FilterToo ==
  ASSUME NEW p, NEW q, Within(p, q, Regs)
  PROVE  Within(p, FilterForPlay(q), Regs)
<1>1. \A bits, cs, off, id : Within(p, RfCtlOverrideRev7(q, bits, cs, off, id), Regs)
  BY RfCtlToo
<1>2. \A bits, cs, off, id, x :
        Within(p, [RfCtlOverrideRev7(q, bits, cs, off, id) EXCEPT !.lpf = x], Regs)
  BY <1>1, Written
<1> QED
  BY <1>2, Zenon DEF FilterForPlay

Saving == Regs \union {"multSave"}

LEMMA RunSamplesSets ==
  ASSUME NEW p, Good(p)
  PROVE  /\ Within(p, RunSamples(p), Saving)
         /\ RunSamples(p).multSave = IF p.multSave = <<>> THEN <<p.mult>> ELSE p.multSave
<1> DEFINE in == EnterSearch(p)
           q == FilterForPlay(in)
           s == [q EXCEPT !.multSave = IF q.multSave = <<>> THEN <<q.mult>> ELSE q.multSave]
<1>1. RunSamples(p) = LeaveSearch(s)
  BY Zenon DEF RunSamples
<1>2. /\ DOMAIN in = PhyFields /\ in.search = Entered(p.search)
      /\ in.mult = p.mult /\ in.multSave = p.multSave
  BY Brackets DEF EnterSearch, Good, PhyFields, Levelling
<1>3. Good(in)
  BY <1>2, SearchBracket DEF Good
<1> HIDE DEF in
<1>4. Within(in, q, Regs)
  BY WithinItself, FilterToo
<1> HIDE DEF q
<1>5. Good(q) /\ q.mult = p.mult /\ q.multSave = p.multSave
  BY <1>2, <1>3, <1>4 DEF Within, Regs, PhyFields, Levelling
<1>6. /\ Within(q, s, {"multSave"})
      /\ s.multSave = IF p.multSave = <<>> THEN <<p.mult>> ELSE p.multSave
  BY <1>5, OneField DEF Good, PhyFields, Levelling
<1> HIDE DEF s
<1>7. Within(in, s, Saving)
  BY <1>4, <1>6, WithinMore, WithinThen DEF Saving
<1>8. Within(p, LeaveSearch(s), Saving)
  BY <1>7, EnterLeave DEF in
<1>9. LeaveSearch(s).multSave = s.multSave
  <2>1. Good(s)
    BY <1>5, <1>6 DEF Within
  <2> QED
    BY <2>1, Brackets DEF LeaveSearch, Good, PhyFields, Levelling
<1> QED
  BY <1>1, <1>6, <1>8, <1>9

(* A tone that was saved for is one that plays the multiplier it saved.    *)
LEMMA ToneSets ==
  ASSUME NEW p, Good(p), p.multSave = <<>>, NEW memory
  PROVE  /\ Within(p, Tone(p, memory), Saving)
         /\ Tone(p, memory).multSave \in {<<>>, <<p.mult>>}
<1>1. CASE memory
  <2> DEFINE q == LoadSamples(p)
  <2>1. Within(p, q, {})
    BY WithinItself, TablesToo DEF LoadSamples
  <2>2. Tone(p, memory) = RunSamples(q)
    BY <1>1, Zenon DEF Tone
  <2> HIDE DEF q
  <2>3. Good(q) /\ q.mult = p.mult /\ q.multSave = <<>>
    BY <2>1 DEF Within, PhyFields, Levelling
  <2>4. Within(q, RunSamples(q), Saving) /\ RunSamples(q).multSave = <<p.mult>>
    BY <2>3, RunSamplesSets
  <2>5. Within(p, RunSamples(q), Saving)
    BY <2>1, <2>4, WithinMore, WithinThen
  <2> QED
    BY <2>2, <2>4, <2>5
<1>2. CASE ~memory
  BY <1>2, WithinItself DEF Tone
<1> QED
  BY <1>1, <1>2

LEMMA StopPlaybackSets ==
  ASSUME NEW p, Good(p)
  PROVE  /\ Within(p, StopPlayback(p), Playing) /\ StopPlayback(p).multSave = <<>>
         /\ StopPlayback(p).mult = IF p.multSave = <<>> THEN p.mult ELSE p.multSave[1]
<1> DEFINE h == Hold(p)
           m == [h EXCEPT !.mult = IF p.multSave = <<>> THEN h.mult ELSE p.multSave[1]]
           s == [m EXCEPT !.multSave = <<>>]
           r == IF p.rev >= 7 /\ p.lpf
                THEN [RfCtlOverrideRev7(s, {\h80}, Cores, TRUE, 1) EXCEPT !.lpf = FALSE]
                ELSE s
<1>1. StopPlayback(p) = Release(r)
  BY Zenon DEF StopPlayback
<1>2. Good(h) /\ h.mult = p.mult
  BY BracketValues DEF PhyFields, Levelling
<1>3. /\ Within(h, m, {"mult"})
      /\ m.mult = IF p.multSave = <<>> THEN p.mult ELSE p.multSave[1]
  BY <1>2, OneField DEF Good, PhyFields, Levelling
<1> HIDE DEF m
<1>4. Good(m)
  BY <1>2, <1>3 DEF Within
<1>5. Within(m, s, {"multSave"}) /\ s.multSave = <<>>
  BY <1>4, OneField DEF Good, PhyFields, Levelling
<1> HIDE DEF s
<1>6. Good(s) /\ s.mult = m.mult
  BY <1>4, <1>5 DEF Within, PhyFields, Levelling
<1>7. Within(s, r, Regs)
  <2>1. Within(s, [RfCtlOverrideRev7(s, {\h80}, Cores, TRUE, 1) EXCEPT !.lpf = FALSE], Regs)
    BY WithinItself, RfCtlToo, Written, ZenonT(60)
  <2> QED
    BY <2>1, WithinItself
<1> HIDE DEF r
<1>8. Good(r) /\ r.mult = m.mult /\ r.multSave = <<>>
  BY <1>5, <1>6, <1>7 DEF Within, Regs, PhyFields, Levelling
<1>9. Within(h, r, Playing)
  <2>1. Within(h, m, Playing) /\ Within(m, s, Playing) /\ Within(s, r, Playing)
    BY <1>3, <1>5, <1>7, WithinMore DEF Playing
  <2> QED
    BY <2>1, WithinThen
<1>10. Within(p, Release(r), Playing)
  BY <1>9, HoldRelease
<1>11. Release(r).mult = r.mult /\ Release(r).multSave = r.multSave
  BY <1>8, BracketValues DEF PhyFields, Levelling
<1> QED
  BY <1>1, <1>3, <1>8, <1>10, <1>11

(* Once stopped, a tone has left the multiplier as it was.                 *)
LEMMA PlayedAndStopped ==
  ASSUME NEW p, Good(p), p.multSave = <<>>, NEW memory,
         NEW q, Within(Tone(p, memory), q, Regs)
  PROVE  Within(p, StopPlayback(q), Regs)
<1> DEFINE t == Tone(p, memory)
<1>1. Within(p, t, Saving) /\ t.multSave \in {<<>>, <<p.mult>>}
  BY ToneSets
<1> HIDE DEF t
<1>2. /\ Good(t) /\ Good(q) /\ q.multSave = t.multSave /\ q.mult = p.mult
      /\ Within(p, q, Saving)
  <2>1. Good(t) /\ t.mult = p.mult
    BY <1>1 DEF Within, Saving, Regs, PhyFields, Levelling
  <2>2. Within(t, q, Regs)
    BY DEF t
  <2>3. Good(q) /\ q.multSave = t.multSave /\ q.mult = t.mult
    BY <2>1, <2>2 DEF Within, Regs, PhyFields, Levelling
  <2>4. Within(p, q, Saving)
    BY <1>1, <2>2, Widen DEF Saving
  <2> QED
    BY <2>1, <2>3, <2>4
<1> DEFINE s == StopPlayback(q)
<1>3. /\ Within(q, s, Playing) /\ s.multSave = <<>>
      /\ s.mult = IF q.multSave = <<>> THEN q.mult ELSE q.multSave[1]
  BY <1>2, StopPlaybackSets
<1> HIDE DEF s
<1>4. s.mult = p.mult
  BY <1>1, <1>2, <1>3
<1>5. Within(p, s, Playing)
  <2>1. Within(p, q, Playing)
    BY <1>2, WithinMore DEF Playing, Saving
  <2> QED
    BY <1>3, <2>1, WithinThen
<1> QED
  BY <1>3, <1>4, <1>5 DEF Within, Playing, s

(* With none playing there is nothing to stop.                             *)
LEMMA NothingToStop ==
  ASSUME NEW p, Good(p), p.multSave = <<>>
  PROVE  Within(p, StopPlayback(p), Regs)
<1>1. /\ Within(p, StopPlayback(p), Playing) /\ StopPlayback(p).multSave = <<>>
      /\ StopPlayback(p).mult = p.mult
  BY StopPlaybackSets
<1> QED
  BY <1>1 DEF Within, Playing

LEMMA IdleGainToo ==
  ASSUME NEW p, NEW q, Within(p, q, Regs), NEW off
  PROVE  Within(p, IdleGain(q, off), Regs)
<1>1. \A bits, cs, id : /\ Within(p, RfCtlOverrideRev7(q, bits, cs, off, id), Regs)
                        /\ Within(p, RfCtlOverride(q, bits, cs, off), Regs)
  BY RfCtlToo
<1> QED
  BY <1>1 DEF IdleGain

LEMMA IdleTssiToo ==
  ASSUME NEW p, Good(p), p.multSave = <<>>, NEW memory, NEW ch
  PROVE  Within(p, IdleTssi(p, memory, ch), Regs)
<1> DEFINE set == IF p.ipa THEN IpaInternalTssiSetup(p) ELSE p
           gain == IdleGain(set, FALSE)
           stop == StopPlayback(gain)
           tone == Tone(stop, memory)
           read == StopPlayback(PollRssi(tone, "TSSI_2G"))
           out == IdleGain(RssiSelect(read, 0, "W1"), TRUE)
<1>1. IdleTssi(p, memory, ch) = IF ch \in NoIr THEN p ELSE out
  BY Zenon DEF IdleTssi
<1>2. Within(p, set, Regs)
  BY WithinItself, CachedToo
<1> HIDE DEF set
<1>3. Within(p, gain, Regs)
  BY <1>2, IdleGainToo
<1> HIDE DEF gain
<1>4. Good(gain) /\ gain.multSave = <<>>
  BY <1>3 DEF Within, Regs, PhyFields, Levelling
<1>5. Within(gain, stop, Regs)
  BY <1>4, NothingToStop
<1> HIDE DEF stop
<1>6. Good(stop) /\ stop.multSave = <<>>
  BY <1>4, <1>5 DEF Within, Regs, PhyFields, Levelling
<1>7. Within(tone, PollRssi(tone, "TSSI_2G"), Regs)
  BY WithinItself, PollToo
<1>8. Within(stop, read, Regs)
  BY <1>6, <1>7, PlayedAndStopped
<1> HIDE DEF read, tone
<1>9. Within(p, read, Regs)
  BY <1>3, <1>5, <1>8, WithinThen
<1>10. Within(p, out, Regs)
  BY <1>9, PollToo, IdleGainToo
<1> HIDE DEF out
<1> QED
  BY <1>1, <1>10, WithinItself

(***************************************************************************)
(* The inductive invariant.                                                *)
(***************************************************************************)
Sequence == InSequence \ {"begin"}

PowerFields == {"ctrl", "on", "idx", "init", "index"}

PowerOk(power) ==
  /\ DOMAIN power = PowerFields
  /\ power.idx \in [Cores -> Indices \union {None}]
  /\ power.init \in [Cores -> Indices]
  /\ power.index \in [Cores -> Indices]

Off(power) == PowerOk(power) /\ power.ctrl = FALSE /\ power.on = FALSE

Typed(p) ==
  /\ p.forced \in [Cores -> Indices \union {None}]
  /\ p.gain \in [Cores -> Levels] /\ p.mult \in [Cores -> Levels]
  /\ p.savedGain \in [Cores -> Levels] /\ p.savedMult \in [Cores -> Levels]

Shape ==
  /\ board \in [rev : Revs, ipa : BOOLEAN]
  /\ conf \in [channel : Channels, desired : Powers \union {0}]
  /\ pc \in InSequence \union {"down", "idle", "recalc", "return"}
  /\ DOMAIN phy = PhyFields /\ phy.rev = board.rev

Free(s) == DOMAIN s = SearchFields /\ s.deaf = 0 /\ s.on = FALSE
Held(s) == DOMAIN s = SearchFields /\ s.deaf = 1 /\ s.on = TRUE /\ s.class = FALSE

SearchHeld ==
  /\ pc \in Holding => Held(phy.search)
  /\ pc \notin Holding => Free(phy.search)
  /\ phy.search.hang = IF board.rev = 4 THEN TRUE ELSE FALSE
  /\ phy.multSave = <<>>

(* What the MAC is suspended on behalf of the caller.                      *)
Base == IF caller = "config" THEN 1 ELSE 0

MacCounted ==
  mac = CASE pc = "down" -> 1
          [] pc = "idle" -> 0
          [] pc \in {"papd", "rx"} -> Base - 1
          [] OTHER -> Base

LocalOk(l) ==
  /\ DOMAIN l = {"entry", "ctrl", "bbcfg", "mult", "gain"}
  /\ l.mult \in [Cores -> Levels] /\ l.gain \in [Cores -> Levels]

Leveled ==
  /\ PowerOk(phy.power)
  /\ Typed(phy)
  /\ pc # "down" => phy.internal = Internal
  /\ LocalOk(local)

(* What the end of the sequence puts back is kept throughout it.           *)
Remembered ==
  /\ pc \in Sequence =>
       /\ phy.power.ctrl = FALSE /\ phy.power.on = FALSE
       /\ found # <<>> /\ found.index \in [Cores -> Indices]
       /\ phy.power.idx = found.index /\ phy.atGain = found.index
       /\ local.entry = TRUE /\ local.ctrl = FALSE
  /\ pc \notin Sequence =>
       phy.power.ctrl = TRUE /\ (pc # "down" => phy.power.on = TRUE)
  /\ pc \notin Sequence \union {"return"} => found = <<>>
  /\ phy.pending = TRUE => phy.forced = Both(None)
  /\ ForcedIndexGone
  /\ IndexRestored

Measured == {"papd_medium", "papd", "papd_0", "papd_1", "papd_out", "rx_medium", "rx",
             "rx_0", "rx_1", "rx_out"}

(* The receiver's result is saved at the end, and only over none.          *)
Together ==
  /\ phy.pending \in BOOLEAN
  /\ phy.pending = TRUE => phy.iqcal = None
  /\ pc = "begin" => phy.pending = TRUE
  /\ pc \in Sequence => phy.pending = FALSE
  /\ pc \in Measured \union {"tx_iq_lo"} => phy.iqcal = None
  /\ pc \in Measured => phy.coeffs = conf.channel
  /\ SavedTogether

CalInv == Shape /\ SearchHeld /\ MacCounted /\ Leveled /\ Remembered /\ Together

(***************************************************************************)
(* Power records, and what switching makes of them.                        *)
(***************************************************************************)
LEMMA IndexTypes ==
  /\ None \notin Indices
  /\ Cal \in Indices /\ Internal \in Indices /\ Ladder \in Indices /\ Start \in Indices
  /\ Loop \subseteq Indices /\ Indices \subseteq Levels
  /\ Silent \in Levels /\ ToneLevel \in Levels
BY LoopAssumption DEF Indices, Levels, None, Cal, Internal, Ladder, Start, Silent, ToneLevel

LEMMA SwitchedOff ==
  ASSUME NEW power, PowerOk(power)
  PROVE  /\ PowerOk(Switched(power, FALSE))
         /\ Switched(power, FALSE).ctrl = FALSE /\ Switched(power, FALSE).on = FALSE
         /\ power.on = TRUE => Switched(power, FALSE).idx = power.index
         /\ power.on = FALSE => Switched(power, FALSE).idx = power.idx
         /\ Switched(power, FALSE).init = power.init
         /\ Switched(power, FALSE).index = power.index
<1> DEFINE saved == IndexSaved(power)
           ctrl == [saved EXCEPT !.ctrl = FALSE]
           on == [ctrl EXCEPT !.on = FALSE]
<1>1. Switched(power, FALSE) = on
  BY DEF Switched
<1>2. /\ DOMAIN saved = PowerFields /\ saved.init = power.init /\ saved.index = power.index
      /\ saved.idx = IF power.on THEN power.index ELSE power.idx
  BY DEF IndexSaved, PowerOk, PowerFields
<1> HIDE DEF saved
<1>3. /\ DOMAIN on = PowerFields /\ on.ctrl = FALSE /\ on.on = FALSE
      /\ on.idx = saved.idx /\ on.init = saved.init /\ on.index = saved.index
  BY <1>2 DEF PowerFields
<1> HIDE DEF on
<1>4. saved.idx \in [Cores -> Indices \union {None}]
  <2>1. power.index \in [Cores -> Indices \union {None}]
    BY DEF PowerOk
  <2> QED
    BY <1>2, <2>1 DEF PowerOk
<1>5. PowerOk(on)
  BY <1>2, <1>3, <1>4 DEF PowerOk
<1> QED
  BY <1>1, <1>2, <1>3, <1>5

LEMMA SwitchedOn ==
  ASSUME NEW power, PowerOk(power)
  PROVE  /\ PowerOk(Switched(power, TRUE))
         /\ Switched(power, TRUE).ctrl = TRUE /\ Switched(power, TRUE).on = TRUE
         /\ Switched(power, TRUE).idx = power.idx
         /\ power.idx \in [Cores -> Indices] => Switched(power, TRUE).index = power.idx
<1> DEFINE init == IF None \in {power.idx[c] : c \in Cores} THEN power.init ELSE power.idx
           a == [power EXCEPT !.init = init]
           b == [a EXCEPT !.index = init]
           ctrl == [b EXCEPT !.ctrl = TRUE]
           on == [ctrl EXCEPT !.on = TRUE]
<1>1. Switched(power, TRUE) = on
  BY DEF Switched, IndexBack
<1>2. init \in [Cores -> Indices]
  <2>1. CASE None \in {power.idx[c] : c \in Cores}
    BY <2>1 DEF PowerOk
  <2>2. CASE None \notin {power.idx[c] : c \in Cores}
    BY <2>2 DEF PowerOk
  <2> QED
    BY <2>1, <2>2
<1>3. power.idx \in [Cores -> Indices] => init = power.idx
  BY IndexTypes
<1> HIDE DEF init
<1>4. /\ DOMAIN on = PowerFields /\ on.ctrl = TRUE /\ on.on = TRUE
      /\ on.idx = power.idx /\ on.init = init /\ on.index = init
  BY DEF PowerOk, PowerFields
<1> HIDE DEF on
<1>5. PowerOk(on)
  BY <1>2, <1>4 DEF PowerOk
<1> QED
  BY <1>1, <1>3, <1>4, <1>5

(* A control that is off is not disturbed by being turned off.             *)
LEMMA StaysOff ==
  ASSUME NEW power, PowerOk(power), power.ctrl = FALSE, power.on = FALSE
  PROVE  /\ PowerOk(Toggled(power)) /\ Toggled(power).idx = power.idx
         /\ Toggled(power).ctrl = FALSE /\ Toggled(power).on = FALSE
<1> DEFINE off == Switched(power, FALSE)
           again == Switched(off, FALSE)
<1>1. PowerOk(off) /\ off.idx = power.idx /\ off.on = FALSE
  BY SwitchedOff
<1> HIDE DEF off
<1>2. PowerOk(again) /\ again.idx = off.idx /\ again.ctrl = FALSE /\ again.on = FALSE
  BY <1>1, SwitchedOff
<1>3. Toggled(power) = again
  BY DEF Toggled, off
<1> HIDE DEF again
<1> QED
  BY <1>1, <1>2, <1>3

LEMMA AtTypes ==
  ASSUME NEW S, NEW pair \in [Cores -> S], NEW c \in Cores, NEW x \in S
  PROVE  At(pair, c, x) \in [Cores -> S]
BY DEF At

LEMMA AtBoth ==
  ASSUME NEW S, NEW pair \in [Cores -> S], NEW T, NEW x \in [Cores -> T]
  PROVE  At(At(pair, 0, x[0]), 1, x[1]) = x
<1>1. At(At(pair, 0, x[0]), 1, x[1]) = [c \in Cores |-> IF c = 1 THEN x[1] ELSE x[0]]
  BY DEF At, Cores
<1>2. x = [c \in Cores |-> x[c]]
  OBVIOUS
<1>3. \A c \in Cores : x[c] = IF c = 1 THEN x[1] ELSE x[0]
  BY DEF Cores
<1> QED
  BY <1>1, <1>2, <1>3

(***************************************************************************)
(* The init of the PHY and the switch of the channel.                      *)
(***************************************************************************)
LEMMA InitOpenToo ==
  ASSUME NEW p, Good(p)
  PROVE  Within(p, InitOpen(p), Regs)
<1> DEFINE cleared == ClearOverrides(p)
           engine == IF p.ipa
                     THEN Writes(cleared, [cleared.cell EXCEPT !.PAPD_EN = Marked(@, Cores, {"on"})])
                     ELSE cleared
           worked == Workarounds(engine)
<1>1. InitOpen(p) = IF p.rev < 7 THEN PaOverride(PaOverride(worked, FALSE), TRUE) ELSE worked
  BY Zenon DEF Writes, InitOpen
<1>2. Within(p, cleared, Regs)
  BY WithinItself, CachedToo
<1> HIDE DEF cleared
<1>3. Within(p, engine, Regs)
  <2>1. \A x : Within(p, Writes(cleared, x), Regs)
    BY <1>2, Written
  <2> QED
    BY <1>2, <2>1, Zenon
<1> HIDE DEF engine
<1>4. Within(engine, worked, Regs)
  <2>1. Within(Hold(engine), Tables(Hold(engine)), Regs)
    BY WithinItself, TablesToo
  <2> QED
    BY <2>1, HoldRelease DEF Workarounds
<1>5. Within(p, worked, Regs)
  BY <1>3, <1>4, WithinThen
<1> HIDE DEF worked
<1>6. Within(p, PaOverride(PaOverride(worked, FALSE), TRUE), Regs)
  BY <1>5, PaToo
<1> QED
  BY <1>1, <1>5, <1>6

LEMMA ChannelSetupToo ==
  ASSUME NEW p, Good(p), p.power.ctrl = TRUE, NEW ch
  PROVE  Within(p, ChannelSetup(p, ch), Regs)
<1> DEFINE Reset(pair) == IF ch \in Spur THEN Marked(pair, {0}, {"RSTRX"})
                          ELSE Unmarked(pair, {0}, {"RSTRX"})
           fixed == IF p.power.ctrl THEN p ELSE TxPowerFix(p)
           w == Writes(fixed, [fixed.cell EXCEPT !.BBCFG = Reset(@)])
<1>1. ChannelSetup(p, ch) = Tables(w)
  BY Zenon DEF Writes, ChannelSetup
<1>2. Within(p, fixed, Regs)
  BY WithinItself
<1> HIDE DEF fixed
<1>3. \A x : Within(p, Writes(fixed, x), Regs)
  BY <1>2, Written
<1>4. Within(p, w, Regs)
  BY <1>3, Zenon
<1> QED
  BY <1>1, <1>4, TablesToo

LEMMA RestoreCalNothing ==
  ASSUME NEW p, p.iqcal = None
  PROVE  RestoreCal(p) = p
BY DEF RestoreCal

Bringing == Fixing \union {"power", "pending"}

(* With the structures prepared and nothing calibrated.                    *)
Fresh(p) ==
  PowerOk(p.power) /\ p.power.ctrl = TRUE /\ p.multSave = <<>> /\ p.iqcal = None

Brought(p, q) ==
  /\ Within(p, q, Bringing)
  /\ PowerOk(q.power) /\ q.power.ctrl = TRUE /\ q.power.on = TRUE
  /\ q.internal = Internal
  /\ q.gain = At(At(p.gain, 0, Internal), 1, Internal)
  /\ q.mult = At(At(p.mult, 0, Internal), 1, Internal)
  /\ q.pending = Schedules(p)

LEMMA InitNSets ==
  ASSUME NEW p, Good(p), Fresh(p), NEW memory, NEW ch
  PROVE  Brought(p, InitN(p, memory, ch))
<1> DEFINE open == InitOpen(p)
           low == TxPowerCtrl(open, FALSE)
           off == TxPowerFix(low)
           tssi == IdleTssi(off, memory, ch)
           ctl == CtlSetup(tssi)
           set == Tables(ctl)
           rssi == IF p.rssical = None THEN RssiCal(set, ch) ELSE RestoreRssiCal(set)
           tab == Tables(rssi)
           cal == GetTxGains(tab)
           on == TxPowerCtrl(cal, p.power.ctrl)
           end == [on EXCEPT !.pending = Schedules(p)]
<1> USE DEF Fresh
<1>1. InitN(p, memory, ch) = end
  BY Zenon DEF InitN
<1>2. Within(p, open, Regs)
  BY InitOpenToo
<1> HIDE DEF open
<1>3. Good(open) /\ open.power = p.power /\ open.gain = p.gain /\ open.mult = p.mult
      /\ open.multSave = <<>>
  BY <1>2 DEF Within, Regs, PhyFields, Levelling
<1>4. Within(open, low, Power) /\ low.power = Switched(open.power, FALSE)
  BY <1>3, TxPowerCtrlSets
<1> HIDE DEF low
<1>5. Good(low) /\ low.gain = p.gain /\ low.mult = p.mult /\ low.multSave = <<>>
  BY <1>3, <1>4 DEF Within, Power, Regs, PhyFields, Levelling
<1>6. PowerOk(low.power) /\ low.power.ctrl = FALSE
  <2> DEFINE switched == Switched(p.power, FALSE)
  <2>1. PowerOk(switched) /\ switched.ctrl = FALSE
    BY SwitchedOff
  <2>2. low.power = switched
    BY <1>3, <1>4
  <2> HIDE DEF switched
  <2> QED
    BY <2>1, <2>2
<1>7. /\ Within(low, off, Fixing) /\ off.internal = Internal
      /\ off.gain = At(At(low.gain, 0, Internal), 1, Internal)
      /\ off.mult = At(At(low.mult, 0, Internal), 1, Internal)
  BY <1>5, TxPowerFixSets
<1> HIDE DEF off
<1>8. Good(off) /\ off.power = low.power /\ off.multSave = <<>>
  BY <1>5, <1>7 DEF Within, Fixing, Gains, Regs, PhyFields, Levelling
<1>9. Within(off, tssi, Regs)
  BY <1>8, IdleTssiToo
<1> HIDE DEF tssi
<1>10. Good(tssi) /\ tssi.power = low.power
  BY <1>8, <1>9 DEF Within, Regs, PhyFields, Levelling
<1>11. Within(tssi, ctl, {"power"}) /\ ctl.power = [tssi.power EXCEPT !.init = Both(Start)]
  BY <1>10, CtlSetupSets
<1> HIDE DEF ctl
<1>12. PowerOk(ctl.power) /\ ctl.power.ctrl = FALSE
  <2>1. Both(Start) \in [Cores -> Indices]
    BY IndexTypes DEF Both
  <2> QED
    BY <1>6, <1>10, <1>11, <2>1 DEF PowerOk, PowerFields
<1>13. Within(ctl, set, Regs)
  BY WithinItself, TablesToo
<1> HIDE DEF set
<1>14. Within(set, rssi, Regs)
  <2>1. Within(set, RssiCal(set, ch), Regs) /\ Within(set, RestoreRssiCal(set), Regs)
    BY WithinItself, RssiCalToo, CachedToo
  <2> QED
    BY <2>1
<1> HIDE DEF rssi
<1>15. Within(rssi, tab, Regs)
  BY WithinItself, TablesToo
<1> HIDE DEF tab
<1>16. Within(ctl, tab, Regs) /\ Good(ctl)
  BY <1>10, <1>11, <1>13, <1>14, <1>15, WithinThen DEF Within
<1>17. Good(tab) /\ tab.power = ctl.power
  BY <1>16 DEF Within, Regs, PhyFields, Levelling
<1>18. Within(tab, cal, {}) /\ cal.power = ctl.power
  <2>1. cal = Tables(tab)
    BY <1>12, <1>17, Zenon DEF GetTxGains
  <2>2. Within(tab, cal, {})
    BY <2>1, WithinItself, TablesToo
  <2> QED
    BY <1>17, <2>2 DEF Within, PhyFields, Levelling
<1> HIDE DEF cal
<1>19. Good(cal)
  BY <1>17, <1>18 DEF Within
<1>20. Within(cal, on, Power) /\ on.power = Switched(ctl.power, TRUE)
  BY <1>18, <1>19, TxPowerCtrlSets
<1> HIDE DEF on
<1>21. Good(on)
  BY <1>19, <1>20 DEF Within
<1>22. Within(on, end, {"pending"}) /\ end.pending = Schedules(p)
  BY <1>21, OneField DEF Good, PhyFields, Results
<1> HIDE DEF end
<1>23. end.power = on.power
  BY <1>21, <1>22 DEF Within, PhyFields, Levelling
<1>24. /\ PowerOk(end.power) /\ end.power.ctrl = TRUE /\ end.power.on = TRUE
  BY <1>12, <1>20, <1>23, SwitchedOn
<1> DEFINE late == Regs \union {"power", "pending"}
<1>25. Within(off, end, late)
  <2>1. /\ Within(off, tssi, late) /\ Within(tssi, ctl, late) /\ Within(ctl, tab, late)
        /\ Within(tab, cal, late) /\ Within(cal, on, late) /\ Within(on, end, late)
    BY <1>9, <1>11, <1>16, <1>18, <1>20, <1>22, WithinMore DEF Power
  <2> HIDE DEF late
  <2> QED
    BY <2>1, WithinThen
<1>26. end.internal = Internal /\ end.gain = off.gain /\ end.mult = off.mult
  BY <1>7, <1>8, <1>25 DEF Within, Regs, PhyFields, Levelling
<1>27. Within(p, end, Bringing)
  <2>1. Within(p, open, Bringing) /\ Within(open, low, Bringing) /\ Within(low, off, Bringing)
        /\ Within(off, end, Bringing)
    BY <1>2, <1>4, <1>7, <1>25, WithinMore DEF Bringing, Fixing, Gains, Power
  <2> QED
    BY <2>1, WithinThen
<1> QED
  BY <1>1, <1>5, <1>7, <1>22, <1>24, <1>26, <1>27 DEF Brought

(***************************************************************************)
(* The steps of the sequence.                                              *)
(***************************************************************************)
LEMMA KeptTypes ==
  ASSUME NEW S, NEW saved \in [Cores -> S], NEW of \in [Cores -> S], NEW forced, NEW c \in Cores
  PROVE  Kept(forced, saved, of, c) \in [Cores -> S]
<1>1. At(saved, c, of[c]) \in [Cores -> S]
  BY AtTypes
<1> QED
  BY <1>1 DEF Kept

(* An index forced with the control off leaves it off.                     *)
LEMMA OneIndex ==
  ASSUME NEW p, Good(p), Typed(p), Off(p.power), NEW c \in Cores, NEW i \in Indices
  PROVE  /\ Within(p, TxpwrIndex(p, c, i), Forcing) /\ Good(TxpwrIndex(p, c, i))
         /\ Typed(TxpwrIndex(p, c, i))
         /\ Off(TxpwrIndex(p, c, i).power)
         /\ TxpwrIndex(p, c, i).power.idx = p.power.idx
         /\ TxpwrIndex(p, c, i).gain = At(p.gain, c, i)
         /\ TxpwrIndex(p, c, i).mult = At(p.mult, c, i)
         /\ TxpwrIndex(p, c, i).forced = At(p.forced, c, i)
         /\ TxpwrIndex(p, c, i).savedGain = Kept(p.forced, p.savedGain, p.gain, c)
         /\ TxpwrIndex(p, c, i).savedMult = Kept(p.forced, p.savedMult, p.mult, c)
<1> DEFINE q == TxpwrIndex(p, c, i)
<1>1. /\ Within(p, q, Forcing) /\ q.power = Toggled(p.power)
      /\ q.gain = At(p.gain, c, i) /\ q.mult = At(p.mult, c, i)
      /\ q.forced = At(p.forced, c, i)
      /\ q.savedGain = Kept(p.forced, p.savedGain, p.gain, c)
      /\ q.savedMult = Kept(p.forced, p.savedMult, p.mult, c)
  BY TxpwrIndexSets
<1> HIDE DEF q
<1>2. Off(Toggled(p.power)) /\ Toggled(p.power).idx = p.power.idx
  BY StaysOff DEF Off
<1>3. Typed(q)
  <2>1. i \in Levels /\ i \in Indices \union {None}
    BY IndexTypes
  <2>2. /\ At(p.gain, c, i) \in [Cores -> Levels] /\ At(p.mult, c, i) \in [Cores -> Levels]
        /\ At(p.forced, c, i) \in [Cores -> Indices \union {None}]
    BY <2>1, AtTypes DEF Typed
  <2>3. /\ Kept(p.forced, p.savedGain, p.gain, c) \in [Cores -> Levels]
        /\ Kept(p.forced, p.savedMult, p.mult, c) \in [Cores -> Levels]
    BY KeptTypes DEF Typed
  <2> QED
    BY <1>1, <2>2, <2>3 DEF Typed
<1>4. Good(q)
  BY <1>1 DEF Within
<1> QED
  BY <1>1, <1>2, <1>3, <1>4 DEF q

LEMMA BothIndices ==
  ASSUME NEW p, Good(p), Typed(p), Off(p.power), NEW i \in Indices, NEW j \in Indices
  PROVE  LET r == TxpwrIndex(TxpwrIndex(p, 0, i), 1, j)
         IN  /\ Within(p, r, Forcing) /\ Good(r) /\ Typed(r)
             /\ Off(r.power) /\ r.power.idx = p.power.idx
             /\ r.gain = At(At(p.gain, 0, i), 1, j) /\ r.mult = At(At(p.mult, 0, i), 1, j)
             /\ r.forced = At(At(p.forced, 0, i), 1, j)
             /\ p.forced = Both(None) => r.savedGain = p.gain /\ r.savedMult = p.mult
<1> DEFINE q == TxpwrIndex(p, 0, i)
           r == TxpwrIndex(q, 1, j)
<1>0. 0 \in Cores /\ 1 \in Cores
  BY DEF Cores
<1>1. /\ Within(p, q, Forcing) /\ Good(q) /\ Typed(q) /\ Off(q.power)
      /\ q.power.idx = p.power.idx
      /\ q.gain = At(p.gain, 0, i) /\ q.mult = At(p.mult, 0, i)
      /\ q.forced = At(p.forced, 0, i)
      /\ q.savedGain = Kept(p.forced, p.savedGain, p.gain, 0)
      /\ q.savedMult = Kept(p.forced, p.savedMult, p.mult, 0)
  BY <1>0, OneIndex
<1> HIDE DEF q
<1>2. /\ Within(q, r, Forcing) /\ Good(r) /\ Typed(r) /\ Off(r.power)
      /\ r.power.idx = q.power.idx
      /\ r.gain = At(q.gain, 1, j) /\ r.mult = At(q.mult, 1, j)
      /\ r.forced = At(q.forced, 1, j)
      /\ r.savedGain = Kept(q.forced, q.savedGain, q.gain, 1)
      /\ r.savedMult = Kept(q.forced, q.savedMult, q.mult, 1)
  BY <1>0, <1>1, OneIndex
<1> HIDE DEF r
<1>3. Within(p, r, Forcing)
  BY <1>1, <1>2, WithinThen
<1>4. ASSUME p.forced = Both(None)
      PROVE  r.savedGain = p.gain /\ r.savedMult = p.mult
  <2>1. /\ p.forced[0] = None /\ q.forced[1] = None
        /\ q.gain[1] = p.gain[1] /\ q.mult[1] = p.mult[1]
    BY <1>1, <1>4 DEF Both, At, Cores, Typed
  <2>2. /\ q.savedGain = At(p.savedGain, 0, p.gain[0])
        /\ q.savedMult = At(p.savedMult, 0, p.mult[0])
        /\ r.savedGain = At(q.savedGain, 1, p.gain[1])
        /\ r.savedMult = At(q.savedMult, 1, p.mult[1])
    BY <1>1, <1>2, <2>1 DEF Kept
  <2>3. \A x, y \in [Cores -> Levels] : At(At(y, 0, x[0]), 1, x[1]) = x
    BY AtBoth
  <2> QED
    BY <2>2, <2>3 DEF Typed
<1> QED
  BY <1>1, <1>2, <1>3, <1>4 DEF r, q

Beginning == Forcing \union {"atGain", "pending"}

(* What Begin makes of the PHY.                                            *)
Begun(p) ==
  LET off == TxPowerCtrl(GetTxGains([p EXCEPT !.pending = FALSE]), FALSE)
      read == Tables(TxpwrIndex(TxpwrIndex(off, 0, Cal), 1, Cal))
  IN HandBackChain(HandBackChain(read, 0), 1)

LEMMA BegunSets ==
  ASSUME NEW p, Good(p), Typed(p), PowerOk(p.power), p.power.ctrl = TRUE, p.power.on = TRUE,
         p.forced = Both(None)
  PROVE  /\ Within(p, Begun(p), Beginning)
         /\ Typed(Begun(p)) /\ Off(Begun(p).power)
         /\ Begun(p).power.idx = p.power.index /\ Begun(p).atGain = p.power.index
         /\ Begun(p).forced = Both(None) /\ Begun(p).gain = p.gain /\ Begun(p).mult = p.mult
         /\ Begun(p).pending = FALSE
<1> DEFINE none == [p EXCEPT !.pending = FALSE]
           get == GetTxGains(none)
           off == TxPowerCtrl(get, FALSE)
           two == TxpwrIndex(TxpwrIndex(off, 0, Cal), 1, Cal)
           read == Tables(two)
           one == HandBackChain(read, 0)
           end == HandBackChain(one, 1)
<1>0. Begun(p) = end
  BY Zenon DEF Begun
<1>1. Within(p, none, {"pending"}) /\ none.pending = FALSE
  BY OneField DEF Good, PhyFields, Results
<1> HIDE DEF none
<1>2. Good(none) /\ Typed(none) /\ none.power = p.power /\ none.forced = p.forced
      /\ none.gain = p.gain /\ none.mult = p.mult
  BY <1>1 DEF Within, PhyFields, Levelling, Typed
<1>3. Within(none, get, {"atGain"}) /\ get.atGain = p.power.index
  BY <1>2, GetTxGainsSets
<1> HIDE DEF get
<1>4. /\ Good(get) /\ Typed(get) /\ get.power = p.power /\ get.forced = p.forced
      /\ get.gain = p.gain /\ get.mult = p.mult
  BY <1>2, <1>3 DEF Within, PhyFields, Levelling, Typed
<1>5. Within(get, off, Power) /\ off.power = Switched(get.power, FALSE)
  BY <1>4, TxPowerCtrlSets
<1> HIDE DEF off
<1>6. /\ Good(off) /\ Typed(off) /\ off.forced = p.forced
      /\ off.gain = p.gain /\ off.mult = p.mult
  BY <1>4, <1>5 DEF Within, Power, Regs, PhyFields, Levelling, Typed
<1>7. Off(off.power) /\ off.power.idx = p.power.index
  <2> DEFINE switched == Switched(p.power, FALSE)
  <2>1. PowerOk(switched) /\ switched.ctrl = FALSE /\ switched.on = FALSE
        /\ switched.idx = p.power.index
    BY SwitchedOff
  <2>2. off.power = switched
    BY <1>4, <1>5
  <2> HIDE DEF switched
  <2> QED
    BY <2>1, <2>2 DEF Off
<1>8. /\ Within(off, two, Forcing) /\ Good(two) /\ Typed(two)
      /\ Off(two.power) /\ two.power.idx = off.power.idx
      /\ two.gain = At(At(off.gain, 0, Cal), 1, Cal) /\ two.mult = At(At(off.mult, 0, Cal), 1, Cal)
      /\ two.forced = At(At(off.forced, 0, Cal), 1, Cal)
      /\ off.forced = Both(None) => two.savedGain = off.gain /\ two.savedMult = off.mult
  BY <1>6, <1>7, IndexTypes, BothIndices
<1> HIDE DEF two
<1>9. Within(two, read, {})
  BY WithinItself, TablesToo
<1> HIDE DEF read
<1>10. /\ Good(read) /\ Typed(read) /\ read.power = two.power /\ read.forced = two.forced
       /\ read.gain = two.gain /\ read.mult = two.mult
       /\ read.savedGain = p.gain /\ read.savedMult = p.mult
  BY <1>6, <1>8, <1>9 DEF Within, PhyFields, Levelling, Typed
<1>11. read.forced[0] = Cal /\ read.forced[1] = Cal /\ Cal # None
  BY <1>6, <1>8, <1>10 DEF Both, At, Cores, Cal, None
<1>12. /\ Within(read, one, Forcing) /\ one.power = Switched(read.power, read.power.ctrl)
       /\ one.gain = At(read.gain, 0, read.savedGain[0])
       /\ one.mult = At(read.mult, 0, read.savedMult[0])
       /\ one.forced = At(read.forced, 0, None)
       /\ one.savedGain = read.savedGain /\ one.savedMult = read.savedMult
  BY <1>10, <1>11, HandBackChainSets
<1> HIDE DEF one
<1>13. Good(one) /\ Off(one.power) /\ one.power.idx = p.power.index
  <2>1. Good(one)
    BY <1>10, <1>12 DEF Within
  <2> DEFINE switched == Switched(two.power, FALSE)
  <2>2. PowerOk(switched) /\ switched.ctrl = FALSE /\ switched.on = FALSE
        /\ switched.idx = two.power.idx
    BY <1>8, SwitchedOff DEF Off
  <2>3. one.power = switched
    BY <1>8, <1>10, <1>12 DEF Off
  <2> HIDE DEF switched
  <2> QED
    BY <1>7, <1>8, <2>1, <2>2, <2>3 DEF Off
<1>14. one.forced[1] # None
  BY <1>10, <1>11, <1>12 DEF At, Cores, Typed
<1>15. /\ Within(one, end, Forcing) /\ end.power = Switched(one.power, one.power.ctrl)
       /\ end.gain = At(one.gain, 1, one.savedGain[1])
       /\ end.mult = At(one.mult, 1, one.savedMult[1])
       /\ end.forced = At(one.forced, 1, None)
       /\ end.savedGain = one.savedGain /\ end.savedMult = one.savedMult
  BY <1>13, <1>14, HandBackChainSets
<1> HIDE DEF end
<1>16. Off(end.power) /\ end.power.idx = p.power.index
  <2> DEFINE switched == Switched(one.power, FALSE)
  <2>2. PowerOk(switched) /\ switched.ctrl = FALSE /\ switched.on = FALSE
        /\ switched.idx = one.power.idx
    BY <1>13, SwitchedOff DEF Off
  <2>3. end.power = switched
    BY <1>13, <1>15 DEF Off
  <2> HIDE DEF switched
  <2> QED
    BY <1>13, <2>2, <2>3 DEF Off
<1>17. end.gain = p.gain /\ end.mult = p.mult /\ end.forced = Both(None)
  <2>1. /\ end.gain = At(At(read.gain, 0, p.gain[0]), 1, p.gain[1])
        /\ end.mult = At(At(read.mult, 0, p.mult[0]), 1, p.mult[1])
    BY <1>10, <1>12, <1>15
  <2>2. end.forced = At(At(read.forced, 0, Both(None)[0]), 1, Both(None)[1])
    BY <1>12, <1>15 DEF Both, Cores
  <2>3. Both(None) \in [Cores -> {None}]
    BY DEF Both
  <2>4. \A y \in [Cores -> Indices \union {None}] : At(At(y, 0, Both(None)[0]), 1, Both(None)[1]) = Both(None)
    BY <2>3, AtBoth
  <2>5. \A x, y \in [Cores -> Levels] : At(At(y, 0, x[0]), 1, x[1]) = x
    BY AtBoth
  <2> QED
    BY <1>10, <2>1, <2>2, <2>4, <2>5 DEF Typed
<1>18. Typed(end)
  <2>1. end.savedGain = p.gain /\ end.savedMult = p.mult
    BY <1>10, <1>12, <1>15
  <2> QED
    BY <1>17, <2>1 DEF Typed
<1>19. Within(p, end, Beginning)
  <2>1. /\ Within(p, none, Beginning) /\ Within(none, get, Beginning)
        /\ Within(get, off, Beginning) /\ Within(off, two, Beginning)
        /\ Within(two, read, Beginning) /\ Within(read, one, Beginning)
        /\ Within(one, end, Beginning)
    BY <1>1, <1>3, <1>5, <1>8, <1>9, <1>12, <1>15, WithinMore DEF Beginning, Forcing, Power
  <2> QED
    BY <2>1, WithinThen
<1>20. end.atGain = p.power.index /\ end.pending = FALSE
  <2>1. /\ Within(get, off, Forcing) /\ Within(two, read, Forcing)
    BY <1>5, <1>9, WithinMore DEF Forcing, Power
  <2>2. Within(get, end, Forcing)
    BY <1>8, <1>12, <1>15, <2>1, WithinThen
  <2>3. get.pending = FALSE
    BY <1>1, <1>2, <1>3 DEF Within, PhyFields, Results
  <2> QED
    BY <1>3, <1>4, <2>2, <2>3 DEF Within, Forcing, Regs, PhyFields, Levelling, Results
<1> QED
  BY <1>0, <1>16, <1>17, <1>18, <1>19, <1>20

(***************************************************************************)
(* The search from its two ends.                                           *)
(***************************************************************************)
LEMMA SearchValues ==
  ASSUME NEW s
  PROVE  /\ Free(s) \/ Held(s) => SearchOk(s)
         /\ Free(s) => Held(Entered(s)) /\ Entered(s).hang = s.hang
         /\ Held(s) => Free(Left(s)) /\ Left(s).hang = s.hang
         /\ \A t : SearchOk(t) /\ Same(s, t) => /\ Free(s) => Free(t)
                                                /\ Held(s) => Held(t)
                                                /\ t.hang = s.hang
<1>1. Free(s) \/ Held(s) => SearchOk(s)
  BY DEF Free, Held, SearchOk
<1>2. Free(s) => Held(Entered(s)) /\ Entered(s).hang = s.hang
  BY DEF Free, Held, Entered, SearchFields
<1>3. Held(s) => Free(Left(s)) /\ Left(s).hang = s.hang
  BY DEF Free, Held, Left, SearchFields
<1>4. ASSUME NEW t, SearchOk(t), Same(s, t)
      PROVE  /\ Free(s) => Free(t)
             /\ Held(s) => Held(t)
             /\ t.hang = s.hang
  BY <1>4 DEF Free, Held, SearchOk, Same
<1> QED
  BY <1>1, <1>2, <1>3, <1>4

LEMMA EnterValues ==
  ASSUME NEW p, Good(p)
  PROVE  /\ Good(EnterSearch(p)) /\ EnterSearch(p).search = Entered(p.search)
         /\ \A f \in PhyFields \ {"search"} : EnterSearch(p)[f] = p[f]
<1>1. /\ DOMAIN EnterSearch(p) = PhyFields /\ EnterSearch(p).search = Entered(p.search)
      /\ \A f \in PhyFields \ {"search"} : EnterSearch(p)[f] = p[f]
  BY Brackets DEF EnterSearch, Good
<1> QED
  BY <1>1, SearchBracket DEF Good

LEMMA LeaveValues ==
  ASSUME NEW p, DOMAIN p = PhyFields
  PROVE  /\ DOMAIN LeaveSearch(p) = PhyFields /\ LeaveSearch(p).search = Left(p.search)
         /\ \A f \in PhyFields \ {"search"} : LeaveSearch(p)[f] = p[f]
BY Brackets DEF LeaveSearch

(***************************************************************************)
(* The calibration of the transmitter.                                     *)
(***************************************************************************)
(* What CalTxIqLo makes of the PHY.                                        *)
TxCalibrated(p, memory, ch) ==
  LET played == Tone(TxCalOpen(p), memory)
      learnt == IF memory THEN TxCalLearn(played, ch) ELSE played
  IN TxCalClose(learnt, p)

Learning == Regs \union {"coeffs"}

LEMMA LearntSets ==
  ASSUME NEW p, Good(p), p.multSave = <<>>, NEW memory, NEW ch
  PROVE  LET played == Tone(p, memory)
             learnt == IF memory THEN TxCalLearn(played, ch) ELSE played
         IN Within(p, learnt, Learning) /\ (memory => learnt.coeffs = ch)
<1> DEFINE played == Tone(p, memory)
           stop == StopPlayback(played)
           learn == [stop EXCEPT !.coeffs = ch]
<1>1. TxCalLearn(played, ch) = learn
  BY Zenon DEF TxCalLearn
<1>2. Within(p, stop, Regs)
  BY WithinItself, PlayedAndStopped
<1> HIDE DEF stop
<1>3. Good(stop)
  BY <1>2 DEF Within
<1>4. Within(stop, learn, {"coeffs"}) /\ learn.coeffs = ch
  BY <1>3, OneField DEF Good, PhyFields, Results
<1> HIDE DEF learn
<1>5. Within(p, learn, Learning)
  BY <1>2, <1>4, WithinMore, WithinThen DEF Learning
<1>6. ~memory => played = p
  BY DEF Tone
<1> HIDE DEF played
<1> QED
  BY <1>1, <1>4, <1>5, <1>6, WithinItself DEF played

LEMMA TxCalSets ==
  ASSUME NEW p, Good(p), p.multSave = <<>>, NEW memory, NEW ch
  PROVE  /\ Within(p, TxCalibrated(p, memory, ch), Learning)
         /\ memory => TxCalibrated(p, memory, ch).coeffs = ch
<1> DEFINE ent == EnterSearch(p)
           hang == [ent EXCEPT !.search = [ent.search EXCEPT !.hang = IF p.rev >= 4 THEN FALSE
                                                                      ELSE ent.search.hang]]
           in == [hang EXCEPT !.gain = Both(Cal)]
           radio == IF p.rev >= 7 THEN TxCalRadioSetupRev7(in) ELSE in
           set == TxCalPhySetup(radio)
           played == Tone(set, memory)
           learnt == IF memory THEN TxCalLearn(played, ch) ELSE played
           phyback == TxCalPhyCleanup(learnt)
           off == IF learnt.rev >= 8 THEN RfCtlOverrideRev7(phyback, {\h8}, Cores, TRUE, 0)
                  ELSE phyback
           gains == [off EXCEPT !.gain = p.gain]
           rback == IF learnt.rev >= 7 THEN TxCalRadioCleanupRev7(gains) ELSE gains
           back == [rback EXCEPT !.search = [rback.search EXCEPT !.hang = p.search.hang]]
<1>1. TxCalOpen(p) = set
  BY Zenon DEF TxCalOpen
<1>2. TxCalClose(learnt, p) = LeaveSearch(back)
  BY Zenon DEF TxCalClose
<1>3. TxCalibrated(p, memory, ch) = LeaveSearch(back)
  BY <1>1, <1>2, Zenon DEF TxCalibrated
<1>4. /\ Good(ent) /\ ent.search = Entered(p.search)
      /\ \A f \in PhyFields \ {"search"} : ent[f] = p[f]
  BY EnterValues
<1> HIDE DEF ent
<1>5. /\ DOMAIN hang = PhyFields
      /\ hang.search = [ent.search EXCEPT !.hang = IF p.rev >= 4 THEN FALSE
                                                   ELSE ent.search.hang]
      /\ \A f \in PhyFields \ {"search"} : hang[f] = p[f]
  BY <1>4, Brackets DEF Good
<1> HIDE DEF hang
<1>6. /\ Good(hang) /\ hang.search.deaf = Entered(p.search).deaf
      /\ hang.search.on = Entered(p.search).on /\ hang.search.class = Entered(p.search).class
  <2>1. SearchOk(Entered(p.search))
    BY SearchBracket DEF Good
  <2> QED
    BY <1>4, <1>5, <2>1 DEF Good, SearchOk, SearchFields
<1>7. Within(hang, in, {"gain"})
  BY OneField DEF PhyFields, Levelling
<1> HIDE DEF in
<1>8. Good(in) /\ in.multSave = <<>>
  BY <1>5, <1>6, <1>7 DEF Within, PhyFields, Levelling
<1>9. Within(in, set, Regs)
  <2>1. Within(in, radio, Regs)
    BY WithinItself, TxCalToo
  <2> HIDE DEF radio
  <2> QED
    BY <2>1, TxCalToo
<1> HIDE DEF set
<1>10. Good(set) /\ set.multSave = <<>>
  BY <1>8, <1>9 DEF Within, Regs, PhyFields, Levelling
<1>11. Within(set, learnt, Learning) /\ (memory => learnt.coeffs = ch)
  BY <1>10, LearntSets
<1> HIDE DEF learnt
<1>12. Within(learnt, off, Regs)
  <2>1. Within(learnt, phyback, Regs)
    BY WithinItself, TxCalToo
  <2> HIDE DEF phyback
  <2> QED
    BY <2>1, RfCtlToo
<1> HIDE DEF off
<1>13. Good(learnt) /\ Good(off)
  BY <1>10, <1>11, <1>12 DEF Within
<1>14. Within(off, gains, {"gain"}) /\ gains.gain = p.gain
  BY <1>13, OneField DEF Good, PhyFields, Levelling
<1> HIDE DEF gains
<1>15. Within(gains, rback, Regs)
  BY WithinItself, TxCalToo
<1> HIDE DEF rback
<1> DEFINE most == Learning \union {"gain"}
<1>16. Within(hang, rback, most)
  <2>1. /\ Within(hang, in, most) /\ Within(in, set, most) /\ Within(set, learnt, most)
        /\ Within(learnt, off, most) /\ Within(off, gains, most) /\ Within(gains, rback, most)
    BY <1>7, <1>9, <1>11, <1>12, <1>14, <1>15, WithinMore DEF Learning
  <2> HIDE DEF most
  <2> QED
    BY <2>1, WithinThen
<1>17. /\ Good(rback) /\ Same(hang.search, rback.search) /\ rback.gain = p.gain
       /\ \A f \in PhyFields \ (Learning \union {"search"}) : rback[f] = p[f]
       /\ memory => rback.coeffs = ch
  <2>1. /\ Good(rback) /\ Same(hang.search, rback.search)
        /\ \A f \in PhyFields \ (most \union {"search"}) : rback[f] = hang[f]
    BY <1>6, <1>16 DEF Within
  <2>2. Good(gains) /\ rback.gain = p.gain
    BY <1>13, <1>14, <1>15 DEF Within, Regs, PhyFields, Levelling
  <2>3. Within(learnt, rback, Regs \union {"gain"})
    <3>1. /\ Within(learnt, off, Regs \union {"gain"}) /\ Within(off, gains, Regs \union {"gain"})
          /\ Within(gains, rback, Regs \union {"gain"})
      BY <1>12, <1>14, <1>15, WithinMore
    <3> QED
      BY <3>1, WithinThen
  <2>4. rback.coeffs = learnt.coeffs
    BY <1>13, <2>3 DEF Within, Regs, PhyFields, Results
  <2> QED
    BY <1>5, <1>11, <2>1, <2>2, <2>4
<1>18. /\ DOMAIN back = PhyFields
       /\ back.search = [rback.search EXCEPT !.hang = p.search.hang]
       /\ \A f \in PhyFields \ {"search"} : back[f] = rback[f]
  BY <1>17, Brackets DEF Good
<1> HIDE DEF back
<1>19. SearchOk(back.search) /\ Same(Entered(p.search), back.search)
  <2>1. /\ SearchOk(Entered(p.search)) /\ Entered(p.search).hang = p.search.hang
    BY SearchBracket DEF Good
  <2>2. SearchOk(rback.search)
    BY <1>17 DEF Good
  <2>3. /\ DOMAIN back.search = SearchFields /\ back.search.hang = p.search.hang
        /\ back.search.deaf = rback.search.deaf /\ back.search.on = rback.search.on
        /\ back.search.class = rback.search.class
    BY <1>18, <2>2 DEF SearchOk, SearchFields
  <2> QED
    BY <1>6, <1>17, <2>1, <2>2, <2>3 DEF SearchOk, Same
<1>20. /\ DOMAIN LeaveSearch(back) = PhyFields /\ LeaveSearch(back).search = Left(back.search)
       /\ \A f \in PhyFields \ {"search"} : LeaveSearch(back)[f] = rback[f]
  BY <1>18, LeaveValues
<1>21. SearchOk(Left(back.search)) /\ Same(p.search, Left(back.search))
  BY <1>19, SearchBracket DEF Good
<1>22. memory => LeaveSearch(back).coeffs = ch
  BY <1>17, <1>20 DEF PhyFields, Results
<1> QED
  BY <1>3, <1>17, <1>20, <1>21, <1>22 DEF Within, Good

(***************************************************************************)
(* The calibration of the PAPD engine.                                     *)
(***************************************************************************)
LEMMA ListeningToo ==
  ASSUME NEW p, NEW q, Within(p, q, Regs)
  PROVE  Within(p, Listening(q), Regs)
<1>1. \A x : Within(p, Writes(q, x), Regs)
  BY Written
<1> QED
  BY <1>1, Zenon DEF Writes, Listening

(* A control that is off, turned off again, and with the search entered.   *)
LEMMA OffAgain ==
  ASSUME NEW p, Good(p), Off(p.power)
  PROVE  /\ Within(p, TxPowerCtrl(p, FALSE), Power) /\ Off(TxPowerCtrl(p, FALSE).power)
         /\ TxPowerCtrl(p, FALSE).power.idx = p.power.idx
<1> DEFINE off == TxPowerCtrl(p, FALSE)
           switched == Switched(p.power, FALSE)
<1>1. Within(p, off, Power) /\ off.power = switched
  BY TxPowerCtrlSets
<1>2. /\ PowerOk(switched) /\ switched.ctrl = FALSE /\ switched.on = FALSE
      /\ switched.idx = p.power.idx
  BY SwitchedOff DEF Off
<1> HIDE DEF off, switched
<1> QED
  BY <1>1, <1>2 DEF Off, off

LEMMA PapdEnterSets ==
  ASSUME NEW p, Good(p), Off(p.power)
  PROVE  LET in == Listening(EnterSearch(TxPowerCtrl(p, FALSE)))
             q == TxPowerCtrl(in, FALSE)
         IN  /\ Good(q) /\ Off(q.power) /\ q.power.idx = p.power.idx
             /\ Free(p.search) => Held(q.search) /\ q.search.hang = p.search.hang
             /\ \A f \in PhyFields \ (Power \union {"search"}) : q[f] = p[f]
             /\ in.mult = p.mult /\ in.power.ctrl = FALSE
<1> DEFINE open == TxPowerCtrl(p, FALSE)
           ent == EnterSearch(open)
           in == Listening(ent)
           q == TxPowerCtrl(in, FALSE)
<1>1. Within(p, open, Power) /\ Off(open.power) /\ open.power.idx = p.power.idx
  BY OffAgain
<1> HIDE DEF open
<1>2. /\ Good(open) /\ Same(p.search, open.search) /\ open.mult = p.mult
      /\ \A f \in PhyFields \ (Power \union {"search"}) : open[f] = p[f]
  BY <1>1 DEF Within, Power, Regs, PhyFields, Levelling
<1>3. /\ Good(ent) /\ ent.search = Entered(open.search)
      /\ \A f \in PhyFields \ {"search"} : ent[f] = open[f]
  BY <1>2, EnterValues
<1> HIDE DEF ent
<1>4. Within(ent, in, Regs)
  BY WithinItself, ListeningToo
<1> HIDE DEF in
<1>5. Good(in) /\ in.mult = p.mult /\ in.power = open.power
  BY <1>2, <1>3, <1>4 DEF Within, Regs, PhyFields, Levelling
<1>6. Within(in, q, Power) /\ Off(q.power) /\ q.power.idx = p.power.idx
  BY <1>1, <1>5, OffAgain
<1> HIDE DEF q
<1>7. Within(ent, q, Power)
  BY <1>4, <1>6, WithinMore, WithinThen DEF Power
<1>8. /\ Good(q) /\ Same(Entered(open.search), q.search)
      /\ \A f \in PhyFields \ (Power \union {"search"}) : q[f] = p[f]
  BY <1>2, <1>3, <1>7 DEF Within
<1>9. ASSUME Free(p.search)
      PROVE  Held(q.search) /\ q.search.hang = p.search.hang
  <2>1. Free(open.search) /\ open.search.hang = p.search.hang
    BY <1>2, <1>9, SearchValues DEF Good
  <2>2. Held(Entered(open.search)) /\ Entered(open.search).hang = p.search.hang
    BY <2>1, SearchValues
  <2>3. SearchOk(q.search)
    BY <1>8 DEF Good
  <2> QED
    BY <1>8, <2>2, <2>3, SearchValues
<1> QED
  BY <1>1, <1>5, <1>6, <1>8, <1>9 DEF q, in, ent, open, Off

Looping == Regs \union {"mult"}

(* One chain's engine runs with the control off.                           *)
LEMMA RunOneToo ==
  ASSUME NEW p, Good(p), p.power.ctrl = FALSE, NEW c
  PROVE  Within(p, RunOne(p, c), Looping)
<1> DEFINE tab == Tables(p)
           gain == OneToMany(tab, "TX_GAIN", {c}, FALSE)
           engine == PapdEngineOn(gain, c)
           loud == [engine EXCEPT !.mult = [d \in Cores |-> IF d = c THEN ToneLevel ELSE Silent]]
           on == RfCtlOverrideRev7(loud, {\h8}, Cores, FALSE, 0)
           end == OneToMany(on, "TX_GAIN", {c}, TRUE)
<1>1. GetTxGains(p) = tab
  BY Zenon DEF GetTxGains
<1>2. RunOne(p, c) = end
  BY <1>1, Zenon DEF RunOne
<1>3. Within(p, tab, Regs)
  BY WithinItself, TablesToo
<1> HIDE DEF tab
<1>4. Within(p, gain, Regs)
  BY <1>3, ManyToo
<1> HIDE DEF gain
<1>5. Within(p, engine, Regs)
  BY <1>4, PapdToo
<1> HIDE DEF engine
<1>6. Good(engine)
  BY <1>5 DEF Within
<1>7. Within(engine, loud, {"mult"})
  BY OneField DEF PhyFields, Levelling
<1> HIDE DEF loud
<1>8. Within(loud, on, Regs)
  BY WithinItself, RfCtlToo
<1> HIDE DEF on
<1>9. Within(loud, end, Regs)
  BY <1>8, ManyToo
<1> HIDE DEF end
<1> QED
  <2>1. Within(p, engine, Looping) /\ Within(engine, loud, Looping) /\ Within(loud, end, Looping)
    BY <1>5, <1>7, <1>9, WithinMore DEF Looping
  <2> QED
    BY <1>2, <2>1, WithinThen

(* What PapdPass makes of the PHY.                                         *)
PapdPassed(p, c, memory, mult) ==
  LET set == PapdEngineOn(Tone(PapdCalSetup(p, c), memory), c)
      done == StopPlayback(RunOne(GainSearch(set, c), c))
  IN [PapdCalCleanup(done, p) EXCEPT !.mult = mult]

LEMMA PapdPassedSets ==
  ASSUME NEW p, Good(p), p.multSave = <<>>, Off(p.power), NEW c, NEW memory, NEW mult
  PROVE  /\ Within(p, PapdPassed(p, c, memory, mult), Looping)
         /\ PapdPassed(p, c, memory, mult).mult = mult
<1> DEFINE setup == PapdCalSetup(p, c)
           tone == Tone(setup, memory)
           set == PapdEngineOn(tone, c)
           one == RunOne(set, c)
           two == RunOne(one, c)
           done == StopPlayback(two)
           clean == PapdCalCleanup(done, p)
           end == [clean EXCEPT !.mult = mult]
<1>1. PapdPassed(p, c, memory, mult) = end
  BY Zenon DEF PapdPassed, GainSearch
<1>2. Within(p, setup, Regs)
  BY WithinItself, PapdToo
<1> HIDE DEF setup
<1>3. Good(setup) /\ setup.multSave = <<>> /\ setup.power = p.power /\ p.power.ctrl = FALSE
  BY <1>2 DEF Within, Regs, PhyFields, Levelling, Off
<1>4. Within(setup, tone, Saving)
  BY <1>3, ToneSets
<1> HIDE DEF tone
<1>5. Within(tone, set, Regs)
  BY WithinItself, PapdToo
<1> HIDE DEF set
<1>6. Good(set) /\ set.power = p.power
  BY <1>3, <1>4, <1>5 DEF Within, Saving, Regs, PhyFields, Levelling
<1>7. Within(set, one, Looping)
  BY <1>3, <1>6, RunOneToo
<1> HIDE DEF one
<1>8. Good(one) /\ one.power = p.power
  BY <1>6, <1>7 DEF Within, Looping, Regs, PhyFields, Levelling
<1>9. Within(one, two, Looping)
  BY <1>3, <1>8, RunOneToo
<1> HIDE DEF two
<1>10. Good(two)
  BY <1>8, <1>9 DEF Within
<1>11. Within(two, done, Playing) /\ done.multSave = <<>>
  BY <1>10, StopPlaybackSets
<1> HIDE DEF done
<1>12. Within(done, clean, Regs)
  BY WithinItself, PapdToo
<1> HIDE DEF clean
<1>13. Good(done) /\ Good(clean) /\ clean.multSave = <<>>
  BY <1>10, <1>11, <1>12 DEF Within, Regs, PhyFields, Levelling
<1>14. Within(clean, end, {"mult"}) /\ end.mult = mult
  BY <1>13, OneField DEF Good, PhyFields, Levelling
<1> HIDE DEF end
<1>15. end.multSave = <<>>
  BY <1>13, <1>14 DEF Within, PhyFields, Levelling
<1>16. Within(p, end, Playing)
  <2>1. /\ Within(p, setup, Playing) /\ Within(setup, tone, Playing)
        /\ Within(tone, set, Playing) /\ Within(set, one, Playing)
        /\ Within(one, two, Playing) /\ Within(done, clean, Playing)
        /\ Within(clean, end, Playing)
    BY <1>2, <1>4, <1>5, <1>7, <1>9, <1>12, <1>14, WithinMore DEF Playing, Looping, Saving
  <2> QED
    BY <1>11, <2>1, WithinThen
<1>17. Within(p, end, Looping)
  BY <1>15, <1>16 DEF Within, Playing, Looping
<1> QED
  BY <1>1, <1>14, <1>17

(* What PapdLeave makes of it: both chains are on the index of a control   *)
(* that is off, and the search is left.                                    *)
PapdLeft(p, on, ctrl) ==
  LET closed == TxPowerCtrl(on, ctrl)
      back == IF closed.power.ctrl THEN closed
              ELSE TxpwrIndex(TxpwrIndex(closed, 0, closed.internal), 1, closed.internal)
  IN LeaveSearch(back)

LEMMA PapdLeftSets ==
  ASSUME NEW p, Good(p), Typed(p), Off(p.power), p.internal = Internal,
         NEW on, Within(p, on, Regs)
  PROVE  \E back : /\ PapdLeft(p, on, FALSE) = LeaveSearch(back)
                   /\ Within(p, back, Forcing) /\ Typed(back)
                   /\ Off(back.power) /\ back.power.idx = p.power.idx
<1> DEFINE closed == TxPowerCtrl(on, FALSE)
           back == TxpwrIndex(TxpwrIndex(closed, 0, closed.internal), 1, closed.internal)
<1>1. Good(on) /\ on.power = p.power
  BY DEF Within, Regs, PhyFields, Levelling
<1>2. Within(on, closed, Power) /\ Off(closed.power) /\ closed.power.idx = p.power.idx
  BY <1>1, OffAgain
<1>3. PapdLeft(p, on, FALSE) = LeaveSearch(back)
  BY <1>2, Zenon DEF PapdLeft, Off
<1> HIDE DEF closed
<1>4. Within(p, closed, Power)
  BY <1>2, WithinMore, WithinThen DEF Power
<1>5. Good(closed) /\ Typed(closed) /\ closed.internal = Internal
  BY <1>4 DEF Within, Power, Regs, PhyFields, Levelling, Typed
<1>6. Within(closed, back, Forcing) /\ Typed(back) /\ Off(back.power)
      /\ back.power.idx = closed.power.idx
  BY <1>2, <1>5, IndexTypes, BothIndices
<1> HIDE DEF back
<1>7. Within(p, back, Forcing)
  BY <1>4, <1>6, WithinMore, WithinThen DEF Forcing, Power
<1> QED
  BY <1>2, <1>3, <1>6, <1>7

(***************************************************************************)
(* The calibration of the receiver.                                        *)
(***************************************************************************)
(* The ladder forces an index on the chain.                                *)
LEMMA GainCtrlSets ==
  ASSUME NEW p, Good(p), Typed(p), Off(p.power), p.multSave = <<>>, NEW c \in Cores, NEW memory
  PROVE  /\ Within(p, GainCtrl(p, c, memory), Forcing) /\ Typed(GainCtrl(p, c, memory))
         /\ Off(GainCtrl(p, c, memory).power)
         /\ GainCtrl(p, c, memory).power.idx = p.power.idx
<1> DEFINE gain == OneToMany(p, "RX_GAIN", Cores, FALSE)
           put == TxpwrIndex(gain, c, Ladder)
           end == StopPlayback(Tone(put, memory))
<1>1. GainCtrl(p, c, memory) = end
  BY Zenon DEF GainCtrl
<1>2. Within(p, gain, Regs)
  BY WithinItself, ManyToo
<1> HIDE DEF gain
<1>3. Good(gain) /\ Typed(gain) /\ gain.power = p.power /\ gain.multSave = <<>>
  BY <1>2 DEF Within, Regs, PhyFields, Levelling, Typed
<1>4. /\ Within(gain, put, Forcing) /\ Good(put) /\ Typed(put) /\ Off(put.power)
      /\ put.power.idx = p.power.idx
  BY <1>3, IndexTypes, OneIndex
<1> HIDE DEF put
<1>5. put.multSave = <<>>
  BY <1>3, <1>4 DEF Within, Forcing, Regs, PhyFields, Levelling
<1>6. Within(put, end, Regs)
  BY <1>4, <1>5, WithinItself, PlayedAndStopped
<1> HIDE DEF end
<1>7. Typed(end) /\ end.power = put.power
  BY <1>4, <1>6 DEF Within, Regs, PhyFields, Levelling, Typed
<1>8. Within(p, end, Forcing)
  <2>1. Within(p, gain, Forcing) /\ Within(put, end, Forcing)
    BY <1>2, <1>6, WithinMore DEF Forcing
  <2> QED
    BY <1>4, <2>1, WithinThen
<1> QED
  BY <1>1, <1>4, <1>7, <1>8

(* What RxPass makes of the PHY.                                           *)
RxPassed(p, c, memory) ==
  LET set == RxcalRadioSetup(RxcalPhySetup(p, c), c)
      measured == StopPlayback(Tone(GainCtrl(set, c, memory), memory))
  IN RxcalPhyCleanup(RxcalRadioCleanup(measured, c), c)

LEMMA RxPassedSets ==
  ASSUME NEW p, Good(p), Typed(p), Off(p.power), p.multSave = <<>>, NEW c \in Cores, NEW memory
  PROVE  /\ Within(p, RxPassed(p, c, memory), Forcing) /\ Typed(RxPassed(p, c, memory))
         /\ Off(RxPassed(p, c, memory).power)
         /\ RxPassed(p, c, memory).power.idx = p.power.idx
<1> DEFINE set == RxcalRadioSetup(RxcalPhySetup(p, c), c)
           ctrl == GainCtrl(set, c, memory)
           measured == StopPlayback(Tone(ctrl, memory))
           end == RxcalPhyCleanup(RxcalRadioCleanup(measured, c), c)
<1>1. RxPassed(p, c, memory) = end
  BY Zenon DEF RxPassed
<1>2. Within(p, set, Regs)
  BY WithinItself, RxCalToo
<1> HIDE DEF set
<1>3. Good(set) /\ Typed(set) /\ set.power = p.power /\ set.multSave = <<>>
  BY <1>2 DEF Within, Regs, PhyFields, Levelling, Typed
<1>4. /\ Within(set, ctrl, Forcing) /\ Typed(ctrl) /\ Off(ctrl.power)
      /\ ctrl.power.idx = p.power.idx
  BY <1>3, GainCtrlSets
<1> HIDE DEF ctrl
<1>5. Good(ctrl) /\ ctrl.multSave = <<>>
  BY <1>3, <1>4 DEF Within, Forcing, Regs, PhyFields, Levelling
<1>6. Within(ctrl, measured, Regs)
  BY <1>5, WithinItself, PlayedAndStopped
<1> HIDE DEF measured
<1>7. Within(ctrl, end, Regs)
  BY <1>6, RxCalToo
<1> HIDE DEF end
<1>8. Typed(end) /\ end.power = ctrl.power
  BY <1>4, <1>5, <1>7 DEF Within, Regs, PhyFields, Levelling, Typed
<1>9. Within(p, end, Forcing)
  <2>1. Within(p, set, Forcing) /\ Within(ctrl, end, Forcing)
    BY <1>2, <1>7, WithinMore DEF Forcing
  <2> QED
    BY <1>4, <2>1, WithinThen
<1> QED
  BY <1>1, <1>4, <1>8, <1>9

(* What RxLeave makes of it.                                               *)
RxLeft(p, cell, gain, ch) ==
  LET off == OneToMany(Writes(p, cell), "RX_GAIN", Cores, TRUE)
      out == LeaveSearch([off EXCEPT !.gain = gain])
  IN RssiCal(Tables(SaveCal(out, ch)), ch)

LEMMA SaveCalSets ==
  ASSUME NEW p, Good(p), NEW ch
  PROVE  /\ Within(p, SaveCal(p, ch), {"iqcal"}) /\ Good(SaveCal(p, ch))
         /\ SaveCal(p, ch).iqcal = ch
<1> DEFINE h == Hold(p)
           n == [h EXCEPT !.iqcal = ch]
<1>1. SaveCal(p, ch) = Release(n)
  BY Zenon DEF SaveCal
<1>2. Good(h)
  BY BracketValues
<1>3. Within(h, n, {"iqcal"}) /\ n.iqcal = ch
  BY <1>2, OneField DEF Good, PhyFields, Results
<1> HIDE DEF n
<1>4. /\ Good(n) /\ Within(p, Release(n), {"iqcal"})
      /\ \A f \in PhyFields \ {"search"} : Release(n)[f] = n[f]
  BY <1>3, Inside
<1>5. Release(n).iqcal = ch
  BY <1>3, <1>4 DEF PhyFields, Results
<1>6. Good(Release(n))
  BY <1>4 DEF Within
<1> QED
  BY <1>1, <1>4, <1>5, <1>6

LEMMA RxLeftSets ==
  ASSUME NEW p, Good(p), Held(p.search), NEW cell, NEW gain, NEW ch
  PROVE  LET q == RxLeft(p, cell, gain, ch)
         IN  /\ Good(q) /\ Free(q.search) /\ q.search.hang = p.search.hang
             /\ \A f \in PhyFields \ (Regs \union {"gain", "iqcal", "search"}) : q[f] = p[f]
             /\ q.gain = gain /\ q.iqcal = ch
<1> DEFINE w == Writes(p, cell)
           off == OneToMany(w, "RX_GAIN", Cores, TRUE)
           back == [off EXCEPT !.gain = gain]
           out == LeaveSearch(back)
           saved == SaveCal(out, ch)
           tab == Tables(saved)
           end == RssiCal(tab, ch)
<1>1. RxLeft(p, cell, gain, ch) = end
  BY Zenon DEF RxLeft
<1>2. Within(p, off, Regs)
  BY WithinItself, Written, ManyToo
<1> HIDE DEF off
<1>3. /\ Good(off) /\ Held(off.search) /\ off.search.hang = p.search.hang
  BY <1>2, SearchValues DEF Within, Good
<1>4. Within(off, back, {"gain"}) /\ back.gain = gain /\ back.search = off.search
  BY <1>3, OneField DEF Good, PhyFields, Levelling
<1> HIDE DEF back
<1>5. Good(back)
  BY <1>3, <1>4 DEF Within
<1>6. /\ DOMAIN out = PhyFields /\ out.search = Left(back.search)
      /\ \A f \in PhyFields \ {"search"} : out[f] = back[f]
  BY <1>5, LeaveValues DEF Good
<1> HIDE DEF out
<1>7. /\ Good(out) /\ Free(out.search) /\ out.search.hang = p.search.hang
      /\ out.gain = gain
      /\ \A f \in PhyFields \ (Regs \union {"gain", "search"}) : out[f] = p[f]
  <2>1. Free(out.search) /\ out.search.hang = p.search.hang /\ SearchOk(out.search)
    BY <1>3, <1>4, <1>6, SearchValues
  <2>2. out.gain = gain
    BY <1>4, <1>6 DEF PhyFields, Levelling
  <2>3. \A f \in PhyFields \ (Regs \union {"gain", "search"}) : out[f] = p[f]
    BY <1>2, <1>3, <1>4, <1>6 DEF Within
  <2> QED
    BY <1>6, <2>1, <2>2, <2>3 DEF Good
<1>8. Within(out, saved, {"iqcal"}) /\ Good(saved) /\ saved.iqcal = ch
  BY <1>7, SaveCalSets
<1> HIDE DEF saved
<1>9. Within(saved, end, Regs)
  <2>1. Within(saved, tab, Regs)
    BY WithinItself, TablesToo
  <2> HIDE DEF tab
  <2> QED
    BY <2>1, RssiCalToo
<1> HIDE DEF end
<1>10. Within(out, end, Regs \union {"iqcal"})
  <2>1. Within(out, saved, Regs \union {"iqcal"}) /\ Within(saved, end, Regs \union {"iqcal"})
    BY <1>8, <1>9, WithinMore
  <2> QED
    BY <2>1, WithinThen
<1>11. /\ Good(end) /\ Same(out.search, end.search) /\ end.gain = gain
       /\ \A f \in PhyFields \ (Regs \union {"gain", "iqcal", "search"}) : end[f] = p[f]
  BY <1>7, <1>10 DEF Within, Regs, PhyFields, Levelling
<1>12. end.iqcal = ch
  BY <1>8, <1>9 DEF Within, Regs, PhyFields, Results
<1>13. Free(end.search) /\ end.search.hang = p.search.hang
  BY <1>7, <1>11, SearchValues DEF Good
<1> QED
  BY <1>1, <1>11, <1>12, <1>13

(***************************************************************************)
(* The end of the sequence, and the recalculation.                         *)
(***************************************************************************)
LEMMA CtlInit ==
  ASSUME NEW power, PowerOk(power)
  PROVE  LET set == [power EXCEPT !.init = Both(Start)]
         IN PowerOk(set) /\ set.ctrl = power.ctrl /\ set.on = power.on /\ set.idx = power.idx
<1>1. Both(Start) \in [Cores -> Indices]
  BY IndexTypes DEF Both
<1> QED
  BY <1>1 DEF PowerOk, PowerFields

LEMMA IdleSets ==
  ASSUME NEW p, Good(p), Off(p.power), p.multSave = <<>>, NEW memory, NEW ch
  PROVE  /\ Within(p, CtlSetup(IdleTssi(p, memory, ch)), Power)
         /\ Off(CtlSetup(IdleTssi(p, memory, ch)).power)
         /\ CtlSetup(IdleTssi(p, memory, ch)).power.idx = p.power.idx
<1> DEFINE tssi == IdleTssi(p, memory, ch)
           set == CtlSetup(tssi)
<1>1. Within(p, tssi, Regs)
  BY IdleTssiToo
<1> HIDE DEF tssi
<1>2. Good(tssi) /\ tssi.power = p.power
  BY <1>1 DEF Within, Regs, PhyFields, Levelling
<1>3. Within(tssi, set, {"power"}) /\ set.power = [tssi.power EXCEPT !.init = Both(Start)]
  BY <1>2, CtlSetupSets
<1> HIDE DEF set
<1>4. Within(p, set, Power)
  <2>1. Within(p, tssi, Power) /\ Within(tssi, set, Power)
    BY <1>1, <1>3, WithinMore DEF Power
  <2> QED
    BY <2>1, WithinThen
<1>5. Off(set.power) /\ set.power.idx = p.power.idx
  BY <1>2, <1>3, CtlInit DEF Off
<1> QED
  BY <1>4, <1>5 DEF set, tssi

LEMMA OnSets ==
  ASSUME NEW p, Good(p), PowerOk(p.power)
  PROVE  /\ Within(p, TxPowerCtrl(p, TRUE), Power) /\ PowerOk(TxPowerCtrl(p, TRUE).power)
         /\ TxPowerCtrl(p, TRUE).power.ctrl = TRUE /\ TxPowerCtrl(p, TRUE).power.on = TRUE
         /\ p.power.idx \in [Cores -> Indices] => TxPowerCtrl(p, TRUE).power.index = p.power.idx
<1> DEFINE on == TxPowerCtrl(p, TRUE)
           switched == Switched(p.power, TRUE)
<1>1. Within(p, on, Power) /\ on.power = switched
  BY TxPowerCtrlSets
<1>2. /\ PowerOk(switched) /\ switched.ctrl = TRUE /\ switched.on = TRUE
      /\ p.power.idx \in [Cores -> Indices] => switched.index = p.power.idx
  BY SwitchedOn
<1> HIDE DEF on, switched
<1> QED
  BY <1>1, <1>2 DEF on

LEMMA RecalcSets ==
  ASSUME NEW p, Good(p), PowerOk(p.power), NEW last
  PROVE  LET q == [TxPowerCtrl(CtlSetup(p), TRUE) EXCEPT !.last = last]
         IN  /\ Within(p, q, Power \union {"last"}) /\ PowerOk(q.power)
             /\ q.power.ctrl = TRUE /\ q.power.on = TRUE
<1> DEFINE set == CtlSetup(p)
           on == TxPowerCtrl(set, TRUE)
           q == [on EXCEPT !.last = last]
<1>1. Within(p, set, {"power"}) /\ set.power = [p.power EXCEPT !.init = Both(Start)]
  BY CtlSetupSets
<1> HIDE DEF set
<1>2. Good(set) /\ PowerOk(set.power)
  BY <1>1, CtlInit DEF Within
<1>3. /\ Within(set, on, Power) /\ PowerOk(on.power)
      /\ on.power.ctrl = TRUE /\ on.power.on = TRUE
  BY <1>2, OnSets
<1> HIDE DEF on
<1>4. Good(on)
  BY <1>2, <1>3 DEF Within
<1>5. Within(on, q, {"last"}) /\ q.power = on.power
  BY <1>4, OneField DEF Good, PhyFields, Levelling, Results
<1> HIDE DEF q
<1>6. Within(p, q, Power \union {"last"})
  <2>1. /\ Within(p, set, Power \union {"last"}) /\ Within(set, on, Power \union {"last"})
        /\ Within(on, q, Power \union {"last"})
    BY <1>1, <1>3, <1>5, WithinMore DEF Power
  <2> QED
    BY <2>1, WithinThen
<1> QED
  BY <1>3, <1>5, <1>6 DEF q, on, set

(* What Tail makes of it: x is the index the loop had.                     *)
LEMMA TailSets ==
  ASSUME NEW p, Good(p), Typed(p), Off(p.power), NEW x \in [Cores -> Indices], p.power.idx = x
  PROVE  LET q == TxPowerCtrl(TxpwrIndex(TxpwrIndex(p, 0, x[0]), 1, x[1]), TRUE)
         IN  /\ Within(p, q, Forcing) /\ Typed(q) /\ PowerOk(q.power)
             /\ q.power.ctrl = TRUE /\ q.power.on = TRUE
             /\ q.power.index = x /\ q.gain = x /\ q.mult = x
<1> DEFINE r == TxpwrIndex(TxpwrIndex(p, 0, x[0]), 1, x[1])
           q == TxPowerCtrl(r, TRUE)
<1>1. x[0] \in Indices /\ x[1] \in Indices
  BY DEF Cores
<1>2. /\ Within(p, r, Forcing) /\ Good(r) /\ Typed(r) /\ Off(r.power)
      /\ r.power.idx = p.power.idx
      /\ r.gain = At(At(p.gain, 0, x[0]), 1, x[1]) /\ r.mult = At(At(p.mult, 0, x[0]), 1, x[1])
  BY <1>1, BothIndices
<1> HIDE DEF r
<1>3. r.gain = x /\ r.mult = x
  <2>1. \A y \in [Cores -> Levels] : At(At(y, 0, x[0]), 1, x[1]) = x
    BY AtBoth
  <2> QED
    BY <1>2, <2>1 DEF Typed
<1>4. /\ Within(r, q, Power) /\ PowerOk(q.power) /\ q.power.ctrl = TRUE /\ q.power.on = TRUE
      /\ q.power.index = x
  BY <1>2, OnSets DEF Off
<1> HIDE DEF q
<1>5. Typed(q) /\ q.gain = x /\ q.mult = x
  BY <1>2, <1>3, <1>4 DEF Within, Power, Regs, PhyFields, Levelling, Typed
<1>6. Within(p, q, Forcing)
  <2>1. Within(r, q, Forcing)
    BY <1>4, WithinMore DEF Forcing, Power
  <2> QED
    BY <1>2, <2>1, WithinThen
<1> QED
  BY <1>4, <1>5, <1>6 DEF q, r

(***************************************************************************)
(* The invariant holds when the driver is loaded.                          *)
(***************************************************************************)
LEMMA PreparedSets ==
  ASSUME NEW p, NEW of
  PROVE  LET q == Prepared(p, of)
         IN  /\ DOMAIN q = PhyFields /\ q.rev = of.rev
             /\ q.search = [hang |-> of.rev = 4, deaf |-> 0, class |-> FALSE, on |-> FALSE]
             /\ q.power = [ctrl |-> TRUE, on |-> FALSE, idx |-> Both(None),
                           init |-> Both(Start), index |-> Both(Start)]
             /\ q.forced = Both(None) /\ q.savedGain = Both(0) /\ q.savedMult = Both(0)
             /\ q.gain = Both(0) /\ q.mult = Both(0) /\ q.multSave = <<>>
             /\ q.pending = FALSE /\ q.iqcal = None
BY DEF Prepared, PhyFields, Regs, Levelling, Results

LEMMA BothTypes ==
  /\ Both(None) \in [Cores -> Indices \union {None}]
  /\ Both(0) \in [Cores -> Levels] /\ Both(Start) \in [Cores -> Indices]
  /\ Both(Cal) \in [Cores -> Levels]
<1>1. None \in Indices \union {None} /\ 0 \in Levels /\ Start \in Indices /\ Cal \in Levels
  BY IndexTypes DEF Silent
<1> QED
  BY <1>1 DEF Both

Ready(q, rev) ==
  /\ Good(q) /\ Free(q.search)
  /\ q.search.hang = IF rev = 4 THEN TRUE ELSE FALSE
  /\ PowerOk(q.power) /\ q.power.ctrl = TRUE /\ q.power.on = FALSE /\ Typed(q)

LEMMA PreparedOk ==
  ASSUME NEW p, NEW of, of.rev \in {4, 8}
  PROVE  Ready(Prepared(p, of), of.rev)
<1> DEFINE q == Prepared(p, of)
           s == [hang |-> of.rev = 4, deaf |-> 0, class |-> FALSE, on |-> FALSE]
<1>1. /\ DOMAIN q = PhyFields /\ q.search = s
      /\ q.power = [ctrl |-> TRUE, on |-> FALSE, idx |-> Both(None),
                    init |-> Both(Start), index |-> Both(Start)]
      /\ q.forced = Both(None) /\ q.savedGain = Both(0) /\ q.savedMult = Both(0)
      /\ q.gain = Both(0) /\ q.mult = Both(0)
  BY PreparedSets, ZenonT(60)
<1> HIDE DEF q
<1>2. Free(s) /\ s.hang = IF of.rev = 4 THEN TRUE ELSE FALSE
  BY DEF Free, SearchFields
<1> HIDE DEF s
<1>3. Good(q) /\ Free(q.search)
  BY <1>1, <1>2, SearchValues DEF Good
<1>4. PowerOk(q.power) /\ q.power.ctrl = TRUE /\ q.power.on = FALSE
  BY <1>1, BothTypes DEF PowerOk, PowerFields
<1>5. Typed(q)
  BY <1>1, BothTypes DEF Typed
<1> QED
  BY <1>1, <1>2, <1>3, <1>4, <1>5 DEF q, Ready

LEMMA InitInv == Init => CalInv
<1> SUFFICES ASSUME Init PROVE CalInv
  OBVIOUS
<1> DEFINE before == [last |-> <<>>]
           q == Prepared(before, board)
<1>1. phy = q /\ board \in [rev : Revs, ipa : BOOLEAN] /\ board.rev \in {4, 8}
  BY RevsAssumption DEF Init
<1> HIDE DEF before
<1>2. /\ Good(q) /\ Free(q.search)
      /\ q.search.hang = IF board.rev = 4 THEN TRUE ELSE FALSE
      /\ PowerOk(q.power) /\ q.power.ctrl = TRUE /\ q.power.on = FALSE /\ Typed(q)
  <2>1. Ready(q, board.rev)
    BY <1>1, PreparedOk
  <2> QED
    BY <2>1 DEF Ready
<1>3. /\ q.rev = board.rev /\ q.multSave = <<>> /\ q.pending = FALSE /\ q.iqcal = None
      /\ q.forced = Both(None)
  BY PreparedSets, ZenonT(60)
<1> HIDE DEF q
<1>4. pc = "down" /\ pc \notin InSequence /\ pc \notin Holding /\ pc \notin Measured
  BY DEF Init, InSequence, Holding, Measured
<1>5. Shape
  BY <1>1, <1>2, <1>3, <1>4 DEF Init, Shape, Good
<1>6. SearchHeld
  BY <1>1, <1>2, <1>3, <1>4 DEF SearchHeld
<1>7. MacCounted
  BY <1>4 DEF Init, MacCounted
<1>8. Leveled
  BY <1>1, <1>2, <1>4, BothTypes DEF Init, Leveled, NoLocal, LocalOk
<1>9. Remembered
  BY <1>1, <1>2, <1>3, <1>4 DEF Init, Remembered, Sequence, ForcedIndexGone, IndexRestored
<1>10. Together
  BY <1>1, <1>3, <1>4 DEF Together, Sequence, SavedTogether
<1> QED
  BY <1>5, <1>6, <1>7, <1>8, <1>9, <1>10 DEF CalInv

LEMMA GoodPhy ==
  ASSUME CalInv
  PROVE  /\ Good(phy) /\ PowerOk(phy.power) /\ Typed(phy) /\ phy.multSave = <<>>
         /\ pc \in Sequence => Off(phy.power)
<1>1. SearchOk(phy.search)
  BY SearchValues DEF CalInv, SearchHeld
<1> QED
  BY <1>1 DEF CalInv, Shape, SearchHeld, Leveled, Remembered, Good, Off

(***************************************************************************)
(* A step inside the sequence keeps the invariant.                         *)
(***************************************************************************)
(* What every one of them leaves alone, or leaves off.                     *)
Carried(p, q) ==
  /\ DOMAIN q = PhyFields /\ q.rev = p.rev /\ q.multSave = p.multSave
  /\ Typed(q) /\ Off(q.power) /\ q.power.idx = p.power.idx
  /\ q.internal = p.internal /\ q.atGain = p.atGain /\ q.pending = p.pending

LEMMA CarriedWithin ==
  ASSUME NEW p, Good(p), NEW q, Within(p, q, Forcing \union {"coeffs"}),
         Typed(q), Off(q.power), q.power.idx = p.power.idx
  PROVE  Carried(p, q)
BY DEF Within, Good, Carried, Forcing, Regs, PhyFields, Levelling, Results

LEMMA SearchCarried ==
  ASSUME CalInv, NEW fields, Within(phy, phy', fields), (pc \in Holding) <=> (pc' \in Holding)
  PROVE  /\ pc' \in Holding => Held(phy'.search)
         /\ pc' \notin Holding => Free(phy'.search)
         /\ phy'.search.hang = phy.search.hang
<1>1. Good(phy') /\ Same(phy.search, phy'.search)
  BY GoodPhy DEF Within
<1>2. SearchOk(phy'.search)
  BY <1>1 DEF Good
<1> QED
  BY <1>1, <1>2, SearchValues DEF CalInv, SearchHeld

LEMMA SequenceStep ==
  ASSUME CalInv, pc \in Sequence, pc' \in Sequence, Quiet, Carried(phy, phy'),
         local'.entry = TRUE, local'.ctrl = FALSE,
         LocalOk(local'),
         pc' \in Holding => Held(phy'.search), pc' \notin Holding => Free(phy'.search),
         phy'.search.hang = phy.search.hang,
         MacCounted', ForcedIndexGone',
         pc' \in Measured \union {"tx_iq_lo"} => phy'.iqcal = None,
         pc' \in Measured => phy'.coeffs = conf.channel,
         SavedTogether'
  PROVE  CalInv'
<1> USE DEF Quiet
<1>1. pc' \notin {"down", "idle", "recalc", "return"} /\ pc # "down" /\ pc' \in InSequence
      /\ pc' # "begin"
  BY DEF Sequence, InSequence
<1>2. Shape'
  BY <1>1 DEF CalInv, Shape, Carried
<1>3. SearchHeld'
  BY DEF CalInv, SearchHeld, Carried
<1>4. Leveled'
  BY <1>1 DEF CalInv, Leveled, Carried, Off
<1>5. phy'.pending = FALSE
  BY DEF CalInv, Together, Carried
<1>6. Remembered'
  <2>1. /\ phy'.power.ctrl = FALSE /\ phy'.power.on = FALSE
        /\ found' # <<>> /\ found'.index \in [Cores -> Indices]
        /\ phy'.power.idx = found'.index /\ phy'.atGain = found'.index
    BY DEF CalInv, Remembered, Carried, Off
  <2>2. IndexRestored'
    BY <1>1 DEF IndexRestored
  <2> QED
    BY <1>5, <2>1, <2>2 DEF Remembered
<1>7. Together'
  BY <1>1, <1>5 DEF Together
<1> QED
  BY <1>2, <1>3, <1>4, <1>6, <1>7 DEF CalInv

(* What the steps with a single chain or none of their own have in common. *)
LEMMA LocalKept ==
  ASSUME CalInv, pc \in Sequence, UNCHANGED local
  PROVE  /\ local'.entry = TRUE /\ local'.ctrl = FALSE
         /\ LocalOk(local')
BY DEF CalInv, Remembered, Leveled

LEMMA MacKept ==
  ASSUME CalInv, UNCHANGED <<mac, caller>>, pc \in Sequence \ {"papd", "rx"},
         pc' \in Sequence \ {"papd", "rx"}
  PROVE  MacCounted'
<1>1. pc \notin {"down", "idle"} /\ pc' \notin {"down", "idle"}
  BY DEF Sequence, InSequence
<1> QED
  BY <1>1 DEF CalInv, MacCounted, Base

LEMMA CalTxIqLoInv ==
  ASSUME CalInv, CalTxIqLo PROVE CalInv'
<1>1. PICK memory \in BOOLEAN :
        /\ phy' = TxCalibrated(phy, memory, conf.channel)
        /\ pc' = IF memory THEN "papd_medium" ELSE "tail"
  BY DEF CalTxIqLo, TxCalibrated, AfterFailure
<1>2. pc = "tx_iq_lo" /\ UNCHANGED <<mac, local>> /\ Quiet
  BY DEF CalTxIqLo
<1>3. /\ Good(phy) /\ Typed(phy) /\ phy.multSave = <<>> /\ Off(phy.power)
      /\ pc \in Sequence /\ pc' \in Sequence
  BY <1>1, <1>2, GoodPhy DEF Sequence, InSequence
<1>4. Within(phy, phy', Learning) /\ (memory => phy'.coeffs = conf.channel)
  BY <1>1, <1>3, TxCalSets
<1>5. /\ Typed(phy') /\ phy'.power = phy.power /\ phy'.iqcal = phy.iqcal
      /\ phy'.forced = phy.forced /\ phy'.gain = phy.gain /\ phy'.mult = phy.mult
  BY <1>3, <1>4 DEF Within, Learning, Regs, PhyFields, Levelling, Results, Typed
<1>6. Carried(phy, phy')
  <2>1. Within(phy, phy', Forcing \union {"coeffs"})
    BY <1>4, WithinMore DEF Learning, Forcing
  <2> QED
    BY <1>3, <1>5, <2>1, CarriedWithin
<1>7. /\ pc' \in Holding => Held(phy'.search)
      /\ pc' \notin Holding => Free(phy'.search)
      /\ phy'.search.hang = phy.search.hang
  <2>1. pc \notin Holding /\ pc' \notin Holding
    BY <1>1, <1>2 DEF Holding
  <2> QED
    BY <1>4, <2>1, SearchCarried
<1>8. MacCounted'
  BY <1>1, <1>2, <1>3, MacKept DEF Quiet
<1>9. ForcedIndexGone'
  BY <1>2, <1>5 DEF CalInv, Remembered, ForcedIndexGone, Quiet
<1>10. /\ phy'.iqcal = None
       /\ pc' \in Measured => phy'.coeffs = conf.channel
  BY <1>1, <1>2, <1>4, <1>5 DEF CalInv, Together, Measured
<1>11. SavedTogether'
  BY <1>10 DEF SavedTogether
<1> QED
  BY <1>2, <1>3, <1>6, <1>7, <1>8, <1>9, <1>10, <1>11, LocalKept, SequenceStep

LEMMA ReserveInv ==
  ASSUME CalInv, NEW from, NEW to, ReserveMedium(from, to),
         \/ from = "papd_medium" /\ to = "papd"
         \/ from = "rx_medium" /\ to = "rx"
  PROVE  CalInv'
<1>1. pc = from /\ pc' = to /\ mac' = mac - 1 /\ UNCHANGED <<phy, local>> /\ Quiet
  BY DEF ReserveMedium, Step
<1>2. pc \in Sequence /\ pc' \in Sequence /\ pc \notin Holding /\ pc' \notin Holding
  BY <1>1 DEF Sequence, InSequence, Holding
<1>3. Within(phy, phy', Learning)
  BY <1>1, WithinItself
<1>4. Carried(phy, phy')
  BY <1>1, <1>2, GoodPhy DEF Carried, Good
<1>5. /\ pc' \in Holding => Held(phy'.search)
      /\ pc' \notin Holding => Free(phy'.search)
      /\ phy'.search.hang = phy.search.hang
  BY <1>2, <1>3, SearchCarried
<1>6. MacCounted'
  <2>1. mac = Base
    BY <1>1 DEF CalInv, MacCounted
  <2> QED
    BY <1>1, <2>1 DEF MacCounted, Base, Quiet
<1>7. ForcedIndexGone'
  BY <1>1 DEF CalInv, Remembered, ForcedIndexGone, Quiet
<1>8. /\ phy'.iqcal = None
      /\ phy'.coeffs = conf.channel
  BY <1>1 DEF CalInv, Together, Measured
<1>9. SavedTogether'
  BY <1>8 DEF SavedTogether
<1> QED
  BY <1>1, <1>2, <1>4, <1>5, <1>6, <1>7, <1>8, <1>9, LocalKept, SequenceStep

LEMMA PapdEnterInv ==
  ASSUME CalInv, PapdEnter PROVE CalInv'
<1> DEFINE open == TxPowerCtrl(phy, FALSE)
           in == Listening(EnterSearch(open))
           q == TxPowerCtrl(in, FALSE)
<1>1. pc = "papd" /\ mac' = mac + 1 /\ Quiet
  BY DEF PapdEnter
<1>2. \/ /\ phy' = q /\ pc' = "papd_0"
         /\ local' = [local EXCEPT !.bbcfg = in.cell.BBCFG[0], !.mult = in.mult,
                                   !.ctrl = in.power.ctrl]
      \/ phy' = open /\ pc' = "rx_medium" /\ local' = local
  BY DEF PapdEnter
<1>3. /\ Good(phy) /\ Typed(phy) /\ phy.multSave = <<>> /\ Off(phy.power)
      /\ pc \in Sequence /\ pc' \in Sequence /\ pc \notin Holding
      /\ pc' \in Measured /\ pc' \notin {"tx_iq_lo", "papd_medium", "papd", "rx", "down", "idle"}
  BY <1>1, <1>2, GoodPhy DEF Sequence, InSequence, Holding, Measured
<1>4. /\ Good(q) /\ Off(q.power) /\ q.power.idx = phy.power.idx
      /\ Free(phy.search) => Held(q.search) /\ q.search.hang = phy.search.hang
      /\ \A f \in PhyFields \ (Power \union {"search"}) : q[f] = phy[f]
      /\ in.mult = phy.mult /\ in.power.ctrl = FALSE
  BY <1>3, PapdEnterSets
<1>5. Within(phy, open, Power) /\ Off(open.power) /\ open.power.idx = phy.power.idx
  BY <1>3, OffAgain
<1> HIDE DEF open, in, q
<1>6. Free(phy.search)
  BY <1>3 DEF CalInv, SearchHeld
<1>7. /\ Off(phy'.power) /\ phy'.power.idx = phy.power.idx /\ DOMAIN phy' = PhyFields
      /\ \A f \in PhyFields \ (Power \union {"search"}) : phy'[f] = phy[f]
  BY <1>2, <1>3, <1>4, <1>5 DEF Within, Good
<1>8. /\ Typed(phy') /\ phy'.rev = phy.rev /\ phy'.multSave = phy.multSave
      /\ phy'.internal = phy.internal /\ phy'.atGain = phy.atGain /\ phy'.pending = phy.pending
      /\ phy'.iqcal = phy.iqcal /\ phy'.coeffs = phy.coeffs
  BY <1>3, <1>7 DEF Power, Regs, PhyFields, Levelling, Results, Typed
<1>9. Carried(phy, phy')
  BY <1>7, <1>8 DEF Carried
<1>10. /\ pc' \in Holding => Held(phy'.search)
       /\ pc' \notin Holding => Free(phy'.search)
       /\ phy'.search.hang = phy.search.hang
  <2>1. CASE phy' = q /\ pc' = "papd_0"
    BY <1>4, <1>6, <2>1 DEF Holding
  <2>2. CASE phy' = open /\ pc' = "rx_medium"
    <3>1. pc' \notin Holding
      BY <2>2 DEF Holding
    <3> QED
      BY <1>3, <1>5, <2>2, <3>1, SearchCarried
  <2> QED
    BY <1>2, <2>1, <2>2
<1>11. MacCounted'
  <2>1. mac = Base - 1
    BY <1>1 DEF CalInv, MacCounted
  <2> QED
    BY <1>1, <1>3, <2>1 DEF MacCounted, Base, Quiet
<1>12. /\ local'.entry = TRUE /\ local'.ctrl = FALSE
       /\ LocalOk(local')
  BY <1>2, <1>3, <1>4 DEF CalInv, Remembered, Leveled, LocalOk, Typed
<1>13. ForcedIndexGone'
  BY <1>3 DEF ForcedIndexGone
<1>14. phy'.iqcal = None /\ phy'.coeffs = conf.channel
  BY <1>1, <1>8 DEF CalInv, Together, Measured
<1>15. SavedTogether'
  BY <1>14 DEF SavedTogether
<1> QED
  BY <1>1, <1>3, <1>9, <1>10, <1>11, <1>12, <1>13, <1>14, <1>15, SequenceStep

LEMMA PapdPassInv ==
  ASSUME CalInv, NEW c \in Cores, NEW from, NEW to, PapdPass(c, from, to),
         \/ from = "papd_0" /\ to = "papd_1"
         \/ from = "papd_1" /\ to = "papd_out"
  PROVE  CalInv'
<1>1. PICK memory \in BOOLEAN : phy' = PapdPassed(phy, c, memory, local.mult)
  BY Zenon DEF PapdPass, PapdPassed
<1>2. pc = from /\ pc' = to /\ UNCHANGED <<mac, local>> /\ Quiet
  BY DEF PapdPass, Step
<1>3. /\ Good(phy) /\ Typed(phy) /\ phy.multSave = <<>> /\ Off(phy.power)
      /\ pc \in Sequence \ {"papd", "rx"} /\ pc' \in Sequence \ {"papd", "rx"}
      /\ pc \in Holding /\ pc' \in Holding
      /\ pc \in Measured /\ pc' \notin {"tx_iq_lo", "papd_medium", "papd"}
  BY <1>2, GoodPhy DEF Sequence, InSequence, Holding, Measured
<1>4. Within(phy, phy', Looping) /\ phy'.mult = local.mult
  BY <1>1, <1>3, PapdPassedSets
<1>5. /\ Typed(phy') /\ phy'.power = phy.power
      /\ phy'.iqcal = phy.iqcal /\ phy'.coeffs = phy.coeffs
  <2>1. local.mult \in [Cores -> Levels]
    BY DEF CalInv, Leveled, LocalOk
  <2> QED
    BY <1>3, <1>4, <2>1 DEF Within, Looping, Regs, PhyFields, Levelling, Results, Typed
<1>6. Carried(phy, phy')
  <2>1. Within(phy, phy', Forcing \union {"coeffs"})
    BY <1>4, WithinMore DEF Looping, Forcing
  <2> QED
    BY <1>3, <1>5, <2>1, CarriedWithin
<1>7. /\ pc' \in Holding => Held(phy'.search)
      /\ pc' \notin Holding => Free(phy'.search)
      /\ phy'.search.hang = phy.search.hang
  BY <1>3, <1>4, SearchCarried
<1>8. MacCounted'
  BY <1>2, <1>3, MacKept DEF Quiet
<1>9. ForcedIndexGone'
  BY <1>3 DEF ForcedIndexGone
<1>10. phy'.iqcal = None /\ phy'.coeffs = conf.channel
  BY <1>3, <1>5 DEF CalInv, Together
<1>11. SavedTogether'
  BY <1>10 DEF SavedTogether
<1> QED
  BY <1>2, <1>3, <1>6, <1>7, <1>8, <1>9, <1>10, <1>11, LocalKept, SequenceStep

LEMMA PapdLeaveInv ==
  ASSUME CalInv, PapdLeave PROVE CalInv'
<1> DEFINE on == [phy EXCEPT !.cell.PAPD_EN = Marked(@, Cores, {"on"}),
                             !.cell.BBCFG[0] = local.bbcfg]
<1>1. phy' = PapdLeft(phy, on, local.ctrl)
  BY Zenon DEF PapdLeave, PapdLeft
<1>2. pc = "papd_out" /\ pc' = "rx_medium" /\ UNCHANGED <<mac, local>> /\ Quiet
  BY DEF PapdLeave, Step
<1>3. /\ Good(phy) /\ Typed(phy) /\ phy.multSave = <<>> /\ Off(phy.power)
      /\ phy.internal = Internal /\ local.ctrl = FALSE /\ Held(phy.search)
      /\ pc \in Sequence \ {"papd", "rx"} /\ pc' \in Sequence \ {"papd", "rx"}
      /\ pc' \notin Holding /\ pc \in Measured /\ pc' \notin {"tx_iq_lo", "papd_medium", "papd"}
  <2>1. pc \in Sequence \ {"papd", "rx"} /\ pc' \in Sequence \ {"papd", "rx"}
        /\ pc \in Holding /\ pc' \notin Holding /\ pc # "down"
        /\ pc \in Measured /\ pc' \notin {"tx_iq_lo", "papd_medium", "papd"}
    BY <1>2 DEF Sequence, InSequence, Holding, Measured
  <2> QED
    BY <2>1, GoodPhy DEF CalInv, Leveled, Remembered, SearchHeld
<1>4. Within(phy, on, Regs)
  <2> DEFINE x == Marked(phy.cell.PAPD_EN, Cores, {"on"})
             y == local.bbcfg
  <2>1. on = [phy EXCEPT !.cell.PAPD_EN = x, !.cell.BBCFG[0] = y]
    OBVIOUS
  <2> HIDE DEF on, x, y
  <2>2. on = Writes(phy, [phy.cell EXCEPT !.PAPD_EN = x, !.BBCFG[0] = y])
    BY <2>1, Zenon DEF Writes
  <2> QED
    BY <2>2, WithinItself, Written
<1>5. phy' = PapdLeft(phy, on, FALSE)
  BY <1>1, <1>3
<1> HIDE DEF on
<1>6. PICK back : /\ PapdLeft(phy, on, FALSE) = LeaveSearch(back)
                  /\ Within(phy, back, Forcing) /\ Typed(back)
                  /\ Off(back.power) /\ back.power.idx = phy.power.idx
  BY <1>3, <1>4, PapdLeftSets
<1>7. Good(back) /\ Same(phy.search, back.search)
  BY <1>3, <1>6 DEF Within
<1>8. /\ DOMAIN phy' = PhyFields /\ phy'.search = Left(back.search)
      /\ \A f \in PhyFields \ {"search"} : phy'[f] = back[f]
  BY <1>5, <1>6, <1>7, LeaveValues DEF Good
<1>9. Free(phy'.search) /\ phy'.search.hang = phy.search.hang
  <2>1. Held(back.search) /\ back.search.hang = phy.search.hang
    BY <1>3, <1>7, SearchValues DEF Good
  <2> QED
    BY <1>8, <2>1, SearchValues
<1>10. /\ Typed(phy') /\ phy'.power = back.power /\ phy'.rev = phy.rev
       /\ phy'.multSave = phy.multSave /\ phy'.internal = phy.internal
       /\ phy'.atGain = phy.atGain /\ phy'.pending = phy.pending
       /\ phy'.iqcal = phy.iqcal /\ phy'.coeffs = phy.coeffs
  BY <1>3, <1>6, <1>8 DEF Within, Forcing, Regs, PhyFields, Levelling, Results, Typed
<1>11. Carried(phy, phy')
  BY <1>6, <1>8, <1>10 DEF Carried
<1>12. MacCounted'
  BY <1>2, <1>3, MacKept DEF Quiet
<1>13. ForcedIndexGone'
  BY <1>3 DEF ForcedIndexGone
<1>14. phy'.iqcal = None /\ phy'.coeffs = conf.channel
  BY <1>3, <1>10 DEF CalInv, Together
<1>15. SavedTogether'
  BY <1>14 DEF SavedTogether
<1> QED
  BY <1>2, <1>3, <1>9, <1>11, <1>12, <1>13, <1>14, <1>15, LocalKept, SequenceStep

LEMMA RxEnterInv ==
  ASSUME CalInv, RxEnter PROVE CalInv'
<1> DEFINE in == Listening(phy)
           gain == [in EXCEPT !.gain = Both(Cal)]
<1>1. /\ pc = "rx" /\ pc' = "rx_0" /\ mac' = mac + 1 /\ Quiet
      /\ phy' = EnterSearch(gain)
      /\ local' = [local EXCEPT !.bbcfg = phy.cell.BBCFG[0], !.gain = phy.gain]
  BY DEF RxEnter, Step
<1>2. /\ Good(phy) /\ Typed(phy) /\ phy.multSave = <<>> /\ Off(phy.power) /\ Free(phy.search)
      /\ pc \in Sequence /\ pc' \in Sequence /\ pc \in Measured /\ pc' \in Holding
      /\ pc' \notin {"tx_iq_lo", "papd_medium", "papd", "rx", "down", "idle"}
  <2>1. /\ pc \in Sequence /\ pc' \in Sequence /\ pc \in Measured /\ pc \notin Holding
        /\ pc' \in Holding
        /\ pc' \notin {"tx_iq_lo", "papd_medium", "papd", "rx", "down", "idle"}
    BY <1>1 DEF Sequence, InSequence, Measured, Holding
  <2> QED
    BY <2>1, GoodPhy DEF CalInv, SearchHeld
<1>3. Within(phy, in, Regs)
  BY WithinItself, ListeningToo
<1> HIDE DEF in
<1>4. Good(in)
  BY <1>2, <1>3 DEF Within
<1>5. Within(in, gain, {"gain"}) /\ gain.gain = Both(Cal)
  BY <1>4, OneField DEF Good, PhyFields, Levelling
<1> HIDE DEF gain
<1>6. /\ Good(gain) /\ Same(phy.search, gain.search)
      /\ \A f \in PhyFields \ (Regs \union {"gain", "search"}) : gain[f] = phy[f]
  <2>1. Within(phy, gain, Regs \union {"gain"})
    <3>1. Within(phy, in, Regs \union {"gain"}) /\ Within(in, gain, Regs \union {"gain"})
      BY <1>3, <1>5, WithinMore
    <3> QED
      BY <3>1, WithinThen
  <2> QED
    BY <1>2, <2>1 DEF Within
<1>7. /\ DOMAIN phy' = PhyFields /\ phy'.search = Entered(gain.search)
      /\ \A f \in PhyFields \ {"search"} : phy'[f] = gain[f]
  BY <1>1, <1>6, EnterValues DEF Good
<1>8. Held(phy'.search) /\ phy'.search.hang = phy.search.hang
  <2>1. Free(gain.search) /\ gain.search.hang = phy.search.hang
    BY <1>2, <1>6, SearchValues DEF Good
  <2> QED
    BY <1>7, <2>1, SearchValues
<1>9. /\ Typed(phy') /\ phy'.power = phy.power /\ phy'.rev = phy.rev
      /\ phy'.multSave = phy.multSave /\ phy'.internal = phy.internal
      /\ phy'.atGain = phy.atGain /\ phy'.pending = phy.pending
      /\ phy'.iqcal = phy.iqcal /\ phy'.coeffs = phy.coeffs
  BY <1>2, <1>5, <1>6, <1>7, BothTypes DEF Regs, PhyFields, Levelling, Results, Typed
<1>10. Carried(phy, phy')
  BY <1>2, <1>7, <1>9 DEF Carried
<1>11. MacCounted'
  <2>1. mac = Base - 1
    BY <1>1 DEF CalInv, MacCounted
  <2> QED
    BY <1>1, <1>2, <2>1 DEF MacCounted, Base, Quiet
<1>12. local'.entry = TRUE /\ local'.ctrl = FALSE /\ LocalOk(local')
  BY <1>1, <1>2 DEF CalInv, Remembered, Leveled, LocalOk, Typed
<1>13. ForcedIndexGone'
  BY <1>2 DEF ForcedIndexGone
<1>14. phy'.iqcal = None /\ phy'.coeffs = conf.channel
  BY <1>2, <1>9 DEF CalInv, Together
<1>15. SavedTogether'
  BY <1>14 DEF SavedTogether
<1> QED
  BY <1>1, <1>2, <1>8, <1>10, <1>11, <1>12, <1>13, <1>14, <1>15, SequenceStep

LEMMA RxPassInv ==
  ASSUME CalInv, NEW c \in Cores, NEW from, NEW to, RxPass(c, from, to),
         \/ from = "rx_0" /\ to = "rx_1"
         \/ from = "rx_1" /\ to = "rx_out"
  PROVE  CalInv'
<1>1. PICK memory \in BOOLEAN : phy' = RxPassed(phy, c, memory)
  BY Zenon DEF RxPass, RxPassed
<1>2. pc = from /\ pc' = to /\ UNCHANGED <<mac, local>> /\ Quiet
  BY DEF RxPass, Step
<1>3. /\ Good(phy) /\ Typed(phy) /\ phy.multSave = <<>> /\ Off(phy.power)
      /\ pc \in Sequence \ {"papd", "rx"} /\ pc' \in Sequence \ {"papd", "rx"}
      /\ pc \in Holding /\ pc' \in Holding
      /\ pc \in Measured /\ pc' \notin {"tx_iq_lo", "papd_medium", "papd"}
  BY <1>2, GoodPhy DEF Sequence, InSequence, Holding, Measured
<1>4. /\ Within(phy, phy', Forcing) /\ Typed(phy') /\ Off(phy'.power)
      /\ phy'.power.idx = phy.power.idx
  BY <1>1, <1>3, RxPassedSets
<1>5. phy'.iqcal = phy.iqcal /\ phy'.coeffs = phy.coeffs
  BY <1>3, <1>4 DEF Within, Forcing, Regs, PhyFields, Results
<1>6. Carried(phy, phy')
  <2>1. Within(phy, phy', Forcing \union {"coeffs"})
    BY <1>4, WithinMore
  <2> QED
    BY <1>3, <1>4, <2>1, CarriedWithin
<1>7. /\ pc' \in Holding => Held(phy'.search)
      /\ pc' \notin Holding => Free(phy'.search)
      /\ phy'.search.hang = phy.search.hang
  BY <1>3, <1>4, SearchCarried
<1>8. MacCounted'
  BY <1>2, <1>3, MacKept DEF Quiet
<1>9. ForcedIndexGone'
  BY <1>3 DEF ForcedIndexGone
<1>10. phy'.iqcal = None /\ phy'.coeffs = conf.channel
  BY <1>3, <1>5 DEF CalInv, Together
<1>11. SavedTogether'
  BY <1>10 DEF SavedTogether
<1> QED
  BY <1>2, <1>3, <1>6, <1>7, <1>8, <1>9, <1>10, <1>11, LocalKept, SequenceStep

LEMMA RxLeaveInv ==
  ASSUME CalInv, RxLeave PROVE CalInv'
<1> DEFINE cell == [phy.cell EXCEPT !.BBCFG[0] = local.bbcfg]
<1>1. phy' = RxLeft(phy, cell, local.gain, conf.channel)
  BY Zenon DEF Writes, RxLeave, RxLeft
<1>2. pc = "rx_out" /\ pc' = "idle_tssi" /\ UNCHANGED <<mac, local>> /\ Quiet
  BY DEF RxLeave, Step
<1> HIDE DEF cell
<1>3. /\ Good(phy) /\ Typed(phy) /\ phy.multSave = <<>> /\ Off(phy.power) /\ Held(phy.search)
      /\ pc \in Sequence \ {"papd", "rx"} /\ pc' \in Sequence \ {"papd", "rx"}
      /\ pc' \notin Holding /\ pc \in Measured
      /\ pc' \notin {"tx_iq_lo", "papd_medium", "papd"} /\ pc' \notin Measured
      /\ local.gain \in [Cores -> Levels]
  <2>1. /\ pc \in Sequence \ {"papd", "rx"} /\ pc' \in Sequence \ {"papd", "rx"}
        /\ pc \in Holding /\ pc' \notin Holding /\ pc \in Measured
        /\ pc' \notin {"tx_iq_lo", "papd_medium", "papd"} /\ pc' \notin Measured
    BY <1>2 DEF Sequence, InSequence, Holding, Measured
  <2> QED
    BY <2>1, GoodPhy DEF CalInv, SearchHeld, Leveled, LocalOk
<1>4. /\ Good(phy') /\ Free(phy'.search) /\ phy'.search.hang = phy.search.hang
      /\ \A f \in PhyFields \ (Regs \union {"gain", "iqcal", "search"}) : phy'[f] = phy[f]
      /\ phy'.gain = local.gain /\ phy'.iqcal = conf.channel
  BY <1>1, <1>3, RxLeftSets
<1>5. /\ Typed(phy') /\ phy'.power = phy.power /\ phy'.rev = phy.rev
      /\ phy'.multSave = phy.multSave /\ phy'.internal = phy.internal
      /\ phy'.atGain = phy.atGain /\ phy'.pending = phy.pending
      /\ phy'.coeffs = phy.coeffs
  BY <1>3, <1>4 DEF Regs, PhyFields, Levelling, Results, Typed
<1>6. Carried(phy, phy')
  BY <1>3, <1>4, <1>5 DEF Carried, Good
<1>7. MacCounted'
  BY <1>2, <1>3, MacKept DEF Quiet
<1>8. ForcedIndexGone'
  BY <1>3 DEF ForcedIndexGone
<1>9. SavedTogether'
  <2>1. phy.coeffs = conf.channel
    BY <1>3 DEF CalInv, Together
  <2> QED
    BY <1>4, <1>5, <2>1 DEF SavedTogether
<1> QED
  BY <1>2, <1>3, <1>4, <1>6, <1>7, <1>8, <1>9, LocalKept, SequenceStep

LEMMA MeasureIdleInv ==
  ASSUME CalInv, MeasureIdle PROVE CalInv'
<1>1. PICK memory \in BOOLEAN : phy' = CtlSetup(IdleTssi(phy, memory, conf.channel))
  BY Zenon DEF MeasureIdle
<1>2. pc = "idle_tssi" /\ pc' = "tail" /\ UNCHANGED <<mac, local>> /\ Quiet
  BY DEF MeasureIdle, Step
<1>3. /\ Good(phy) /\ Typed(phy) /\ phy.multSave = <<>> /\ Off(phy.power)
      /\ pc \in Sequence \ {"papd", "rx"} /\ pc' \in Sequence \ {"papd", "rx"}
      /\ pc \notin Holding /\ pc' \notin Holding
      /\ pc' \notin {"tx_iq_lo", "papd_medium", "papd"} /\ pc' \notin Measured
  BY <1>2, GoodPhy DEF Sequence, InSequence, Holding, Measured
<1>4. Within(phy, phy', Power) /\ Off(phy'.power) /\ phy'.power.idx = phy.power.idx
  BY <1>1, <1>3, IdleSets
<1>5. Typed(phy') /\ phy'.iqcal = phy.iqcal /\ phy'.coeffs = phy.coeffs
  BY <1>3, <1>4 DEF Within, Power, Regs, PhyFields, Levelling, Results, Typed
<1>6. Carried(phy, phy')
  <2>1. Within(phy, phy', Forcing \union {"coeffs"})
    BY <1>4, WithinMore DEF Power, Forcing
  <2> QED
    BY <1>3, <1>4, <1>5, <2>1, CarriedWithin
<1>7. /\ pc' \in Holding => Held(phy'.search)
      /\ pc' \notin Holding => Free(phy'.search)
      /\ phy'.search.hang = phy.search.hang
  BY <1>3, <1>4, SearchCarried
<1>8. MacCounted'
  BY <1>2, <1>3, MacKept DEF Quiet
<1>9. ForcedIndexGone'
  BY <1>3 DEF ForcedIndexGone
<1>10. SavedTogether'
  BY <1>5 DEF CalInv, Together, SavedTogether
<1> QED
  BY <1>2, <1>3, <1>6, <1>7, <1>8, <1>9, <1>10, LocalKept, SequenceStep

(***************************************************************************)
(* Into the sequence and out of it.                                        *)
(***************************************************************************)
LEMMA BeginInv ==
  ASSUME CalInv, Begin PROVE CalInv'
<1>1. /\ pc = "begin" /\ pc' = "tx_iq_lo" /\ UNCHANGED <<board, conf, mac, caller>>
      /\ local' = [NoLocal EXCEPT !.entry = phy.power.ctrl]
      /\ found' = [index |-> phy.power.index, gain |-> phy.gain, mult |-> phy.mult]
  BY DEF Begin, Step
<1>2. phy' = Begun(phy)
  BY Zenon DEF Begin, Begun
<1>3. /\ pc \notin Sequence /\ pc # "down" /\ pc' \in Sequence /\ pc' \in InSequence
      /\ pc \notin Holding /\ pc' \notin Holding /\ pc' \notin Measured
      /\ pc' \notin {"down", "idle", "papd", "rx", "begin", "return", "recalc"}
  BY <1>1 DEF Sequence, InSequence, Holding, Measured
<1>4. /\ Good(phy) /\ Typed(phy) /\ PowerOk(phy.power) /\ phy.multSave = <<>>
      /\ phy.power.ctrl = TRUE /\ phy.power.on = TRUE
      /\ phy.pending = TRUE /\ phy.forced = Both(None) /\ phy.iqcal = None
  BY <1>1, <1>3, GoodPhy DEF CalInv, Remembered, Together
<1>5. /\ Within(phy, phy', Beginning) /\ Typed(phy') /\ Off(phy'.power)
      /\ phy'.power.idx = phy.power.index /\ phy'.atGain = phy.power.index
      /\ phy'.forced = Both(None) /\ phy'.gain = phy.gain /\ phy'.mult = phy.mult
      /\ phy'.pending = FALSE
  BY <1>2, <1>4, BegunSets
<1>6. /\ Good(phy') /\ phy'.rev = phy.rev /\ phy'.multSave = <<>>
      /\ phy'.internal = phy.internal /\ phy'.iqcal = phy.iqcal
  BY <1>4, <1>5 DEF Within, Beginning, Forcing, Regs, PhyFields, Levelling, Results
<1>7. /\ found'.index = phy.power.index /\ found'.gain = phy.gain /\ found'.mult = phy.mult
      /\ found' # <<>>
  <2>1. DOMAIN found' = {"index", "gain", "mult"} /\ DOMAIN <<>> = {}
    BY <1>1
  <2>2. found' # <<>>
    BY <2>1
  <2> QED
    BY <1>1, <2>2
<1>8. local'.entry = TRUE /\ local'.ctrl = FALSE /\ LocalOk(local')
  BY <1>1, <1>4, BothTypes DEF NoLocal, LocalOk
<1>9. Shape'
  BY <1>1, <1>3, <1>6 DEF CalInv, Shape, Good
<1>10. SearchHeld'
  <2>1. /\ Free(phy'.search) /\ phy'.search.hang = phy.search.hang
    BY <1>3, <1>5, SearchCarried
  <2> QED
    BY <1>1, <1>3, <1>6, <2>1 DEF CalInv, SearchHeld
<1>11. MacCounted'
  BY <1>1 DEF CalInv, MacCounted, Base
<1>12. Leveled'
  BY <1>3, <1>5, <1>6, <1>8 DEF CalInv, Leveled, Off
<1>13. Remembered'
  <2>1. found'.index \in [Cores -> Indices]
    BY <1>4, <1>7 DEF PowerOk
  <2>2. ForcedIndexGone'
    BY <1>5, <1>7 DEF ForcedIndexGone
  <2>3. IndexRestored'
    BY <1>3 DEF IndexRestored
  <2> QED
    BY <1>3, <1>5, <1>7, <1>8, <2>1, <2>2, <2>3 DEF Remembered, Off
<1>14. Together'
  BY <1>3, <1>4, <1>5, <1>6 DEF Together, SavedTogether
<1> QED
  BY <1>9, <1>10, <1>11, <1>12, <1>13, <1>14 DEF CalInv

LEMMA TailInv ==
  ASSUME CalInv, Tail PROVE CalInv'
<1>1. pc = "tail" /\ pc' = "return" /\ UNCHANGED <<mac, local>> /\ Quiet
  BY DEF Tail, Step
<1>2. /\ pc \in Sequence /\ pc' \notin Sequence /\ pc' \notin InSequence /\ pc # "down"
      /\ pc \notin Holding /\ pc' \notin Holding /\ pc' \notin Measured
      /\ pc' \notin {"down", "idle", "papd", "rx", "begin", "tx_iq_lo"}
      /\ pc \notin {"down", "idle", "papd", "rx"}
  BY <1>1 DEF Sequence, InSequence, Holding, Measured
<1> DEFINE x == phy.atGain
<1>3. /\ Good(phy) /\ Typed(phy) /\ Off(phy.power) /\ phy.multSave = <<>>
      /\ x \in [Cores -> Indices] /\ phy.power.idx = x /\ found.index = x
      /\ local.entry = TRUE /\ phy.pending = FALSE
  BY <1>2, GoodPhy DEF CalInv, Remembered, Together
<1>4. phy' = TxPowerCtrl(TxpwrIndex(TxpwrIndex(phy, 0, x[0]), 1, x[1]), TRUE)
  BY <1>3 DEF Tail
<1> HIDE DEF x
<1>5. /\ Within(phy, phy', Forcing) /\ Typed(phy') /\ PowerOk(phy'.power)
      /\ phy'.power.ctrl = TRUE /\ phy'.power.on = TRUE
      /\ phy'.power.index = x /\ phy'.gain = x /\ phy'.mult = x
  BY <1>3, <1>4, TailSets
<1>6. /\ Good(phy') /\ phy'.rev = phy.rev /\ phy'.multSave = <<>>
      /\ phy'.internal = phy.internal /\ phy'.pending = FALSE
      /\ phy'.iqcal = phy.iqcal /\ phy'.coeffs = phy.coeffs
  BY <1>3, <1>5 DEF Within, Forcing, Regs, PhyFields, Levelling, Results
<1>7. Shape'
  BY <1>1, <1>6 DEF CalInv, Shape, Good, Quiet
<1>8. SearchHeld'
  <2>1. /\ Free(phy'.search) /\ phy'.search.hang = phy.search.hang
    BY <1>2, <1>5, SearchCarried
  <2> QED
    BY <1>1, <1>2, <1>6, <2>1 DEF CalInv, SearchHeld, Quiet
<1>9. MacCounted'
  BY <1>1, <1>2 DEF CalInv, MacCounted, Base, Quiet
<1>10. Leveled'
  BY <1>1, <1>2, <1>5, <1>6 DEF CalInv, Leveled
<1>11. Remembered'
  <2>1. ForcedIndexGone'
    BY <1>1 DEF ForcedIndexGone
  <2>2. IndexRestored'
    BY <1>1, <1>3, <1>5 DEF IndexRestored, Quiet
  <2> QED
    BY <1>1, <1>2, <1>5, <1>6, <2>1, <2>2 DEF Remembered
<1>12. Together'
  BY <1>2, <1>6 DEF CalInv, Together, SavedTogether
<1> QED
  BY <1>7, <1>8, <1>9, <1>10, <1>11, <1>12 DEF CalInv

(***************************************************************************)
(* The steps outside the sequence.                                         *)
(***************************************************************************)
LEMMA OutsideStep ==
  ASSUME CalInv, pc' \in {"down", "idle", "recalc", "return", "begin"},
         board' = board, conf' \in [channel : Channels, desired : Powers \union {0}],
         Good(phy'), Free(phy'.search), phy'.search.hang = phy.search.hang,
         phy'.rev = phy.rev, phy'.multSave = <<>>,
         PowerOk(phy'.power), Typed(phy'), phy'.power.ctrl = TRUE,
         pc' # "down" => phy'.power.on = TRUE /\ phy'.internal = Internal,
         LocalOk(local'), MacCounted', found' = <<>>,
         phy'.pending \in BOOLEAN,
         phy'.pending = TRUE => phy'.forced = Both(None) /\ phy'.iqcal = None,
         pc' = "begin" => phy'.pending = TRUE,
         SavedTogether'
  PROVE  CalInv'
<1>1. /\ pc' \notin Sequence /\ pc' \notin Holding /\ pc' \notin Measured
      /\ pc' \in InSequence \union {"down", "idle", "recalc", "return"}
      /\ pc' \notin {"tx_iq_lo", "papd_medium", "papd"}
  BY DEF Sequence, InSequence, Holding, Measured
<1>2. Shape'
  BY <1>1 DEF CalInv, Shape, Good
<1>3. SearchHeld'
  BY <1>1 DEF CalInv, SearchHeld
<1>4. Leveled'
  BY DEF Leveled
<1>5. Remembered'
  <2>1. ForcedIndexGone' /\ IndexRestored'
    BY <1>1 DEF ForcedIndexGone, IndexRestored
  <2> QED
    BY <1>1, <2>1 DEF Remembered
<1>6. Together'
  BY <1>1 DEF Together
<1> QED
  BY <1>2, <1>3, <1>4, <1>5, <1>6 DEF CalInv

(* What holds at rest.                                                     *)
LEMMA AtRest ==
  ASSUME CalInv, pc \in {"down", "idle", "recalc"}
  PROVE  /\ Good(phy) /\ Free(phy.search) /\ phy.multSave = <<>>
         /\ PowerOk(phy.power) /\ Typed(phy) /\ phy.power.ctrl = TRUE
         /\ pc # "down" => phy.power.on = TRUE /\ phy.internal = Internal
         /\ LocalOk(local) /\ found = <<>> /\ phy.pending \in BOOLEAN
         /\ phy.pending = TRUE => phy.forced = Both(None) /\ phy.iqcal = None
         /\ conf \in [channel : Channels, desired : Powers \union {0}]
         /\ SavedTogether
<1>1. pc \notin Sequence /\ pc \notin Holding /\ pc # "return"
  BY DEF Sequence, InSequence, Holding
<1> QED
  BY <1>1, GoodPhy DEF CalInv, Shape, SearchHeld, Leveled, Remembered, Together

LEMMA PowerUpInv ==
  ASSUME CalInv, PowerUp PROVE CalInv'
<1> DEFINE q == Prepared(phy, board)
<1>1. PICK memory \in BOOLEAN :
        phy' = ChannelSetup(InitN(q, memory, conf.channel), conf.channel)
  BY Zenon DEF PowerUp
<1>2. /\ pc = "down" /\ pc' = "idle" /\ mac' = 0
      /\ UNCHANGED <<board, conf, caller, local, found>>
  BY DEF PowerUp
<1>3. board.rev \in {4, 8}
  BY RevsAssumption DEF CalInv, Shape
<1>4. Ready(q, board.rev)
  BY <1>3, PreparedOk
<1>5. /\ q.rev = board.rev /\ q.multSave = <<>> /\ q.pending = FALSE /\ q.iqcal = None
      /\ q.forced = Both(None)
  BY PreparedSets, ZenonT(60)
<1> HIDE DEF q
<1> DEFINE r == InitN(q, memory, conf.channel)
<1>6. /\ Good(q) /\ Free(q.search) /\ q.search.hang = phy.search.hang
      /\ PowerOk(q.power) /\ q.power.ctrl = TRUE /\ Typed(q)
  BY <1>4 DEF Ready, CalInv, SearchHeld
<1>7. /\ Within(q, r, Bringing) /\ PowerOk(r.power) /\ r.power.ctrl = TRUE
      /\ r.power.on = TRUE /\ r.internal = Internal
      /\ r.gain = At(At(q.gain, 0, Internal), 1, Internal)
      /\ r.mult = At(At(q.mult, 0, Internal), 1, Internal)
      /\ r.pending = Schedules(q)
  <2>1. Fresh(q)
    BY <1>5, <1>6 DEF Fresh
  <2>2. Brought(q, r)
    BY <1>6, <2>1, InitNSets
  <2> HIDE DEF r
  <2> QED
    BY <2>2 DEF Brought
<1> HIDE DEF r
<1>8. /\ Good(r) /\ Same(q.search, r.search) /\ r.rev = q.rev /\ r.multSave = <<>>
      /\ r.forced = Both(None) /\ r.savedGain = q.savedGain /\ r.savedMult = q.savedMult
      /\ r.iqcal = None
  BY <1>5, <1>6, <1>7 DEF Within, Bringing, Fixing, Gains, Regs, PhyFields, Levelling, Results
<1>9. Typed(r)
  <2>1. Internal \in Levels /\ 0 \in Cores /\ 1 \in Cores
    BY IndexTypes DEF Cores
  <2>2. /\ At(q.gain, 0, Internal) \in [Cores -> Levels]
        /\ At(q.mult, 0, Internal) \in [Cores -> Levels]
    BY <1>6, <2>1, AtTypes DEF Typed
  <2>3. r.gain \in [Cores -> Levels] /\ r.mult \in [Cores -> Levels]
    <3>1. \A pair \in [Cores -> Levels] : At(pair, 1, Internal) \in [Cores -> Levels]
      BY <2>1, AtTypes
    <3> QED
      BY <1>7, <2>2, <3>1
  <2> QED
    BY <1>6, <1>8, <2>3, BothTypes DEF Typed
<1>10. Within(r, phy', Regs)
  BY <1>1, <1>7, <1>8, ChannelSetupToo DEF r
<1>11. /\ Good(phy') /\ Same(r.search, phy'.search) /\ phy'.rev = phy.rev
       /\ phy'.multSave = <<>> /\ phy'.power = r.power /\ phy'.internal = Internal
       /\ phy'.forced = Both(None) /\ phy'.iqcal = None /\ phy'.pending = Schedules(q)
  BY <1>5, <1>7, <1>8, <1>10 DEF Within, Regs, PhyFields, Levelling, Results, CalInv, Shape
<1>12. Typed(phy')
  BY <1>8, <1>9, <1>10 DEF Within, Regs, PhyFields, Levelling, Typed
<1>13. Free(phy'.search) /\ phy'.search.hang = phy.search.hang
  <2>1. Free(r.search) /\ r.search.hang = phy.search.hang
    BY <1>6, <1>8, SearchValues DEF Good
  <2> QED
    BY <1>11, <2>1, SearchValues DEF Good
<1>14. phy'.pending \in BOOLEAN
  BY <1>11 DEF Schedules
<1>15. MacCounted'
  BY <1>2 DEF MacCounted
<1>16. SavedTogether'
  BY <1>11 DEF SavedTogether
<1>17. /\ LocalOk(local') /\ found' = <<>>
       /\ conf' \in [channel : Channels, desired : Powers \union {0}]
  BY <1>2, AtRest
<1> QED
  BY <1>2, <1>7, <1>11, <1>12, <1>13, <1>14, <1>15, <1>16, <1>17, OutsideStep

(* Steps that leave the PHY alone, or write registers only.                *)
LEMMA RegsOnly ==
  ASSUME CalInv, pc \in {"idle", "recalc"}, Within(phy, phy', Regs)
  PROVE  /\ Good(phy') /\ Free(phy'.search) /\ phy'.search.hang = phy.search.hang
         /\ phy'.rev = phy.rev /\ phy'.multSave = <<>>
         /\ PowerOk(phy'.power) /\ Typed(phy') /\ phy'.power.ctrl = TRUE
         /\ phy'.power.on = TRUE /\ phy'.internal = Internal
         /\ phy'.pending = phy.pending /\ phy'.pending \in BOOLEAN
         /\ phy'.pending = TRUE => phy'.forced = Both(None) /\ phy'.iqcal = None
         /\ SavedTogether'
<1>1. /\ Good(phy) /\ Free(phy.search) /\ phy.multSave = <<>>
      /\ PowerOk(phy.power) /\ Typed(phy) /\ phy.power.ctrl = TRUE
      /\ phy.power.on = TRUE /\ phy.internal = Internal /\ phy.pending \in BOOLEAN
      /\ phy.pending = TRUE => phy.forced = Both(None) /\ phy.iqcal = None
      /\ SavedTogether
  BY AtRest
<1>2. /\ Good(phy') /\ Same(phy.search, phy'.search) /\ phy'.rev = phy.rev
      /\ phy'.multSave = phy.multSave /\ phy'.power = phy.power
      /\ phy'.internal = phy.internal /\ phy'.pending = phy.pending
      /\ phy'.forced = phy.forced /\ phy'.iqcal = phy.iqcal /\ phy'.coeffs = phy.coeffs
  BY <1>1 DEF Within, Regs, PhyFields, Levelling, Results
<1>3. Typed(phy')
  BY <1>1 DEF Within, Regs, PhyFields, Levelling, Typed
<1>4. Free(phy'.search) /\ phy'.search.hang = phy.search.hang
  BY <1>1, <1>2, SearchValues DEF Good
<1>5. SavedTogether'
  BY <1>1, <1>2 DEF SavedTogether
<1> QED
  BY <1>1, <1>2, <1>3, <1>4, <1>5

LEMMA ConfigInv ==
  ASSUME CalInv, NEW ch \in Channels, NEW power \in Powers, Config(ch, power)
  PROVE  CalInv'
<1>1. /\ pc = "idle" /\ mac' = mac + 1 /\ conf' = [channel |-> ch, desired |-> power]
      /\ phy' = IF ch = conf.channel THEN phy ELSE ChannelSetup(phy, ch)
      /\ pc' \in {"return", "recalc"} /\ caller' = "config"
      /\ UNCHANGED <<board, local, found>>
  BY DEF Config
<1>2. Within(phy, phy', Regs)
  <2>1. Within(phy, ChannelSetup(phy, ch), Regs)
    BY <1>1, AtRest, ChannelSetupToo
  <2> QED
    BY <1>1, <2>1, WithinItself
<1>3. /\ Good(phy') /\ Free(phy'.search) /\ phy'.search.hang = phy.search.hang
      /\ phy'.rev = phy.rev /\ phy'.multSave = <<>>
      /\ PowerOk(phy'.power) /\ Typed(phy') /\ phy'.power.ctrl = TRUE
      /\ phy'.power.on = TRUE /\ phy'.internal = Internal /\ phy'.pending \in BOOLEAN
      /\ phy'.pending = TRUE => phy'.forced = Both(None) /\ phy'.iqcal = None
      /\ SavedTogether'
  BY <1>1, <1>2, RegsOnly
<1>4. MacCounted'
  <2>1. mac = 0
    BY <1>1 DEF CalInv, MacCounted
  <2> QED
    BY <1>1, <2>1 DEF MacCounted, Base
<1>5. LocalOk(local') /\ found' = <<>>
  BY <1>1, AtRest
<1> QED
  BY <1>1, <1>3, <1>4, <1>5, OutsideStep

LEMMA RestInv ==
  ASSUME CalInv, PowerDown \/ Periodic PROVE CalInv'
<1>1. /\ pc = "idle" /\ UNCHANGED <<board, conf, phy, local, found>>
      /\ \/ pc' = "down" /\ mac' = mac + 1
         \/ pc' = "recalc" /\ mac' = mac /\ caller' = "work"
  BY DEF PowerDown, Periodic
<1>2. Within(phy, phy', Regs)
  BY <1>1, WithinItself
<1>3. /\ Good(phy') /\ Free(phy'.search) /\ phy'.search.hang = phy.search.hang
      /\ phy'.rev = phy.rev /\ phy'.multSave = <<>>
      /\ PowerOk(phy'.power) /\ Typed(phy') /\ phy'.power.ctrl = TRUE
      /\ phy'.power.on = TRUE /\ phy'.internal = Internal /\ phy'.pending \in BOOLEAN
      /\ phy'.pending = TRUE => phy'.forced = Both(None) /\ phy'.iqcal = None
      /\ SavedTogether'
  BY <1>1, <1>2, RegsOnly
<1>4. MacCounted'
  <2>1. mac = 0
    BY <1>1 DEF CalInv, MacCounted
  <2> QED
    BY <1>1, <2>1 DEF MacCounted, Base
<1>5. /\ LocalOk(local') /\ found' = <<>>
      /\ conf' \in [channel : Channels, desired : Powers \union {0}]
  BY <1>1, AtRest
<1> QED
  BY <1>1, <1>3, <1>4, <1>5, OutsideStep

LEMMA LoopSettlesInv ==
  ASSUME CalInv, LoopSettles PROVE CalInv'
<1>1. PICK index \in [Cores -> Loop] : phy' = [phy EXCEPT !.power.index = index]
  BY DEF LoopSettles
<1>2. pc = "idle" /\ UNCHANGED <<board, conf, mac, pc, caller, local, found>>
  BY DEF LoopSettles
<1> DEFINE power == [phy.power EXCEPT !.index = index]
<1>3. /\ Good(phy) /\ Free(phy.search) /\ phy.multSave = <<>>
      /\ PowerOk(phy.power) /\ Typed(phy) /\ phy.power.ctrl = TRUE
      /\ phy.power.on = TRUE /\ phy.internal = Internal
      /\ LocalOk(local) /\ found = <<>> /\ phy.pending \in BOOLEAN
      /\ phy.pending = TRUE => phy.forced = Both(None) /\ phy.iqcal = None
      /\ conf \in [channel : Channels, desired : Powers \union {0}]
      /\ SavedTogether
  BY <1>2, AtRest
<1>4. PowerOk(power) /\ power.ctrl = TRUE /\ power.on = TRUE
  <2>1. index \in [Cores -> Indices]
    BY IndexTypes
  <2> QED
    BY <1>3, <2>1 DEF PowerOk, PowerFields
<1>5. phy' = [phy EXCEPT !.power = power]
  BY <1>1
<1> HIDE DEF power
<1>6. Within(phy, phy', {"power"}) /\ phy'.power = power
  BY <1>3, <1>5, OneField DEF Good, PhyFields, Levelling
<1>7. /\ Good(phy') /\ Same(phy.search, phy'.search) /\ phy'.rev = phy.rev
      /\ phy'.multSave = <<>> /\ phy'.internal = Internal /\ phy'.pending = phy.pending
      /\ phy'.forced = phy.forced /\ phy'.iqcal = phy.iqcal /\ phy'.coeffs = phy.coeffs
  BY <1>3, <1>6 DEF Within, PhyFields, Levelling, Results
<1>8. Typed(phy')
  BY <1>3, <1>6 DEF Within, PhyFields, Levelling, Typed
<1>9. Free(phy'.search) /\ phy'.search.hang = phy.search.hang
  BY <1>3, <1>7, SearchValues DEF Good
<1>10. MacCounted'
  BY <1>2 DEF CalInv, MacCounted, Base
<1>11. SavedTogether'
  BY <1>3, <1>7 DEF SavedTogether
<1> QED
  BY <1>2, <1>3, <1>4, <1>6, <1>7, <1>8, <1>9, <1>10, <1>11, OutsideStep

LEMMA RecalcInv ==
  ASSUME CalInv, Recalc PROVE CalInv'
<1> DEFINE last == <<conf.channel, conf.desired>>
           q == [TxPowerCtrl(CtlSetup(phy), TRUE) EXCEPT !.last = last]
<1>1. /\ Good(phy) /\ Free(phy.search) /\ phy.multSave = <<>>
      /\ PowerOk(phy.power) /\ Typed(phy) /\ phy.power.ctrl = TRUE
      /\ phy.power.on = TRUE /\ phy.internal = Internal
      /\ LocalOk(local) /\ found = <<>> /\ phy.pending \in BOOLEAN
      /\ phy.pending = TRUE => phy.forced = Both(None) /\ phy.iqcal = None
      /\ conf \in [channel : Channels, desired : Powers \union {0}]
      /\ SavedTogether
  BY AtRest DEF Recalc
<1>2. /\ pc = "recalc" /\ UNCHANGED <<board, conf, mac, caller, local, found>>
      /\ \/ pc' = "return" /\ phy' = phy
         \/ phy' = q /\ pc' = IF phy.pending THEN "begin" ELSE "return"
  BY <1>1 DEF Recalc
<1>3. /\ Within(phy, q, Power \union {"last"}) /\ PowerOk(q.power)
      /\ q.power.ctrl = TRUE /\ q.power.on = TRUE
  BY <1>1, RecalcSets
<1> HIDE DEF q
<1>4. /\ Within(phy, phy', Power \union {"last"}) /\ PowerOk(phy'.power)
      /\ phy'.power.ctrl = TRUE /\ phy'.power.on = TRUE
  <2>1. CASE phy' = phy
    BY <1>1, <2>1, WithinItself
  <2>2. CASE phy' = q
    BY <1>3, <2>2
  <2> QED
    BY <1>2, <2>1, <2>2
<1>5. /\ Good(phy') /\ Same(phy.search, phy'.search) /\ phy'.rev = phy.rev
      /\ phy'.multSave = <<>> /\ phy'.internal = Internal /\ phy'.pending = phy.pending
      /\ phy'.forced = phy.forced /\ phy'.iqcal = phy.iqcal /\ phy'.coeffs = phy.coeffs
  BY <1>1, <1>4 DEF Within, Power, Regs, PhyFields, Levelling, Results
<1>6. Typed(phy')
  BY <1>1, <1>4 DEF Within, Power, Regs, PhyFields, Levelling, Typed
<1>7. Free(phy'.search) /\ phy'.search.hang = phy.search.hang
  BY <1>1, <1>5, SearchValues DEF Good
<1>8. /\ pc' \in {"begin", "return"}
      /\ pc' = "begin" => phy'.pending = TRUE
  BY <1>1, <1>2, <1>5
<1>9. MacCounted'
  BY <1>2, <1>8 DEF CalInv, MacCounted, Base
<1>10. SavedTogether'
  BY <1>1, <1>5 DEF SavedTogether
<1> QED
  BY <1>1, <1>2, <1>4, <1>5, <1>6, <1>7, <1>8, <1>9, <1>10, OutsideStep

LEMMA ReturnInv ==
  ASSUME CalInv, Return PROVE CalInv'
<1>1. /\ pc = "return" /\ pc' = "idle" /\ local' = NoLocal /\ found' = <<>>
      /\ mac' = (IF caller = "config" THEN mac - 1 ELSE mac)
      /\ UNCHANGED <<board, conf, phy>>
  BY DEF Return
<1>2. pc \notin Sequence /\ pc \notin Holding
  BY <1>1 DEF Sequence, InSequence, Holding
<1>3. /\ Good(phy) /\ Free(phy.search) /\ phy.multSave = <<>>
      /\ PowerOk(phy.power) /\ Typed(phy) /\ phy.power.ctrl = TRUE
      /\ phy.power.on = TRUE /\ phy.internal = Internal /\ phy.pending \in BOOLEAN
      /\ phy.pending = TRUE => phy.forced = Both(None) /\ phy.iqcal = None
      /\ conf \in [channel : Channels, desired : Powers \union {0}]
      /\ SavedTogether
  BY <1>1, <1>2, GoodPhy DEF CalInv, Shape, SearchHeld, Leveled, Remembered, Together
<1>4. LocalOk(local')
  BY <1>1, BothTypes DEF NoLocal, LocalOk
<1>5. MacCounted'
  <2>1. mac = Base
    BY <1>1 DEF CalInv, MacCounted
  <2> QED
    BY <1>1, <2>1 DEF MacCounted, Base
<1>6. SavedTogether'
  BY <1>1, <1>3 DEF SavedTogether
<1> QED
  BY <1>1, <1>3, <1>4, <1>5, <1>6, OutsideStep

LEMMA NextInv ==
  CalInv /\ [Next]_vars => CalInv'
<1> SUFFICES ASSUME CalInv, [Next]_vars PROVE CalInv'
  OBVIOUS
<1>1. CASE PowerUp
  BY <1>1, PowerUpInv
<1>2. CASE PowerDown \/ Periodic
  BY <1>2, RestInv
<1>3. CASE LoopSettles
  BY <1>3, LoopSettlesInv
<1>4. CASE \E ch \in Channels, power \in Powers : Config(ch, power)
  BY <1>4, ConfigInv
<1>5. CASE Recalc
  BY <1>5, RecalcInv
<1>6. CASE Return
  BY <1>6, ReturnInv
<1>7. CASE Calibrate
  <2>1. CASE Begin
    BY <2>1, BeginInv
  <2>2. CASE CalTxIqLo
    BY <2>2, CalTxIqLoInv
  <2>3. CASE ReserveMedium("papd_medium", "papd") \/ ReserveMedium("rx_medium", "rx")
    <3>1. CASE ReserveMedium("papd_medium", "papd")
      BY <3>1, ReserveInv
    <3>2. CASE ReserveMedium("rx_medium", "rx")
      BY <3>2, ReserveInv
    <3> QED
      BY <2>3, <3>1, <3>2
  <2>4. CASE PapdEnter
    BY <2>4, PapdEnterInv
  <2>5. CASE PapdPass(0, "papd_0", "papd_1") \/ PapdPass(1, "papd_1", "papd_out")
    <3>1. CASE PapdPass(0, "papd_0", "papd_1")
      BY <3>1, PapdPassInv DEF Cores
    <3>2. CASE PapdPass(1, "papd_1", "papd_out")
      BY <3>2, PapdPassInv DEF Cores
    <3> QED
      BY <2>5, <3>1, <3>2
  <2>6. CASE PapdLeave
    BY <2>6, PapdLeaveInv
  <2>7. CASE RxEnter
    BY <2>7, RxEnterInv
  <2>8. CASE RxPass(0, "rx_0", "rx_1") \/ RxPass(1, "rx_1", "rx_out")
    <3>1. CASE RxPass(0, "rx_0", "rx_1")
      BY <3>1, RxPassInv DEF Cores
    <3>2. CASE RxPass(1, "rx_1", "rx_out")
      BY <3>2, RxPassInv DEF Cores
    <3> QED
      BY <2>8, <3>1, <3>2
  <2>9. CASE RxLeave
    BY <2>9, RxLeaveInv
  <2>10. CASE MeasureIdle
    BY <2>10, MeasureIdleInv
  <2>11. CASE Tail
    BY <2>11, TailInv
  <2> QED
    BY <1>7, <2>1, <2>2, <2>3, <2>4, <2>5, <2>6, <2>7, <2>8, <2>9, <2>10, <2>11 DEF Calibrate
<1>8. CASE UNCHANGED vars
  BY <1>8, ZenonT(60) DEF vars, CalInv, Shape, SearchHeld, MacCounted, Base, Leveled, Remembered,
             Together, ForcedIndexGone, IndexRestored, SavedTogether
<1> QED
  BY <1>1, <1>2, <1>3, <1>4, <1>5, <1>6, <1>7, <1>8 DEF Next

(***************************************************************************)
(* What the registers hold.                                                *)
(***************************************************************************)
(* A pair of registers of every kind, and the places that remember some.   *)
Cells(p) ==
  /\ DOMAIN p = PhyFields /\ DOMAIN p.cell = Kinds
  /\ \A k \in Kinds : DOMAIN p.cell[k] = Cores
  /\ DOMAIN p.saved = 1..15 /\ DOMAIN p.rad = 1..2

(* The kinds that are as the init left them whenever no step runs.         *)
Clear == {"AFECTL", "TXF_S0", "LUT_TRSW", "RSSIO", "CMD", "RFSEQCA", "DAC", "ATTEN",
          "OVER0", "OVER1", "OVER2", "INTC"}

(* The registers between two steps, with the transmit power control on or   *)
(* off and the PAPD engine on for some cores.                              *)
Rest(p, on, engine) ==
  /\ Cells(p) /\ p.lpf = FALSE
  /\ \A c \in Cores :
       /\ \A k \in Clear : p.cell[k][c] = {}
       /\ p.cell.AFEOVER[c] = IF on THEN {} ELSE {"dac"}
       /\ p.cell.PAPD_EN[c] = (IF c \in engine THEN {"on"} ELSE {}) \union
                              (IF p.ipa /\ ~on THEN {"ext"} ELSE {})
       /\ p.cell.TSSI[c] \subseteq {"idle", "mux"}

(* The cores whose PAPD engine is on: those of an amplifier inside, but     *)
(* after a pass of the engine's calibration that core alone.               *)
Engines ==
  CASE pc = "papd_1" -> {0}
    [] pc = "papd_out" -> {1}
    [] OTHER -> IF board.ipa THEN Cores ELSE {}

RegsInv ==
  pc # "down" =>
    /\ Rest(phy, phy.power.ctrl, Engines)
    /\ phy.rssi = phy.rssical
    /\ phy.ipa = board.ipa
    /\ pc \in {"papd_0", "papd_1", "papd_out"} => board.ipa

(* q is p but for some kinds of registers and some of what is remembered.   *)
Noted == {"lpf", "saved", "rad", "intc", "rssi", "rssical", "rev", "ipa"}

Touch(p, q, kinds, fields) ==
  Cells(p) => /\ Cells(q)
              /\ \A k \in Kinds \ kinds : \A c \in Cores : q.cell[k][c] = p.cell[k][c]
              /\ \A f \in Noted \ fields : q[f] = p[f]

LEMMA TouchItself == ASSUME NEW p, NEW kinds, NEW fields PROVE Touch(p, p, kinds, fields)
BY DEF Touch

LEMMA TouchThen ==
  ASSUME NEW p, NEW q, NEW r, NEW kinds, NEW fields,
         Touch(p, q, kinds, fields), Touch(q, r, kinds, fields)
  PROVE  Touch(p, r, kinds, fields)
BY DEF Touch

LEMMA TouchMore ==
  ASSUME NEW p, NEW q, NEW kinds, NEW fields, NEW kinds2, NEW fields2,
         kinds \subseteq kinds2, fields \subseteq fields2, Touch(p, q, kinds, fields)
  PROVE  Touch(p, q, kinds2, fields2)
BY DEF Touch

(* Before and after it nothing was touched.                                *)
LEMMA TouchBetween ==
  ASSUME NEW p, NEW q, NEW kinds, NEW fields
  PROVE  /\ Touch(p, q, {}, {}) => Touch(p, q, kinds, fields)
         /\ \A r : Touch(p, q, {}, {}) /\ Touch(q, r, kinds, fields) => Touch(p, r, kinds, fields)
         /\ \A r : Touch(p, q, kinds, fields) /\ Touch(q, r, {}, {}) => Touch(p, r, kinds, fields)
<1>1. \A r, s : Touch(r, s, {}, {}) => Touch(r, s, kinds, fields)
  BY TouchMore
<1> QED
  BY <1>1, TouchThen

(* Fields that have nothing to do with the registers.                      *)
LEMMA TouchNothing ==
  ASSUME NEW p, NEW q, DOMAIN p = PhyFields => DOMAIN q = PhyFields,
         DOMAIN p = PhyFields => \A f \in Noted \union {"cell"} : q[f] = p[f]
  PROVE  Touch(p, q, {}, {})
BY DEF Touch, Cells, Noted

LEMMA TouchAway ==
  ASSUME NEW p, NEW f \in PhyFields \ (Noted \union {"cell"}), NEW x
  PROVE  Touch(p, [p EXCEPT ![f] = x], {}, {})
<1> DEFINE q == [p EXCEPT ![f] = x]
<1>1. /\ DOMAIN p = PhyFields => DOMAIN q = PhyFields
      /\ DOMAIN p = PhyFields => \A g \in Noted \union {"cell"} : q[g] = p[g]
  BY DEF Noted, PhyFields, Regs, Results
<1> HIDE DEF q
<1> QED
  BY <1>1, TouchNothing DEF q

LEMMA TouchSearch ==
  ASSUME NEW p, NEW x PROVE Touch(p, [p EXCEPT !.search = x], {}, {})
BY TouchAway DEF PhyFields, Noted

LEMMA TouchOn ==
  ASSUME NEW p, NEW on PROVE Touch(p, [p EXCEPT !.search.on = on], {}, {})
<1> DEFINE x == [p.search EXCEPT !.on = on]
<1>1. [p EXCEPT !.search.on = on] = [p EXCEPT !.search = x]
  BY Zenon
<1> HIDE DEF x
<1> QED
  BY <1>1, TouchSearch

(* One of the fields that remember something.                              *)
LEMMA TouchField ==
  ASSUME NEW p, NEW f \in Noted, NEW x,
         f = "saved" => DOMAIN x = 1..15, f = "rad" => DOMAIN x = 1..2
  PROVE  /\ Touch(p, [p EXCEPT ![f] = x], {}, {f})
         /\ Cells(p) => [p EXCEPT ![f] = x][f] = x
BY DEF Touch, Cells, Noted, PhyFields, Regs, Results

(* All registers written at once.                                          *)
LEMMA TouchCells ==
  ASSUME NEW p, NEW kinds, NEW x, DOMAIN x = Kinds, \A k \in Kinds : DOMAIN x[k] = Cores,
         \A k \in Kinds \ kinds : \A c \in Cores : x[k][c] = p.cell[k][c]
  PROVE  /\ Touch(p, Writes(p, x), kinds, {})
         /\ Cells(p) => Writes(p, x).cell = x
<1> SUFFICES ASSUME Cells(p)
             PROVE  /\ Touch(p, Writes(p, x), kinds, {}) /\ Writes(p, x).cell = x
  BY DEF Touch
<1>1. /\ DOMAIN Writes(p, x) = PhyFields /\ Writes(p, x).cell = x
      /\ \A f \in Noted : Writes(p, x)[f] = p[f]
  BY DEF Writes, Cells, PhyFields, Regs, Noted
<1>2. Writes(p, x).saved = p.saved /\ Writes(p, x).rad = p.rad
  BY <1>1 DEF Noted
<1> HIDE DEF Writes
<1> QED
  BY <1>1, <1>2 DEF Touch, Cells

(* One pair of registers written, or two.                                  *)
One(p, k, x) == [p EXCEPT !.cell[k] = x]
Two(p, k, x, j, y) == [p EXCEPT !.cell[k] = x, !.cell[j] = y]

LEMMA TouchOne ==
  ASSUME NEW p, NEW k \in Kinds, NEW x, DOMAIN x = Cores
  PROVE  /\ Touch(p, One(p, k, x), {k}, {})
         /\ Cells(p) => One(p, k, x).cell[k] = x
<1> SUFFICES ASSUME Cells(p)
             PROVE  Touch(p, One(p, k, x), {k}, {}) /\ One(p, k, x).cell[k] = x
  BY DEF Touch
<1> DEFINE z == [p.cell EXCEPT ![k] = x]
<1>1. /\ DOMAIN z = Kinds /\ z[k] = x /\ \A j \in Kinds \ {k} : z[j] = p.cell[j]
  BY DEF Cells
<1>2. \A j \in Kinds : DOMAIN z[j] = Cores
  BY <1>1 DEF Cells
<1>3. One(p, k, x) = Writes(p, z)
  BY Zenon DEF One, Writes
<1> HIDE DEF z
<1>4. Touch(p, Writes(p, z), {k}, {}) /\ Writes(p, z).cell = z
  BY <1>1, <1>2, TouchCells
<1> QED
  BY <1>1, <1>3, <1>4

LEMMA TouchTwo ==
  ASSUME NEW p, NEW k \in Kinds, NEW j \in Kinds, j # k, NEW x, NEW y,
         DOMAIN x = Cores, DOMAIN y = Cores, Cells(p)
  PROVE  /\ Touch(p, Two(p, k, x, j, y), {k, j}, {})
         /\ Two(p, k, x, j, y).cell[k] = x /\ Two(p, k, x, j, y).cell[j] = y
<1> DEFINE z == [p.cell EXCEPT ![k] = x, ![j] = y]
<1>1. /\ DOMAIN z = Kinds /\ z[k] = x /\ z[j] = y
      /\ \A i \in Kinds \ {k, j} : z[i] = p.cell[i]
  BY DEF Cells
<1>2. \A i \in Kinds : DOMAIN z[i] = Cores
  BY <1>1 DEF Cells
<1>3. Two(p, k, x, j, y) = Writes(p, z)
  BY Zenon DEF Two, Writes
<1> HIDE DEF z
<1>4. Touch(p, Writes(p, z), {k, j}, {}) /\ Writes(p, z).cell = z
  BY <1>1, <1>2, TouchCells
<1> QED
  BY <1>1, <1>3, <1>4

(***************************************************************************)
(* The overrides of the RF control.                                        *)
(***************************************************************************)
LEMMA PairMarks ==
  ASSUME NEW pair, NEW cs, NEW marks
  PROVE  /\ DOMAIN Marked(pair, cs, marks) = Cores /\ DOMAIN Unmarked(pair, cs, marks) = Cores
         /\ DOMAIN Cleared(pair, cs) = Cores
         /\ \A c \in Cores :
              /\ c \in cs => /\ Marked(pair, cs, marks)[c] = pair[c] \union marks
                             /\ Unmarked(pair, cs, marks)[c] = pair[c] \ marks
                             /\ Cleared(pair, cs)[c] = {}
              /\ c \notin cs => /\ Marked(pair, cs, marks)[c] = pair[c]
                                /\ Unmarked(pair, cs, marks)[c] = pair[c]
                                /\ Cleared(pair, cs)[c] = pair[c]
BY DEF Marked, Unmarked, Cleared

Overs == {"OVER0", "OVER1", "OVER2"}

(* The bits of the three enable registers are among some.                  *)
OverIn(p, x, y, z) ==
  \A c \in Cores : /\ p.cell.OVER0[c] \subseteq x /\ p.cell.OVER1[c] \subseteq y
                   /\ p.cell.OVER2[c] \subseteq z

(* A tone does not override the filter's bandwidth if someone else has.    *)
Filtered(p) == \E c \in Cores : \h80 \in p.cell.OVER1[c]

(* Of a command, the register and what it makes of it.                     *)
OverOf(id) == CASE id = 0 -> "OVER0" [] id = 1 -> "OVER1" [] id = 2 -> "OVER2"

LEMMA RfCtlSets ==
  ASSUME NEW p, NEW bits, NEW cs, NEW off \in BOOLEAN, NEW id \in {0, 1, 2}
  PROVE  /\ OverOf(id) \in Overs
         /\ Touch(p, RfCtlOverrideRev7(p, bits, cs, off, id), {OverOf(id)}, {})
         /\ Cells(p) => RfCtlOverrideRev7(p, bits, cs, off, id).cell[OverOf(id)] =
                          IF off THEN Unmarked(p.cell[OverOf(id)], Cores, bits)
                          ELSE Marked(p.cell[OverOf(id)], cs, bits)
<1> DEFINE k == OverOf(id)
           y == IF off THEN Unmarked(p.cell[k], Cores, bits) ELSE Marked(p.cell[k], cs, bits)
<1>1. k \in Overs /\ <<"OVER0", "OVER1", "OVER2">>[id + 1] = k
  BY DEF OverOf, Overs
<1>2. k \in Kinds
  BY <1>1 DEF Overs, Kinds
<1>3. RfCtlOverrideRev7(p, bits, cs, off, id) = One(p, k, y)
  <2> HIDE DEF k
  <2>1. RfCtlOverrideRev7(p, bits, cs, off, id) =
          [p EXCEPT !.cell[k] = IF off THEN Unmarked(@, Cores, bits) ELSE Marked(@, cs, bits)]
    BY <1>1, Zenon DEF RfCtlOverrideRev7
  <2> QED
    BY <2>1, Zenon DEF One
<1>4. DOMAIN y = Cores
  BY PairMarks
<1> HIDE DEF k, y
<1>5. Touch(p, One(p, k, y), {k}, {}) /\ (Cells(p) => One(p, k, y).cell[k] = y)
  BY <1>2, <1>4, TouchOne
<1> QED
  BY <1>1, <1>3, <1>5 DEF k, y

LEMMA RfCtlAny ==
  ASSUME NEW p, NEW q, NEW kinds, NEW fields, Cells(p), Touch(p, q, kinds, fields),
         Overs \subseteq kinds, NEW x, NEW y, NEW z, OverIn(q, x, y, z),
         NEW bits, NEW cs, NEW off \in BOOLEAN, NEW id \in {0, 1, 2}
  PROVE  /\ Touch(p, RfCtlOverrideRev7(q, bits, cs, off, id), kinds, fields)
         /\ id = 0 => OverIn(RfCtlOverrideRev7(q, bits, cs, off, id),
                             IF off THEN x \ bits ELSE x \union bits, y, z)
         /\ id = 1 => OverIn(RfCtlOverrideRev7(q, bits, cs, off, id),
                             x, IF off THEN y \ bits ELSE y \union bits, z)
         /\ id = 2 => OverIn(RfCtlOverrideRev7(q, bits, cs, off, id),
                             x, y, IF off THEN z \ bits ELSE z \union bits)
         /\ Filtered(q) /\ ~off => Filtered(RfCtlOverrideRev7(q, bits, cs, off, id))
<1> DEFINE r == RfCtlOverrideRev7(q, bits, cs, off, id)
           k == OverOf(id)
<1>1. Cells(q)
  BY DEF Touch
<1>2. /\ k \in Overs /\ Touch(q, r, {k}, {})
      /\ r.cell[k] = IF off THEN Unmarked(q.cell[k], Cores, bits) ELSE Marked(q.cell[k], cs, bits)
  <2>1. k \in Overs /\ Touch(q, r, {k}, {})
    BY Zenon, RfCtlSets
  <2>2. r.cell[k] = IF off THEN Unmarked(q.cell[k], Cores, bits) ELSE Marked(q.cell[k], cs, bits)
    BY <1>1, RfCtlSets
  <2> QED
    BY <2>1, <2>2
<1> HIDE DEF r
<1>3. Touch(p, r, kinds, fields)
  <2>1. Touch(q, r, kinds, fields)
    BY <1>2, TouchMore
  <2> QED
    BY <2>1, TouchThen
<1>4. \A c \in Cores :
        /\ off => r.cell[k][c] = q.cell[k][c] \ bits
        /\ ~off => /\ r.cell[k][c] \subseteq q.cell[k][c] \union bits
                   /\ q.cell[k][c] \subseteq r.cell[k][c]
  BY <1>2, PairMarks
<1>5. \A j \in Overs \ {k} : \A c \in Cores : r.cell[j][c] = q.cell[j][c]
  BY <1>1, <1>2 DEF Touch, Overs, Kinds
<1>6. CASE id = 0
  <2>1. k = "OVER0"
    BY <1>6 DEF OverOf
  <2> HIDE DEF k
  <2> QED
    BY <1>3, <1>4, <1>5, <1>6, <2>1 DEF OverIn, Filtered, Overs, r
<1>7. CASE id = 1
  <2>1. k = "OVER1"
    BY <1>7 DEF OverOf
  <2> HIDE DEF k
  <2> QED
    BY <1>3, <1>4, <1>5, <1>7, <2>1 DEF OverIn, Filtered, Overs, r
<1>8. CASE id = 2
  <2>1. k = "OVER2"
    BY <1>8 DEF OverOf
  <2> HIDE DEF k
  <2> QED
    BY <1>3, <1>4, <1>5, <1>8, <2>1 DEF OverIn, Filtered, Overs, r
<1> QED
  BY <1>6, <1>7, <1>8

LEMMA RfCtlOn ==
  ASSUME NEW p, NEW q, NEW kinds, NEW fields, Cells(p), Touch(p, q, kinds, fields),
         Overs \subseteq kinds, NEW x, NEW y, NEW z, OverIn(q, x, y, z), NEW bits, NEW cs
  PROVE  /\ \A id \in {0, 1, 2} :
              /\ Touch(p, RfCtlOverrideRev7(q, bits, cs, FALSE, id), kinds, fields)
              /\ Filtered(q) => Filtered(RfCtlOverrideRev7(q, bits, cs, FALSE, id))
         /\ OverIn(RfCtlOverrideRev7(q, bits, cs, FALSE, 0), x \union bits, y, z)
         /\ OverIn(RfCtlOverrideRev7(q, bits, cs, FALSE, 1), x, y \union bits, z)
         /\ OverIn(RfCtlOverrideRev7(q, bits, cs, FALSE, 2), x, y, z \union bits)
BY RfCtlAny

LEMMA RfCtlOff ==
  ASSUME NEW p, NEW q, NEW kinds, NEW fields, Cells(p), Touch(p, q, kinds, fields),
         Overs \subseteq kinds, NEW x, NEW y, NEW z, OverIn(q, x, y, z), NEW bits, NEW cs
  PROVE  /\ \A id \in {0, 1, 2} :
              Touch(p, RfCtlOverrideRev7(q, bits, cs, TRUE, id), kinds, fields)
         /\ OverIn(RfCtlOverrideRev7(q, bits, cs, TRUE, 0), x \ bits, y, z)
         /\ OverIn(RfCtlOverrideRev7(q, bits, cs, TRUE, 1), x, y \ bits, z)
         /\ OverIn(RfCtlOverrideRev7(q, bits, cs, TRUE, 2), x, y, z \ bits)
BY RfCtlAny

(* A command on all three of them.                                         *)
LEMMA ManyIn ==
  ASSUME NEW p, NEW q, NEW kinds, NEW fields, Cells(p), Touch(p, q, kinds, fields),
         Overs \subseteq kinds, NEW x, NEW y, NEW z, OverIn(q, x, y, z),
         NEW cmd \in DOMAIN Many, NEW cs
  PROVE  /\ Touch(p, OneToMany(q, cmd, cs, FALSE), kinds, fields)
         /\ OverIn(OneToMany(q, cmd, cs, FALSE), x \union Many[cmd][1], y \union Many[cmd][2],
                   z \union Many[cmd][3])
         /\ Filtered(q) => Filtered(OneToMany(q, cmd, cs, FALSE))
         /\ Touch(p, OneToMany(q, cmd, cs, TRUE), kinds, fields)
         /\ OverIn(OneToMany(q, cmd, cs, TRUE), x \ Many[cmd][1], y \ Many[cmd][2],
                   z \ Many[cmd][3])
<1> DEFINE m == Many[cmd]
           Over(r, off, id) == RfCtlOverrideRev7(r, m[id + 1], cs, off, id)
<1>1. \A off \in BOOLEAN : OneToMany(q, cmd, cs, off) = Over(Over(Over(q, off, 0), off, 1), off, 2)
  BY DEF OneToMany
<1>2. \A r, off : /\ Over(r, off, 0) = RfCtlOverrideRev7(r, m[1], cs, off, 0)
                  /\ Over(r, off, 1) = RfCtlOverrideRev7(r, m[2], cs, off, 1)
                  /\ Over(r, off, 2) = RfCtlOverrideRev7(r, m[3], cs, off, 2)
  OBVIOUS
<1> HIDE DEF Over, m
<1>3. /\ Touch(p, OneToMany(q, cmd, cs, FALSE), kinds, fields)
      /\ OverIn(OneToMany(q, cmd, cs, FALSE), x \union m[1], y \union m[2], z \union m[3])
      /\ Filtered(q) => Filtered(OneToMany(q, cmd, cs, FALSE))
  <2> DEFINE a == RfCtlOverrideRev7(q, m[1], cs, FALSE, 0)
             b == RfCtlOverrideRev7(a, m[2], cs, FALSE, 1)
             d == RfCtlOverrideRev7(b, m[3], cs, FALSE, 2)
  <2>1. OneToMany(q, cmd, cs, FALSE) = d
    BY <1>1, <1>2
  <2>2. /\ Touch(p, a, kinds, fields) /\ OverIn(a, x \union m[1], y, z)
        /\ Filtered(q) => Filtered(a)
    BY RfCtlOn
  <2> HIDE DEF a
  <2>3. /\ Touch(p, b, kinds, fields) /\ OverIn(b, x \union m[1], y \union m[2], z)
        /\ Filtered(a) => Filtered(b)
    BY <2>2, RfCtlOn
  <2> HIDE DEF b
  <2>4. /\ Touch(p, d, kinds, fields)
        /\ OverIn(d, x \union m[1], y \union m[2], z \union m[3])
        /\ Filtered(b) => Filtered(d)
    BY <2>3, RfCtlOn
  <2> HIDE DEF d
  <2> QED
    BY <2>1, <2>2, <2>3, <2>4
<1>4. /\ Touch(p, OneToMany(q, cmd, cs, TRUE), kinds, fields)
      /\ OverIn(OneToMany(q, cmd, cs, TRUE), x \ m[1], y \ m[2], z \ m[3])
  <2> DEFINE a == RfCtlOverrideRev7(q, m[1], cs, TRUE, 0)
             b == RfCtlOverrideRev7(a, m[2], cs, TRUE, 1)
             d == RfCtlOverrideRev7(b, m[3], cs, TRUE, 2)
  <2>1. OneToMany(q, cmd, cs, TRUE) = d
    BY <1>1, <1>2
  <2>2. Touch(p, a, kinds, fields) /\ OverIn(a, x \ m[1], y, z)
    BY RfCtlOff
  <2> HIDE DEF a
  <2>3. Touch(p, b, kinds, fields) /\ OverIn(b, x \ m[1], y \ m[2], z)
    BY <2>2, RfCtlOff
  <2> HIDE DEF b
  <2>4. Touch(p, d, kinds, fields) /\ OverIn(d, x \ m[1], y \ m[2], z \ m[3])
    BY <2>3, RfCtlOff
  <2> HIDE DEF d
  <2> QED
    BY <2>1, <2>4
<1> QED
  BY <1>3, <1>4 DEF m

(* A step that leaves the overrides alone.                                 *)
LEMMA ApartIn ==
  ASSUME NEW p, NEW q, NEW r, NEW kinds, NEW fields, Cells(p), Touch(p, q, kinds, fields),
         NEW some, NEW ones, Touch(q, r, some, ones),
         some \subseteq kinds, ones \subseteq fields, some \intersect Overs = {}
  PROVE  /\ Touch(p, r, kinds, fields)
         /\ \A x, y, z : OverIn(q, x, y, z) => OverIn(r, x, y, z)
         /\ Filtered(q) => Filtered(r)
<1>1. Touch(p, r, kinds, fields)
  BY TouchMore, TouchThen
<1>2. \A k \in Overs, c \in Cores : r.cell[k][c] = q.cell[k][c]
  BY DEF Touch, Overs, Kinds
<1> QED
  BY <1>1, <1>2 DEF OverIn, Filtered, Overs

LEMMA PutBackSets ==
  ASSUME NEW p, NEW kinds, kinds \subseteq Kinds, NEW from,
         \A k \in kinds : DOMAIN from[k] = Cores
  PROVE  /\ Touch(p, PutBack(p, kinds, from), kinds, {})
         /\ Cells(p) => \A k \in kinds : PutBack(p, kinds, from).cell[k] = from[k]
<1> SUFFICES ASSUME Cells(p)
             PROVE  /\ Touch(p, PutBack(p, kinds, from), kinds, {})
                    /\ \A k \in kinds : PutBack(p, kinds, from).cell[k] = from[k]
  BY DEF Touch
<1> DEFINE x == [k \in Kinds |-> IF k \in kinds THEN from[k] ELSE p.cell[k]]
<1>1. PutBack(p, kinds, from) = Writes(p, x)
  BY Zenon DEF PutBack, Writes
<1>2. /\ DOMAIN x = Kinds /\ \A k \in Kinds : DOMAIN x[k] = Cores
      /\ \A k \in kinds : x[k] = from[k]
      /\ \A k \in Kinds \ kinds : \A c \in Cores : x[k][c] = p.cell[k][c]
  BY DEF Cells
<1> HIDE DEF x
<1>3. Touch(p, Writes(p, x), kinds, {}) /\ Writes(p, x).cell = x
  BY <1>2, TouchCells
<1> QED
  BY <1>1, <1>2, <1>3

LEMMA IntcSets ==
  ASSUME NEW p, NEW what \in {"OFF", "TRSW", "PA"}, NEW cs
  PROVE  /\ Touch(p, IntcOverride(p, what, cs), {"INTC", "R2FF", "OVER0"}, {})
         /\ Cells(p) => \A c \in Cores : IntcOverride(p, what, cs).cell.OVER0[c]
                                           \subseteq p.cell.OVER0[c]
<1> SUFFICES ASSUME Cells(p)
             PROVE  /\ Touch(p, IntcOverride(p, what, cs), {"INTC", "R2FF", "OVER0"}, {})
                    /\ \A c \in Cores : IntcOverride(p, what, cs).cell.OVER0[c]
                                          \subseteq p.cell.OVER0[c]
  BY DEF Touch
<1> DEFINE Done(r) ==
             /\ Touch(p, r, {"INTC", "R2FF", "OVER0"}, {})
             /\ \A c \in Cores : r.cell.OVER0[c] \subseteq p.cell.OVER0[c]
           Old(x, y) == [p EXCEPT !.cell.INTC = x, !.cell.OVER0 = y]
           Less(y) == DOMAIN y = Cores /\ \A c \in Cores : y[c] \subseteq p.cell.OVER0[c]
<1>1. ASSUME NEW x, NEW y, DOMAIN x = Cores, DOMAIN y = Cores
      PROVE  Done([p EXCEPT !.cell.INTC = x, !.cell.R2FF = y])
  <2> DEFINE z == [p.cell EXCEPT !.INTC = x, !.R2FF = y]
  <2>1. [p EXCEPT !.cell.INTC = x, !.cell.R2FF = y] = Writes(p, z)
    BY Zenon DEF Writes
  <2>2. /\ DOMAIN z = Kinds /\ \A k \in Kinds : DOMAIN z[k] = Cores
        /\ \A k \in Kinds \ {"INTC", "R2FF"} : z[k] = p.cell[k]
    BY <1>1 DEF Cells, Kinds
  <2> HIDE DEF z
  <2>3. Touch(p, Writes(p, z), {"INTC", "R2FF", "OVER0"}, {}) /\ Writes(p, z).cell = z
    BY <2>2, TouchCells
  <2> QED
    BY <2>1, <2>2, <2>3 DEF Kinds
<1>2. ASSUME NEW x, NEW y, DOMAIN x = Cores, Less(y)
      PROVE  Done(Old(x, y))
  <2> DEFINE z == [p.cell EXCEPT !.INTC = x, !.OVER0 = y]
  <2>1. [p EXCEPT !.cell.INTC = x, !.cell.OVER0 = y] = Writes(p, z)
    BY Zenon DEF Writes
  <2>2. /\ DOMAIN z = Kinds /\ \A k \in Kinds : DOMAIN z[k] = Cores
        /\ z.OVER0 = y
        /\ \A k \in Kinds \ {"INTC", "OVER0"} : z[k] = p.cell[k]
    BY <1>2 DEF Cells, Kinds
  <2> HIDE DEF z
  <2>3. Touch(p, Writes(p, z), {"INTC", "R2FF", "OVER0"}, {}) /\ Writes(p, z).cell = z
    BY <2>2, TouchCells
  <2> QED
    BY <1>2, <2>1, <2>2, <2>3
<1>3. ASSUME NEW x, DOMAIN x = Cores PROVE Done([p EXCEPT !.cell.INTC = x])
  <2>1. [p EXCEPT !.cell.INTC = x] = One(p, "INTC", x)
    BY Zenon DEF One
  <2>2. Touch(p, One(p, "INTC", x), {"INTC"}, {})
    BY <1>3, TouchOne DEF Kinds
  <2> HIDE DEF Done
  <2>3. \A r : Touch(p, r, {"INTC"}, {}) => Done(r)
    BY TouchMore DEF Done, Touch, Kinds
  <2> QED
    BY <2>1, <2>2, <2>3
<1> DEFINE off == Cleared(p.cell.INTC, cs)
           off2 == Unmarked(p.cell.R2FF, {0}, {\h2000})
           trsw == Marked(p.cell.INTC, cs, {"trsw"})
           trsw2 == Marked(p.cell.R2FF, {0}, {\h2000, \h1})
           pa == Marked(p.cell.INTC, cs, {"pa"})
           old == Marked(p.cell.INTC, cs, {"on", "trsw"})
           old2 == Unmarked(p.cell.OVER0, cs, {\h1})
           oldpa == Marked(p.cell.INTC, cs, {"on", "pa"})
<1>4. /\ DOMAIN off = Cores /\ DOMAIN off2 = Cores /\ DOMAIN trsw = Cores /\ DOMAIN trsw2 = Cores
      /\ DOMAIN pa = Cores /\ DOMAIN old = Cores /\ DOMAIN oldpa = Cores /\ Less(old2)
  BY PairMarks
<1>5. CASE p.rev >= 7
  <2>1. IntcOverride(p, what, cs) = IntcOverrideRev7(p, what, cs)
    BY <1>5 DEF IntcOverride
  <2>2. /\ what = "OFF" => IntcOverrideRev7(p, what, cs) = [p EXCEPT !.cell.INTC = off, !.cell.R2FF = off2]
        /\ what = "TRSW" => IntcOverrideRev7(p, what, cs) = [p EXCEPT !.cell.INTC = trsw, !.cell.R2FF = trsw2]
        /\ what = "PA" => IntcOverrideRev7(p, what, cs) = [p EXCEPT !.cell.INTC = pa]
    BY DEF IntcOverrideRev7
  <2> HIDE DEF off, off2, trsw, trsw2, pa, Done, Less
  <2>3. Done([p EXCEPT !.cell.INTC = off, !.cell.R2FF = off2])
    BY <1>1, <1>4
  <2>4. Done([p EXCEPT !.cell.INTC = trsw, !.cell.R2FF = trsw2])
    BY <1>1, <1>4
  <2>5. Done([p EXCEPT !.cell.INTC = pa])
    BY <1>3, <1>4
  <2>6. Done(IntcOverride(p, what, cs))
    BY <2>1, <2>2, <2>3, <2>4, <2>5, Zenon
  <2> QED
    BY <2>6 DEF Done
<1>6. CASE ~(p.rev >= 7)
  <2>1. /\ what = "OFF" => IntcOverride(p, what, cs) = [p EXCEPT !.cell.INTC = off]
        /\ what = "TRSW" => IntcOverride(p, what, cs) = Old(old, old2)
        /\ what = "PA" => IntcOverride(p, what, cs) = [p EXCEPT !.cell.INTC = oldpa]
    BY <1>6 DEF IntcOverride
  <2> HIDE DEF off, old, old2, oldpa, Done, Less, Old
  <2>2. Done([p EXCEPT !.cell.INTC = off])
    BY <1>3, <1>4
  <2>3. Done(Old(old, old2))
    BY <1>2, <1>4
  <2>4. Done([p EXCEPT !.cell.INTC = oldpa])
    BY <1>3, <1>4
  <2>5. Done(IntcOverride(p, what, cs))
    BY <2>1, <2>2, <2>3, <2>4, Zenon
  <2> QED
    BY <2>5 DEF Done
<1> QED
  BY <1>5, <1>6

LEMMA IntcIn ==
  ASSUME NEW p, NEW q, NEW kinds, NEW fields, Cells(p), Touch(p, q, kinds, fields),
         Overs \union {"INTC", "R2FF"} \subseteq kinds, NEW x, NEW y, NEW z, OverIn(q, x, y, z),
         NEW what \in {"OFF", "TRSW", "PA"}, NEW cs
  PROVE  /\ Touch(p, IntcOverride(q, what, cs), kinds, fields)
         /\ OverIn(IntcOverride(q, what, cs), x, y, z)
         /\ Filtered(q) => Filtered(IntcOverride(q, what, cs))
<1> DEFINE r == IntcOverride(q, what, cs)
<1>1. Cells(q)
  BY DEF Touch
<1>2. /\ Touch(q, r, {"INTC", "R2FF", "OVER0"}, {})
      /\ \A c \in Cores : r.cell.OVER0[c] \subseteq q.cell.OVER0[c]
  BY <1>1, IntcSets
<1> HIDE DEF r
<1>3. Touch(p, r, kinds, fields)
  <2>1. Touch(q, r, kinds, fields)
    BY <1>2, TouchMore DEF Overs
  <2> QED
    BY <2>1, TouchThen
<1>4. \A c \in Cores : r.cell.OVER1[c] = q.cell.OVER1[c] /\ r.cell.OVER2[c] = q.cell.OVER2[c]
  BY <1>1, <1>2 DEF Touch, Kinds
<1> QED
  BY <1>2, <1>3, <1>4 DEF OverIn, Filtered, r

(* The override of the old amplifier, pulsed, is back as it was.           *)
LEMMA PaPulse ==
  ASSUME NEW p
  PROVE  Touch(p, PaOverride(PaOverride(p, FALSE), TRUE), {}, {"intc"})
<1> SUFFICES ASSUME Cells(p)
             PROVE  Touch(p, PaOverride(PaOverride(p, FALSE), TRUE), {}, {"intc"})
  BY DEF Touch
<1> DEFINE pa == Both({"pa"})
           was == p.cell.INTC
           cut == One(p, "INTC", pa)
           kept == [cut EXCEPT !.intc = was]
           back == One(kept, "INTC", kept.intc)
<1>1. PaOverride(PaOverride(p, FALSE), TRUE) = back
  BY Zenon DEF PaOverride, One
<1>2. DOMAIN pa = Cores /\ DOMAIN was = Cores
  BY DEF Both, Cells, Kinds
<1> HIDE DEF pa, was
<1>3. Touch(p, cut, {"INTC"}, {})
  BY <1>2, TouchOne DEF Kinds
<1> HIDE DEF cut
<1>4. Touch(cut, kept, {}, {"intc"}) /\ kept.intc = was
  <2>1. Cells(cut)
    BY <1>3 DEF Touch
  <2> QED
    BY <2>1, TouchField DEF Noted
<1> HIDE DEF kept
<1>5. Cells(cut) /\ Cells(kept)
  BY <1>3, <1>4 DEF Touch
<1>6. Touch(kept, back, {"INTC"}, {}) /\ back.cell.INTC = was
  BY <1>2, <1>4, <1>5, TouchOne DEF Kinds
<1> HIDE DEF back
<1>7. Touch(p, back, {"INTC"}, {"intc"})
  <2>1. Touch(p, cut, {"INTC"}, {"intc"}) /\ Touch(cut, kept, {"INTC"}, {"intc"})
        /\ Touch(kept, back, {"INTC"}, {"intc"})
    BY <1>3, <1>4, <1>6, TouchMore
  <2> QED
    BY <2>1, TouchThen
<1>8. \A c \in Cores : back.cell.INTC[c] = p.cell.INTC[c]
  BY <1>6 DEF was
<1> QED
  BY <1>1, <1>7, <1>8 DEF Touch

OldOff(p, q, bits) ==
  \A c \in Cores : /\ q.cell.TXF_S0[c] \subseteq p.cell.TXF_S0[c]
                   /\ q.cell.OVER0[c] = p.cell.OVER0[c] \ (bits \ {\h1})

OldOn(p, q, bits) ==
  \A c \in Cores : /\ q.cell.TXF_S0[c] \subseteq p.cell.TXF_S0[c] \union (bits \intersect {\h1})
                   /\ q.cell.OVER0[c] \subseteq p.cell.OVER0[c] \union (bits \ {\h1})

LEMMA RfCtlOldSets ==
  ASSUME NEW p, NEW bits, NEW cs, NEW off \in BOOLEAN
  PROVE  /\ Touch(p, RfCtlOverride(p, bits, cs, off), {"TXF_S0", "OVER0"}, {})
         /\ Cells(p) /\ off => OldOff(p, RfCtlOverride(p, bits, cs, off), bits)
         /\ Cells(p) /\ ~off => OldOn(p, RfCtlOverride(p, bits, cs, off), bits)
<1> DEFINE r == RfCtlOverride(p, bits, cs, off)
           low == bits \intersect {\h1}
           high == bits \ {\h1}
           x == IF off THEN Unmarked(p.cell.TXF_S0, Cores, low) ELSE Marked(p.cell.TXF_S0, cs, low)
           y == IF off THEN Unmarked(p.cell.OVER0, Cores, high) ELSE Marked(p.cell.OVER0, cs, high)
<1> SUFFICES ASSUME Cells(p)
             PROVE  /\ Touch(p, r, {"TXF_S0", "OVER0"}, {})
                    /\ off => OldOff(p, r, bits)
                    /\ ~off => OldOn(p, r, bits)
  BY DEF Touch
<1>1. r = [p EXCEPT !.cell.TXF_S0 = x, !.cell.OVER0 = y]
  BY DEF RfCtlOverride
<1>2. /\ DOMAIN x = Cores /\ DOMAIN y = Cores
      /\ \A c \in Cores : /\ off => x[c] \subseteq p.cell.TXF_S0[c] /\ y[c] = p.cell.OVER0[c] \ high
                          /\ ~off => /\ x[c] \subseteq p.cell.TXF_S0[c] \union low
                                     /\ y[c] \subseteq p.cell.OVER0[c] \union high
  BY PairMarks
<1> HIDE DEF r, x, y
<1>3. r = Two(p, "TXF_S0", x, "OVER0", y)
  BY <1>1, Zenon DEF Two
<1>4. Touch(p, r, {"TXF_S0", "OVER0"}, {}) /\ r.cell.TXF_S0 = x /\ r.cell.OVER0 = y
  BY <1>2, <1>3, TouchTwo DEF Kinds
<1>5. ASSUME off PROVE OldOff(p, r, bits)
  BY <1>2, <1>4, <1>5 DEF OldOff
<1>6. ASSUME ~off PROVE OldOn(p, r, bits)
  BY <1>2, <1>4, <1>6 DEF OldOn
<1> QED
  BY <1>4, <1>5, <1>6

(* The overrides without regard to their bits.                             *)
LEMMA OverTouch ==
  ASSUME NEW p, NEW q, NEW kinds, NEW fields, Touch(p, q, kinds, fields),
         NEW bits, NEW cs, NEW off \in BOOLEAN
  PROVE  /\ Overs \subseteq kinds => \A id \in {0, 1, 2} :
              Touch(p, RfCtlOverrideRev7(q, bits, cs, off, id), kinds, fields)
         /\ Overs \subseteq kinds => \A cmd : Touch(p, OneToMany(q, cmd, cs, off), kinds, fields)
         /\ {"TXF_S0", "OVER0"} \subseteq kinds => Touch(p, RfCtlOverride(q, bits, cs, off), kinds, fields)
<1>1. ASSUME Overs \subseteq kinds, NEW r, Touch(p, r, kinds, fields), NEW b, NEW id \in {0, 1, 2}
      PROVE  Touch(p, RfCtlOverrideRev7(r, b, cs, off, id), kinds, fields)
  <2> DEFINE s == RfCtlOverrideRev7(r, b, cs, off, id)
  <2>1. OverOf(id) \in Overs /\ Touch(r, s, {OverOf(id)}, {})
    BY Zenon, RfCtlSets
  <2> HIDE DEF s
  <2>2. Touch(r, s, kinds, fields)
    BY <1>1, <2>1, TouchMore
  <2> QED
    BY <1>1, <2>2, TouchThen DEF s
<1>2. ASSUME Overs \subseteq kinds, NEW cmd
      PROVE  Touch(p, OneToMany(q, cmd, cs, off), kinds, fields)
  <2> DEFINE Over(r, id) == RfCtlOverrideRev7(r, Many[cmd][id + 1], cs, off, id)
  <2>1. \A r : Touch(p, r, kinds, fields) =>
               /\ Touch(p, Over(r, 0), kinds, fields) /\ Touch(p, Over(r, 1), kinds, fields)
               /\ Touch(p, Over(r, 2), kinds, fields)
    BY <1>1, <1>2
  <2>2. OneToMany(q, cmd, cs, off) = Over(Over(Over(q, 0), 1), 2)
    BY DEF OneToMany
  <2> HIDE DEF Over
  <2> QED
    BY <2>1, <2>2
<1>3. ASSUME {"TXF_S0", "OVER0"} \subseteq kinds
      PROVE  Touch(p, RfCtlOverride(q, bits, cs, off), kinds, fields)
  <2>1. Touch(q, RfCtlOverride(q, bits, cs, off), {"TXF_S0", "OVER0"}, {})
    BY RfCtlOldSets
  <2>2. Touch(q, RfCtlOverride(q, bits, cs, off), kinds, fields)
    BY <1>3, <2>1, TouchMore
  <2> QED
    BY <2>2, TouchThen
<1> QED
  BY <1>1, <1>2, <1>3

(***************************************************************************)
(* Signal strength.                                                        *)
(***************************************************************************)
Routing == {"AFEOVER", "AFECTL", "TXF_S0", "LUT_TRSW"}

(* Routing no signal leaves of the converter's overrides those of others.  *)
LEMMA RssiOffSets ==
  ASSUME NEW p, NEW type
  PROVE  /\ Touch(p, RssiSelect(p, 0, type), Routing, {})
         /\ Cells(p) => \A c \in Cores :
              /\ RssiSelect(p, 0, type).cell.AFEOVER[c] = p.cell.AFEOVER[c] \ {"rssi"}
              /\ \A k \in Routing \ {"AFEOVER"} :
                   RssiSelect(p, 0, type).cell[k][c] \subseteq p.cell[k][c]
<1> SUFFICES ASSUME Cells(p)
             PROVE  /\ Touch(p, RssiSelect(p, 0, type), Routing, {})
                    /\ \A c \in Cores :
                         /\ RssiSelect(p, 0, type).cell.AFEOVER[c] = p.cell.AFEOVER[c] \ {"rssi"}
                         /\ \A k \in Routing \ {"AFEOVER"} :
                              RssiSelect(p, 0, type).cell[k][c] \subseteq p.cell[k][c]
  BY DEF Touch
<1> DEFINE u == Unmarked(p.cell.AFEOVER, Cores, {"rssi"})
           v == Unmarked(p.cell.AFECTL, Cores, {"rssi"})
           w == Unmarked(p.cell.TXF_S0, Cores, {\h20})
           x == Unmarked(p.cell.LUT_TRSW, Cores, {"rssi"})
           z == [p.cell EXCEPT !.AFEOVER = u, !.AFECTL = v, !.TXF_S0 = w, !.LUT_TRSW = x]
<1>1. RssiSelect(p, 0, type) = [p EXCEPT !.cell.AFEOVER = u, !.cell.AFECTL = v,
                                         !.cell.TXF_S0 = w, !.cell.LUT_TRSW = x]
  BY DEF RssiSelect
<1>2. /\ DOMAIN u = Cores /\ DOMAIN v = Cores /\ DOMAIN w = Cores /\ DOMAIN x = Cores
      /\ \A c \in Cores : /\ u[c] = p.cell.AFEOVER[c] \ {"rssi"}
                          /\ v[c] \subseteq p.cell.AFECTL[c] /\ w[c] \subseteq p.cell.TXF_S0[c]
                          /\ x[c] \subseteq p.cell.LUT_TRSW[c]
  BY PairMarks
<1> HIDE DEF u, v, w, x
<1>3. RssiSelect(p, 0, type) = Writes(p, z)
  BY <1>1, Zenon DEF Writes
<1>4. /\ DOMAIN z = Kinds /\ z.AFEOVER = u /\ z.AFECTL = v /\ z.TXF_S0 = w /\ z.LUT_TRSW = x
      /\ \A k \in Kinds \ Routing : z[k] = p.cell[k]
  BY DEF Cells, Kinds, Routing
<1>5. \A k \in Kinds : DOMAIN z[k] = Cores
  BY <1>2, <1>4 DEF Cells, Routing
<1> HIDE DEF z
<1>6. Touch(p, Writes(p, z), Routing, {}) /\ Writes(p, z).cell = z
  BY <1>4, <1>5, TouchCells
<1> QED
  BY <1>2, <1>3, <1>4, <1>6 DEF Routing

(* A measurement leaves nothing but the radio's mux.                       *)
LEMMA PollSets ==
  ASSUME NEW p, NEW type
  PROVE  /\ Touch(p, PollRssi(p, type), {"TSSI"}, {})
         /\ type \in Narrow => Touch(p, PollRssi(p, type), {}, {})
         /\ Cells(p) => \A c \in Cores :
              PollRssi(p, type).cell.TSSI[c] \subseteq p.cell.TSSI[c] \union {"mux"}
<1> SUFFICES ASSUME Cells(p)
             PROVE  /\ Touch(p, PollRssi(p, type), {"TSSI"}, {})
                    /\ type \in Narrow => Touch(p, PollRssi(p, type), {}, {})
                    /\ \A c \in Cores :
                         PollRssi(p, type).cell.TSSI[c] \subseteq p.cell.TSSI[c] \union {"mux"}
  BY DEF Touch
<1> DEFINE mux == p.rev < 7 /\ type \notin {"IQ", "TBD"} /\ ~p.ipa
           u == Marked(p.cell.AFEOVER, Cores, {"rssi"})
           v == Unmarked(p.cell.AFECTL, Cores, {"rssi"})
           w == Marked(p.cell.LUT_TRSW, Cores, {"rssi"})
           x == Marked(p.cell.TXF_S0, Cores, {\h20})
           s == Marked(p.cell.AFECTL, Cores, {"rssi", "range"})
           t == IF mux THEN Marked(p.cell.TSSI, Cores, {"mux"}) ELSE p.cell.TSSI
           narrow == [p.cell EXCEPT !.AFEOVER = u, !.AFECTL = v, !.LUT_TRSW = w, !.TXF_S0 = x]
           wide == [p.cell EXCEPT !.AFEOVER = u, !.AFECTL = s, !.TSSI = t]
           z == IF type \in Narrow THEN narrow ELSE wide
           r == RssiSelect(p, 5, type)
<1>1. /\ type \in Narrow => r = [p EXCEPT !.cell.AFEOVER = u, !.cell.AFECTL = v,
                                          !.cell.LUT_TRSW = w, !.cell.TXF_S0 = x]
      /\ type \notin Narrow => r = [p EXCEPT !.cell.AFEOVER = u, !.cell.AFECTL = s, !.cell.TSSI = t]
  <2> HIDE DEF mux
  <2> QED
    BY DEF RssiSelect, mux
<1>2. /\ DOMAIN u = Cores /\ DOMAIN v = Cores /\ DOMAIN w = Cores /\ DOMAIN x = Cores
      /\ DOMAIN s = Cores /\ DOMAIN t = Cores
      /\ \A c \in Cores : t[c] \subseteq p.cell.TSSI[c] \union {"mux"}
  <2> HIDE DEF mux
  <2> QED
    BY PairMarks DEF Cells, Kinds
<1> HIDE DEF u, v, w, x, s, t, r
<1>3. r = Writes(p, z)
  <2>1. CASE type \in Narrow
    BY <1>1, <2>1, Zenon DEF Writes
  <2>2. CASE type \notin Narrow
    BY <1>1, <2>2, Zenon DEF Writes
  <2> QED
    BY <2>1, <2>2
<1>4. /\ DOMAIN z = Kinds
      /\ \A k \in Kinds \ (Routing \union {"TSSI"}) : z[k] = p.cell[k]
      /\ z.TSSI = IF type \in Narrow THEN p.cell.TSSI ELSE t
  BY DEF Cells, Kinds, Routing
<1>5. \A k \in Kinds : DOMAIN z[k] = Cores
  BY <1>2 DEF Cells, Kinds
<1> HIDE DEF z
<1>6. Touch(p, r, Routing \union {"TSSI"}, {}) /\ r.cell = z
  <2>1. Touch(p, Writes(p, z), Routing \union {"TSSI"}, {}) /\ Writes(p, z).cell = z
    BY <1>4, <1>5, TouchCells
  <2> QED
    BY <1>3, <2>1
<1>7. PollRssi(p, type) = PutBack(r, Routing, p.cell)
  BY DEF PollRssi, r, Routing, PutBack
<1>8. /\ Touch(r, PollRssi(p, type), Routing, {})
      /\ \A k \in Routing : PollRssi(p, type).cell[k] = p.cell[k]
  <2>1. Cells(r) /\ Routing \subseteq Kinds /\ \A k \in Routing : DOMAIN p.cell[k] = Cores
    BY <1>6 DEF Touch, Routing, Kinds, Cells
  <2> QED
    BY <1>7, <2>1, PutBackSets
<1>9. Cells(r)
  BY <1>6 DEF Touch
<1>10. \A c \in Cores : /\ PollRssi(p, type).cell.TSSI[c] = r.cell.TSSI[c]
                        /\ r.cell.TSSI[c] \subseteq p.cell.TSSI[c] \union {"mux"}
                        /\ type \in Narrow => r.cell.TSSI[c] = p.cell.TSSI[c]
  BY <1>2, <1>4, <1>6, <1>8, <1>9 DEF Touch, Routing, Kinds
<1>11. Touch(p, PollRssi(p, type), {"TSSI"}, {})
  BY <1>6, <1>8, <1>9 DEF Touch
<1> QED
  BY <1>10, <1>11 DEF Touch

(* The calibration of the receiver's offsets hands back all it takes but   *)
(* the switch's bits of 0x2ff, and remembers what it measured.             *)
LEMMA RssiCalRegs ==
  ASSUME NEW p, NEW ch
  PROVE  /\ Touch(p, RssiCal(p, ch), {"R2FF"}, {"rssi", "rssical"})
         /\ Cells(p) => RssiCal(p, ch).rssi = ch /\ RssiCal(p, ch).rssical = ch
<1> SUFFICES ASSUME Cells(p)
             PROVE  /\ Touch(p, RssiCal(p, ch), {"R2FF"}, {"rssi", "rssical"})
                    /\ RssiCal(p, ch).rssi = ch /\ RssiCal(p, ch).rssical = ch
  BY DEF Touch
<1> DEFINE deaf == [p EXCEPT !.search.on = TRUE]
           open == RssiCalOpen(p)
           done == RssiMeasured(open, ch)
           x == Unmarked(done.cell.OVER0, Cores, {\h1})
           y == Marked(done.cell.CMD, {0}, {"start"})
           u == p.cell.INTC
           intc == [done EXCEPT !.cell.INTC = u, !.cell.OVER0 = x, !.cell.CMD = y]
           back == PutBack(intc, RssiKinds(p.rev), p.cell)
           cached == [back EXCEPT !.rssical = ch]
           Cut == {"INTC", "R2FF", "OVER0", "TXF_S0"} \union IF p.rev >= 7 THEN {"OVER1", "OVER2"} ELSE {}
<1>1. Touch(p, deaf, {}, {})
  BY TouchOn
<1>2. Touch(p, open, Cut, {})
  <2> DEFINE off == IntcOverride(deaf, "OFF", Cores)
             cut == IntcOverride(off, "TRSW", Cores)
             up == OneToMany(OneToMany(cut, "RXRF_PU", Cores, FALSE), "RX_PU", Cores, FALSE)
  <2>1. open = IF p.rev >= 7 THEN RfCtlOverrideRev7(up, {\h80, \h40, \h20, \h10}, Cores, FALSE, 0)
               ELSE RfCtlOverride(cut, {\h80, \h40, \h20, \h10, \h2, \h1}, Cores, FALSE)
    BY Zenon DEF RssiCalOpen
  <2>2. \A r : Touch(p, r, {}, {}) \/ Touch(p, r, {"INTC", "R2FF", "OVER0"}, {}) => Touch(p, r, Cut, {})
    BY TouchMore
  <2> HIDE DEF deaf
  <2>3. Touch(p, cut, Cut, {})
    <3>1. Touch(deaf, off, {"INTC", "R2FF", "OVER0"}, {})
      BY IntcSets
    <3> HIDE DEF off
    <3>2. Touch(off, cut, {"INTC", "R2FF", "OVER0"}, {})
      BY IntcSets
    <3> HIDE DEF cut
    <3>3. Touch(deaf, off, Cut, {}) /\ Touch(off, cut, Cut, {})
      BY <3>1, <3>2, TouchMore
    <3> QED
      BY <1>1, <2>2, <3>3, TouchThen
  <2> HIDE DEF cut
  <2>4. CASE p.rev >= 7
    <3>1. Overs \subseteq Cut
      BY <2>4 DEF Overs
    <3> HIDE DEF Cut
    <3>2. \A r, cmd : Touch(p, r, Cut, {}) => Touch(p, OneToMany(r, cmd, Cores, FALSE), Cut, {})
      BY <3>1, OverTouch
    <3>3. Touch(p, up, Cut, {})
      BY <2>3, <3>2
    <3> HIDE DEF up
    <3>4. Touch(p, RfCtlOverrideRev7(up, {\h80, \h40, \h20, \h10}, Cores, FALSE, 0), Cut, {})
      BY <3>1, <3>3, OverTouch, ZenonT(60)
    <3> HIDE DEF open
    <3> QED
      BY <2>1, <2>4, <3>4
  <2>5. CASE ~(p.rev >= 7)
    <3>1. {"TXF_S0", "OVER0"} \subseteq Cut
      OBVIOUS
    <3> HIDE DEF Cut
    <3>2. Touch(p, RfCtlOverride(cut, {\h80, \h40, \h20, \h10, \h2, \h1}, Cores, FALSE), Cut, {})
      BY <2>3, <3>1, OverTouch
    <3> HIDE DEF open
    <3> QED
      BY <2>1, <2>5, <3>2
  <2> QED
    BY <2>4, <2>5
<1>3. RssiCal(p, ch) = [cached EXCEPT !.search.on = p.search.on]
  BY Zenon DEF RssiCal, RssiCalClose, open
<1> HIDE DEF open
<1>4. Touch(p, done, Cut, {"rssi"}) /\ done.rssi = ch
  <2> DEFINE poll == PollRssi(open, "NB")
             narrow == [poll EXCEPT !.rssi = ch]
             more == PollRssi(narrow, "W1")
  <2>1. Touch(open, poll, {}, {})
    BY PollSets DEF Narrow
  <2>2. done = [more EXCEPT !.rssi = ch]
    BY Zenon DEF RssiMeasured, ScaleOffsetRssi
  <2> HIDE DEF poll
  <2>3. Touch(poll, narrow, {}, {"rssi"})
    BY TouchField DEF Noted
  <2> HIDE DEF narrow
  <2>4. Touch(narrow, more, {}, {})
    BY PollSets DEF Narrow
  <2> HIDE DEF more, done
  <2>5. Touch(more, done, {}, {"rssi"}) /\ (Cells(more) => done.rssi = ch)
    BY <2>2, TouchField DEF Noted
  <2> HIDE DEF Cut
  <2>6. Touch(p, open, Cut, {"rssi"}) /\ Touch(open, poll, Cut, {"rssi"})
        /\ Touch(poll, narrow, Cut, {"rssi"}) /\ Touch(narrow, more, Cut, {"rssi"})
        /\ Touch(more, done, Cut, {"rssi"})
    BY <1>2, <2>1, <2>3, <2>4, <2>5, TouchMore
  <2>7. Touch(p, more, Cut, {"rssi"})
    BY <2>6, TouchThen
  <2>8. Cells(more)
    BY <2>7 DEF Touch
  <2> QED
    BY <2>5, <2>6, <2>7, <2>8, TouchThen
<1> HIDE DEF done
<1>5. Cells(done)
  BY <1>4 DEF Touch
<1>6. Touch(done, intc, {"INTC", "OVER0", "CMD"}, {}) /\ intc.cell.INTC = u
  <2>1. DOMAIN u = Cores /\ DOMAIN x = Cores /\ DOMAIN y = Cores
    BY PairMarks DEF Cells, Kinds
  <2> HIDE DEF u, x, y
  <2> DEFINE z == [done.cell EXCEPT !.INTC = u, !.OVER0 = x, !.CMD = y]
  <2>2. intc = Writes(done, z)
    BY Zenon DEF Writes
  <2>3. /\ DOMAIN z = Kinds /\ z.INTC = u /\ z.OVER0 = x /\ z.CMD = y
        /\ \A k \in Kinds \ {"INTC", "OVER0", "CMD"} : z[k] = done.cell[k]
    BY <1>5 DEF Cells, Kinds
  <2>4. \A k \in Kinds : DOMAIN z[k] = Cores
    BY <1>5, <2>1, <2>3 DEF Cells
  <2> HIDE DEF z, intc
  <2>5. Touch(done, Writes(done, z), {"INTC", "OVER0", "CMD"}, {}) /\ Writes(done, z).cell = z
    <3>1. \A k \in Kinds \ {"INTC", "OVER0", "CMD"} : \A c \in Cores : z[k][c] = done.cell[k][c]
      BY <2>3
    <3>2. DOMAIN z = Kinds
      BY <2>3
    <3> QED
      BY <1>5, <2>4, <3>1, <3>2, TouchCells, Zenon
  <2> QED
    BY <2>2, <2>3, <2>5
<1>7. RssiCal(p, ch) = [[PutBack([done EXCEPT !.cell.INTC = u, !.cell.OVER0 = x, !.cell.CMD = y],
                                 RssiKinds(p.rev), p.cell)
                          EXCEPT !.rssical = ch] EXCEPT !.search.on = p.search.on]
  BY <1>3
<1> HIDE DEF intc
<1>8. Cells(intc)
  BY <1>5, <1>6 DEF Touch
<1>9. /\ Touch(intc, back, RssiKinds(p.rev), {})
      /\ \A k \in RssiKinds(p.rev) : back.cell[k] = p.cell[k]
  <2>1. RssiKinds(p.rev) \subseteq Kinds
    BY DEF RssiKinds, Kinds
  <2>2. \A k \in RssiKinds(p.rev) : DOMAIN p.cell[k] = Cores
    BY <2>1 DEF Cells
  <2> DEFINE K == RssiKinds(p.rev)
             was == p.cell
  <2> HIDE DEF K, was
  <2>3. K \subseteq Kinds /\ \A k \in K : DOMAIN was[k] = Cores
    BY <2>1, <2>2 DEF K, was
  <2>4. Touch(intc, PutBack(intc, K, was), K, {})
    BY <2>3, PutBackSets
  <2>5. \A k \in K : PutBack(intc, K, was).cell[k] = was[k]
    BY <1>8, <2>3, PutBackSets
  <2> QED
    BY <2>4, <2>5 DEF K, was
<1> HIDE DEF back
<1>10. Cells(back)
  BY <1>8, <1>9 DEF Touch
<1>11. Touch(back, cached, {}, {"rssical"}) /\ cached.rssical = ch
  BY <1>10, TouchField DEF Noted
<1> HIDE DEF cached
<1>12. Touch(cached, RssiCal(p, ch), {}, {})
  BY <1>3, TouchOn
<1>13. Cells(cached)
  BY <1>10, <1>11 DEF Touch
<1>14. /\ Cells(RssiCal(p, ch))
       /\ \A k \in Kinds, c \in Cores : RssiCal(p, ch).cell[k][c] = back.cell[k][c]
       /\ \A f \in Noted \ {"rssical"} : RssiCal(p, ch)[f] = back[f]
       /\ RssiCal(p, ch).rssical = ch
  BY <1>10, <1>11, <1>12, <1>13 DEF Touch, Noted
<1>15. \A k \in Kinds \ {"R2FF"}, c \in Cores : back.cell[k][c] = p.cell[k][c]
  <2> TAKE k \in Kinds \ {"R2FF"}, c \in Cores
  <2>1. CASE k \in RssiKinds(p.rev)
    BY <1>9, <2>1
  <2>2. CASE k = "INTC"
    BY <1>6, <1>8, <1>9, <2>2 DEF Touch, RssiKinds, Kinds, u
  <2>3. CASE k \notin RssiKinds(p.rev) /\ k # "INTC"
    <3>1. k \notin Cut /\ k \notin {"INTC", "OVER0", "CMD"}
      BY <2>3 DEF RssiKinds
    <3> HIDE DEF Cut
    <3> QED
      BY <1>4, <1>5, <1>6, <1>8, <1>9, <2>3, <3>1 DEF Touch
  <2> QED
    BY <2>1, <2>2, <2>3
<1>16. \A f \in Noted \ {"rssi"} : back[f] = p[f]
  BY <1>4, <1>5, <1>6, <1>8, <1>9 DEF Touch
<1>17. back.rssi = ch
  BY <1>4, <1>5, <1>6, <1>8, <1>9 DEF Touch, Noted
<1> QED
  BY <1>14, <1>15, <1>16, <1>17 DEF Touch, Noted

(***************************************************************************)
(* Transmit power control.                                                 *)
(***************************************************************************)
LEMMA BracketTouch ==
  ASSUME NEW p
  PROVE  /\ Touch(p, Hold(p), {}, {}) /\ Touch(p, Release(p), {}, {})
         /\ Touch(p, EnterSearch(p), {}, {}) /\ Touch(p, LeaveSearch(p), {}, {})
         /\ Touch(p, Tables(p), {}, {})
<1>1. \A q : Touch(q, Hold(q), {}, {}) /\ Touch(q, Release(q), {}, {})
  <2> TAKE q
  <2>1. \A x : Touch(q, [q EXCEPT !.search = x], {}, {})
    BY TouchSearch
  <2> QED
    BY <2>1 DEF Hold, Release
<1>2. Touch(p, EnterSearch(p), {}, {}) /\ Touch(p, LeaveSearch(p), {}, {})
  <2>1. \A x : Touch(p, [p EXCEPT !.search = x], {}, {})
    BY TouchSearch
  <2> QED
    BY <2>1 DEF EnterSearch, LeaveSearch
<1>3. Touch(p, Tables(p), {}, {})
  <2>1. Touch(p, Hold(p), {}, {}) /\ Touch(Hold(p), Release(Hold(p)), {}, {})
    BY <1>1
  <2> QED
    BY <2>1, TouchThen DEF Tables
<1> QED
  BY <1>1, <1>2, <1>3

(* A step between the brackets.                                            *)
LEMMA TouchInside ==
  ASSUME NEW p, NEW q, NEW kinds, NEW fields, Touch(Hold(p), q, kinds, fields)
  PROVE  Touch(p, Release(q), kinds, fields)
<1>1. Touch(p, Hold(p), kinds, fields) /\ Touch(q, Release(q), kinds, fields)
  BY BracketTouch, TouchMore
<1> QED
  BY <1>1, TouchThen

LEMMA CtlSetupRegs ==
  ASSUME NEW p PROVE Touch(p, CtlSetup(p), {}, {})
<1> DEFINE h == Hold(p)
           n == [h EXCEPT !.power = [h.power EXCEPT !.init = Both(Start)]]
<1>1. CtlSetup(p) = Release(n)
  BY Zenon DEF CtlSetup
<1>2. Touch(h, n, {}, {})
  BY TouchAway DEF PhyFields, Levelling, Noted
<1> HIDE DEF n
<1> QED
  BY <1>1, <1>2, TouchInside

(* The converter's gain is overridden when the control goes off and no      *)
(* longer is when it goes on.                                              *)
LEMMA DacSets ==
  ASSUME NEW p, Cells(p)
  PROVE  /\ Touch(p, DacOverridden(p), {"AFEOVER"}, {})
         /\ Touch(p, SavedOverrideBack(p), {"AFEOVER"}, {})
         /\ Touch(p, DacFreed(p), {"AFEOVER", "PAPD_EN"}, {})
         /\ \A c \in Cores :
              /\ DacOverridden(p).cell.AFEOVER[c] = p.cell.AFEOVER[c] \union {"dac"}
              /\ SavedOverrideBack(p).cell.AFEOVER[c] = p.cell.AFEOVER[c] \ {"dac"}
              /\ DacFreed(p).cell.AFEOVER[c] = p.cell.AFEOVER[c] \ {"dac"}
              /\ DacFreed(p).cell.PAPD_EN[c] = IF p.ipa THEN p.cell.PAPD_EN[c] \ {"ext"}
                                               ELSE p.cell.PAPD_EN[c]
<1> DEFINE u == Marked(p.cell.AFEOVER, Cores, {"dac"})
           v == Unmarked(p.cell.AFEOVER, Cores, {"dac"})
           w == IF p.ipa THEN Unmarked(p.cell.PAPD_EN, Cores, {"ext"}) ELSE p.cell.PAPD_EN
<1>1. /\ DOMAIN u = Cores /\ DOMAIN v = Cores /\ DOMAIN w = Cores
      /\ \A c \in Cores : /\ u[c] = p.cell.AFEOVER[c] \union {"dac"}
                          /\ v[c] = p.cell.AFEOVER[c] \ {"dac"}
                          /\ w[c] = IF p.ipa THEN p.cell.PAPD_EN[c] \ {"ext"} ELSE p.cell.PAPD_EN[c]
  <2>1. DOMAIN p.cell.PAPD_EN = Cores
    BY DEF Cells, Kinds
  <2>2. DOMAIN u = Cores /\ DOMAIN v = Cores /\ DOMAIN w = Cores
    BY <2>1, PairMarks
  <2>3. \A c \in Cores : u[c] = p.cell.AFEOVER[c] \union {"dac"}
    BY PairMarks
  <2>4. \A c \in Cores : v[c] = p.cell.AFEOVER[c] \ {"dac"}
    BY PairMarks
  <2>5. \A c \in Cores : w[c] = IF p.ipa THEN p.cell.PAPD_EN[c] \ {"ext"} ELSE p.cell.PAPD_EN[c]
    <3>1. \A c \in Cores : Unmarked(p.cell.PAPD_EN, Cores, {"ext"})[c] = p.cell.PAPD_EN[c] \ {"ext"}
      BY PairMarks
    <3> QED
      BY <3>1
  <2> QED
    BY <2>2, <2>3, <2>4, <2>5
<1>2. /\ DacOverridden(p) = One(p, "AFEOVER", u)
      /\ SavedOverrideBack(p) = One(p, "AFEOVER", v)
      /\ DacFreed(p) = Two(p, "AFEOVER", v, "PAPD_EN", w)
  BY Zenon DEF DacOverridden, SavedOverrideBack, DacFreed, One, Two
<1> HIDE DEF u, v, w
<1>3. "AFEOVER" \in Kinds /\ "PAPD_EN" \in Kinds
  BY DEF Kinds
<1>4. Touch(p, DacOverridden(p), {"AFEOVER"}, {}) /\ DacOverridden(p).cell.AFEOVER = u
  BY <1>1, <1>2, <1>3, TouchOne
<1>5. Touch(p, SavedOverrideBack(p), {"AFEOVER"}, {}) /\ SavedOverrideBack(p).cell.AFEOVER = v
  BY <1>1, <1>2, <1>3, TouchOne
<1>6. Touch(p, DacFreed(p), {"AFEOVER", "PAPD_EN"}, {}) /\ DacFreed(p).cell.AFEOVER = v
      /\ DacFreed(p).cell.PAPD_EN = w
  BY <1>1, <1>2, <1>3, TouchTwo
<1> QED
  BY <1>1, <1>4, <1>5, <1>6

LEMMA TxPowerCtrlRegs ==
  ASSUME NEW p, Cells(p)
  PROVE  /\ \A enable \in BOOLEAN : Touch(p, TxPowerCtrl(p, enable), {"AFEOVER", "PAPD_EN"}, {})
         /\ Touch(p, TxPowerCtrl(p, FALSE), {"AFEOVER"}, {})
         /\ \A c \in Cores :
              /\ TxPowerCtrl(p, FALSE).cell.AFEOVER[c] = p.cell.AFEOVER[c] \union {"dac"}
              /\ TxPowerCtrl(p, TRUE).cell.AFEOVER[c] = p.cell.AFEOVER[c] \ {"dac"}
              /\ TxPowerCtrl(p, TRUE).cell.PAPD_EN[c] = IF p.ipa THEN p.cell.PAPD_EN[c] \ {"ext"}
                                                        ELSE p.cell.PAPD_EN[c]
<1> DEFINE held == Hold(p)
           switched(enable) == [held EXCEPT !.power = Switched(held.power, enable)]
           on == switched(TRUE)
           off == switched(FALSE)
           freed == DacFreed(on)
           over == DacOverridden(off)
<1>1. TxPowerCtrl(p, TRUE) = Release(freed) /\ TxPowerCtrl(p, FALSE) = Release(over)
  BY Zenon DEF TxPowerCtrl
<1>2. Touch(p, on, {}, {}) /\ Touch(p, off, {}, {})
  <2>1. \A x : Touch(held, [held EXCEPT !.power = x], {}, {})
    BY TouchAway DEF PhyFields, Levelling, Noted
  <2>2. Touch(p, held, {}, {})
    BY BracketTouch
  <2>3. \A x : Touch(p, [held EXCEPT !.power = x], {}, {})
    BY <2>1, <2>2, TouchThen
  <2> QED
    BY <2>3
<1> HIDE DEF on, off
<1>3. Cells(on) /\ Cells(off)
  BY <1>2 DEF Touch
<1>4. /\ Touch(on, freed, {"AFEOVER", "PAPD_EN"}, {})
      /\ Touch(off, over, {"AFEOVER"}, {})
      /\ \A c \in Cores :
           /\ over.cell.AFEOVER[c] = off.cell.AFEOVER[c] \union {"dac"}
           /\ freed.cell.AFEOVER[c] = on.cell.AFEOVER[c] \ {"dac"}
           /\ freed.cell.PAPD_EN[c] = IF on.ipa THEN on.cell.PAPD_EN[c] \ {"ext"}
                                      ELSE on.cell.PAPD_EN[c]
  BY <1>3, DacSets
<1> HIDE DEF freed, over
<1>5. Touch(freed, TxPowerCtrl(p, TRUE), {}, {}) /\ Touch(over, TxPowerCtrl(p, FALSE), {}, {})
  BY <1>1, BracketTouch
<1>6. Cells(freed) /\ Cells(over)
  BY <1>3, <1>4 DEF Touch
<1>7. /\ Touch(p, TxPowerCtrl(p, TRUE), {"AFEOVER", "PAPD_EN"}, {})
      /\ Touch(p, TxPowerCtrl(p, FALSE), {"AFEOVER"}, {})
  <2>1. Touch(p, TxPowerCtrl(p, TRUE), {"AFEOVER", "PAPD_EN"}, {})
    <3>1. Touch(p, freed, {"AFEOVER", "PAPD_EN"}, {})
      BY <1>2, <1>4, TouchBetween
    <3> QED
      BY <1>5, <3>1, TouchBetween
  <2>2. Touch(p, TxPowerCtrl(p, FALSE), {"AFEOVER"}, {})
    <3>1. Touch(p, over, {"AFEOVER"}, {})
      BY <1>2, <1>4, TouchBetween
    <3> QED
      BY <1>5, <3>1, TouchBetween
  <2> QED
    BY <2>1, <2>2
<1>8. Touch(p, TxPowerCtrl(p, FALSE), {"AFEOVER", "PAPD_EN"}, {})
  BY <1>7, TouchMore
<1>9. \A c \in Cores :
        /\ TxPowerCtrl(p, FALSE).cell.AFEOVER[c] = p.cell.AFEOVER[c] \union {"dac"}
        /\ TxPowerCtrl(p, TRUE).cell.AFEOVER[c] = p.cell.AFEOVER[c] \ {"dac"}
        /\ TxPowerCtrl(p, TRUE).cell.PAPD_EN[c] = IF p.ipa THEN p.cell.PAPD_EN[c] \ {"ext"}
                                                  ELSE p.cell.PAPD_EN[c]
  <2>1. \A c \in Cores :
          /\ off.cell.AFEOVER[c] = p.cell.AFEOVER[c] /\ on.cell.AFEOVER[c] = p.cell.AFEOVER[c]
          /\ on.cell.PAPD_EN[c] = p.cell.PAPD_EN[c]
    BY <1>2 DEF Touch, Kinds
  <2>2. on.ipa = p.ipa
    BY <1>2 DEF Touch, Noted
  <2>3. \A c \in Cores :
          /\ TxPowerCtrl(p, FALSE).cell.AFEOVER[c] = over.cell.AFEOVER[c]
          /\ TxPowerCtrl(p, TRUE).cell.AFEOVER[c] = freed.cell.AFEOVER[c]
          /\ TxPowerCtrl(p, TRUE).cell.PAPD_EN[c] = freed.cell.PAPD_EN[c]
    BY <1>5, <1>6 DEF Touch, Kinds
  <2> QED
    BY <1>4, <2>1, <2>2, <2>3, ZenonT(60)
<1> QED
  BY <1>7, <1>8, <1>9

LEMMA OnIndexRegs ==
  ASSUME NEW p, Cells(p), NEW c \in Cores, NEW i
  PROVE  /\ Touch(p, OnIndex(p, c, i), {"AFEOVER", "PAPD_EN"}, {})
         /\ \A d \in Cores :
              /\ OnIndex(p, c, i).cell.AFEOVER[d] =
                   p.cell.AFEOVER[d] \union IF d = c THEN {"dac"} ELSE {}
              /\ OnIndex(p, c, i).cell.PAPD_EN[d] =
                   p.cell.PAPD_EN[d] \union IF p.ipa /\ d = c THEN {"ext"} ELSE {}
<1> DEFINE u == Marked(p.cell.AFEOVER, {c}, {"dac"})
           w == IF p.ipa THEN Marked(p.cell.PAPD_EN, {c}, {"ext"}) ELSE p.cell.PAPD_EN
           two == Two(p, "AFEOVER", u, "PAPD_EN", w)
           g == [two EXCEPT !.gain = [two.gain EXCEPT ![c] = i]]
           m == [g EXCEPT !.mult = [g.mult EXCEPT ![c] = i]]
<1>1. OnIndex(p, c, i) = m
  BY Zenon DEF OnIndex, Two
<1>2. /\ DOMAIN u = Cores /\ DOMAIN w = Cores
      /\ \A d \in Cores : /\ u[d] = p.cell.AFEOVER[d] \union IF d = c THEN {"dac"} ELSE {}
                          /\ w[d] = p.cell.PAPD_EN[d] \union IF p.ipa /\ d = c THEN {"ext"} ELSE {}
  BY PairMarks DEF Cells, Kinds
<1> HIDE DEF u, w
<1>3. Touch(p, two, {"AFEOVER", "PAPD_EN"}, {}) /\ two.cell.AFEOVER = u /\ two.cell.PAPD_EN = w
  BY <1>2, TouchTwo DEF Kinds
<1> HIDE DEF two
<1>4. Touch(two, g, {}, {})
  BY TouchAway DEF PhyFields, Levelling, Noted
<1> HIDE DEF g
<1>5. Touch(g, m, {}, {})
  BY TouchAway DEF PhyFields, Levelling, Noted
<1> HIDE DEF m
<1>6. Cells(two) /\ Cells(g)
  BY <1>3, <1>4 DEF Touch
<1>7. Touch(p, m, {"AFEOVER", "PAPD_EN"}, {})
  BY <1>3, <1>4, <1>5, <1>6 DEF Touch
<1>8. \A d \in Cores : m.cell.AFEOVER[d] = u[d] /\ m.cell.PAPD_EN[d] = w[d]
  BY <1>3, <1>4, <1>5, <1>6 DEF Touch, Kinds
<1> QED
  BY <1>1, <1>2, <1>7, <1>8

(* The converter's gain is overridden, and with it the amplifier's offset:  *)
(* so it is while the control is off.                                      *)
Overridden(p) ==
  \A c \in Cores : "dac" \in p.cell.AFEOVER[c] /\ (p.ipa => "ext" \in p.cell.PAPD_EN[c])

LEMMA StaysOverridden ==
  ASSUME NEW p, NEW q, Cells(p), Overridden(p), Touch(p, q, {}, {})
  PROVE  Overridden(q)
<1>1. \A c \in Cores : q.cell.AFEOVER[c] = p.cell.AFEOVER[c] /\ q.cell.PAPD_EN[c] = p.cell.PAPD_EN[c]
  BY DEF Touch, Kinds
<1>2. q.ipa = p.ipa
  BY DEF Touch, Noted
<1> QED
  BY <1>1, <1>2 DEF Overridden

(* The gains of a control that is off override both.                       *)
LEMMA TxPowerFixRegs ==
  ASSUME NEW p, Cells(p)
  PROVE  /\ Touch(p, TxPowerFix(p), {"AFEOVER", "PAPD_EN"}, {})
         /\ \A c \in Cores :
              /\ TxPowerFix(p).cell.AFEOVER[c] = p.cell.AFEOVER[c] \union {"dac"}
              /\ TxPowerFix(p).cell.PAPD_EN[c] = p.cell.PAPD_EN[c] \union IF p.ipa THEN {"ext"} ELSE {}
<1> DEFINE h == Hold(p)
           n == [h EXCEPT !.internal = Internal]
           a == OnIndex(n, 0, Internal)
           b == OnIndex(a, 1, Internal)
<1>1. TxPowerFix(p) = Release(b)
  BY Zenon DEF TxPowerFix
<1>2. Touch(p, h, {}, {})
  BY BracketTouch
<1>3. Touch(h, n, {}, {})
  BY TouchAway DEF PhyFields, Levelling, Noted
<1>4. Touch(p, n, {}, {})
  BY <1>2, <1>3, TouchThen
<1> HIDE DEF n, h
<1>5. Cells(n)
  BY <1>4 DEF Touch
<1>6. /\ Touch(n, a, {"AFEOVER", "PAPD_EN"}, {})
      /\ \A d \in Cores :
           /\ a.cell.AFEOVER[d] = n.cell.AFEOVER[d] \union IF d = 0 THEN {"dac"} ELSE {}
           /\ a.cell.PAPD_EN[d] = n.cell.PAPD_EN[d] \union IF n.ipa /\ d = 0 THEN {"ext"} ELSE {}
  BY <1>5, OnIndexRegs DEF Cores
<1> HIDE DEF a
<1>7. Cells(a)
  BY <1>5, <1>6 DEF Touch
<1>8. /\ Touch(a, b, {"AFEOVER", "PAPD_EN"}, {})
      /\ \A d \in Cores :
           /\ b.cell.AFEOVER[d] = a.cell.AFEOVER[d] \union IF d = 1 THEN {"dac"} ELSE {}
           /\ b.cell.PAPD_EN[d] = a.cell.PAPD_EN[d] \union IF a.ipa /\ d = 1 THEN {"ext"} ELSE {}
  BY <1>7, OnIndexRegs DEF Cores
<1> HIDE DEF b
<1>9. Cells(b)
  BY <1>7, <1>8 DEF Touch
<1>10. Touch(b, TxPowerFix(p), {}, {})
  BY <1>1, BracketTouch
<1>11. Touch(p, TxPowerFix(p), {"AFEOVER", "PAPD_EN"}, {})
  <2>1. Touch(p, b, {"AFEOVER", "PAPD_EN"}, {})
    BY <1>4, <1>6, <1>8, TouchBetween, TouchThen
  <2> QED
    BY <2>1, <1>10, TouchBetween
<1>12. n.ipa = p.ipa /\ a.ipa = p.ipa
  BY <1>4, <1>5, <1>6 DEF Touch, Noted
<1>13. \A c \in Cores : /\ n.cell.AFEOVER[c] = p.cell.AFEOVER[c]
                        /\ n.cell.PAPD_EN[c] = p.cell.PAPD_EN[c]
                        /\ TxPowerFix(p).cell.AFEOVER[c] = b.cell.AFEOVER[c]
                        /\ TxPowerFix(p).cell.PAPD_EN[c] = b.cell.PAPD_EN[c]
  BY <1>4, <1>9, <1>10 DEF Touch, Kinds
<1>14. \A c \in Cores : TxPowerFix(p).cell.AFEOVER[c] = p.cell.AFEOVER[c] \union {"dac"}
  BY <1>6, <1>8, <1>13 DEF Cores
<1>15. \A c \in Cores : TxPowerFix(p).cell.PAPD_EN[c]
                          = p.cell.PAPD_EN[c] \union IF p.ipa THEN {"ext"} ELSE {}
  BY <1>6, <1>8, <1>12, <1>13 DEF Cores
<1> QED
  BY <1>11, <1>14, <1>15

(* Turned off again, whatever was done to the override.                     *)
LEMMA DacAgain ==
  ASSUME NEW p, Cells(p), NEW q, Touch(p, q, {"AFEOVER"}, {}),
         \A d \in Cores : q.cell.AFEOVER[d] \union {"dac"} = p.cell.AFEOVER[d]
  PROVE  Touch(p, TxPowerCtrl(q, FALSE), {}, {})
<1> DEFINE off == TxPowerCtrl(q, FALSE)
<1>1. Cells(q)
  BY DEF Touch
<1>2. /\ Touch(q, off, {"AFEOVER"}, {})
      /\ \A d \in Cores : off.cell.AFEOVER[d] = q.cell.AFEOVER[d] \union {"dac"}
  BY <1>1, TxPowerCtrlRegs
<1> HIDE DEF off
<1>3. Touch(p, off, {"AFEOVER"}, {})
  BY <1>2, TouchThen
<1>4. \A d \in Cores : off.cell.AFEOVER[d] = p.cell.AFEOVER[d]
  BY <1>2
<1>5. Touch(p, off, {}, {})
  BY <1>3, <1>4 DEF Touch
<1> QED
  BY <1>5 DEF off

(* The amplifier's offset is overridden on one chain.                      *)
Offset(p, q, c) ==
  \A d \in Cores : q.cell.PAPD_EN[d] =
                     p.cell.PAPD_EN[d] \union IF p.ipa /\ d = c THEN {"ext"} ELSE {}

(* A chain is forced on an index while the converter's gain is overridden:  *)
(* the amplifier's offset is from then on.                                  *)
LEMMA ForcePut ==
  ASSUME NEW p, Cells(p), \A d \in Cores : "dac" \in p.cell.AFEOVER[d],
         p.power.ctrl = FALSE, NEW c \in Cores, NEW i
  PROVE  /\ Touch(p, ForceIndex(p, c, i), {"PAPD_EN"}, {})
         /\ Offset(p, ForceIndex(p, c, i), c)
<1> DEFINE back == SavedOverrideBack(p)
<1>1. /\ Touch(p, back, {"AFEOVER"}, {})
      /\ \A d \in Cores : back.cell.AFEOVER[d] = p.cell.AFEOVER[d] \ {"dac"}
  BY DacSets
<1> HIDE DEF back
<1>2. \A d \in Cores : /\ p.cell.AFEOVER[d] \union {"dac"} = p.cell.AFEOVER[d]
                       /\ (p.cell.AFEOVER[d] \ {"dac"}) \union {"dac"} = p.cell.AFEOVER[d]
  OBVIOUS
<1>3. ASSUME NEW f \in {"gain", "mult", "savedGain", "savedMult", "forced"}, NEW r, NEW x
      PROVE  Touch(r, [r EXCEPT ![f] = x], {}, {})
  BY TouchAway DEF PhyFields, Levelling, Noted
<1> DEFINE g == [back EXCEPT !.savedGain = [back.savedGain EXCEPT ![c] = p.gain[c]]]
           m == [g EXCEPT !.savedMult = [g.savedMult EXCEPT ![c] = p.mult[c]]]
           kept == IF p.forced[c] = None THEN m ELSE p
           off == TxPowerCtrl(kept, FALSE)
           put == OnIndex(off, c, i)
           on == TxPowerCtrl(put, FALSE)
           f == [on EXCEPT !.forced = [on.forced EXCEPT ![c] = i]]
<1>4. ForceIndex(p, c, i) = f
  <2>1. ForceIndex(p, c, i) = [TxPowerCtrl(put, p.power.ctrl)
                                 EXCEPT !.forced = [TxPowerCtrl(put, p.power.ctrl).forced EXCEPT ![c] = i]]
    BY Zenon DEF ForceIndex, back
  <2> HIDE DEF put
  <2> QED
    BY <2>1
<1>5. Touch(back, m, {}, {})
  <2>1. Touch(back, g, {}, {})
    BY <1>3
  <2> HIDE DEF g
  <2>2. Touch(g, m, {}, {})
    BY <1>3
  <2> QED
    BY <2>1, <2>2, TouchThen
<1> HIDE DEF m
<1>6. Touch(p, off, {}, {})
  <2>1. Touch(p, m, {"AFEOVER"}, {})
    BY <1>1, <1>5, TouchBetween
  <2>2. Cells(back)
    BY <1>1 DEF Touch
  <2>3. \A d \in Cores : m.cell.AFEOVER[d] = p.cell.AFEOVER[d] \ {"dac"}
    BY <1>1, <1>5, <2>2 DEF Touch, Kinds
  <2>4. Touch(p, TxPowerCtrl(m, FALSE), {}, {})
    <3>1. \A d \in Cores : m.cell.AFEOVER[d] \union {"dac"} = p.cell.AFEOVER[d]
      BY <1>2, <2>3
    <3> QED
      BY <2>1, <3>1, DacAgain
  <2>5. Touch(p, TxPowerCtrl(p, FALSE), {}, {})
    <3>1. \A d \in Cores : p.cell.AFEOVER[d] \union {"dac"} = p.cell.AFEOVER[d]
      BY <1>2
    <3>2. Touch(p, p, {"AFEOVER"}, {})
      BY TouchItself
    <3> QED
      BY <3>1, <3>2, DacAgain
  <2> QED
    BY <2>4, <2>5
<1> HIDE DEF off
<1>7. Cells(off) /\ off.ipa = p.ipa
      /\ \A d \in Cores : off.cell.AFEOVER[d] = p.cell.AFEOVER[d]
                          /\ off.cell.PAPD_EN[d] = p.cell.PAPD_EN[d]
  BY <1>6 DEF Touch, Kinds, Noted
<1>8. /\ Touch(off, put, {"AFEOVER", "PAPD_EN"}, {})
      /\ \A d \in Cores :
           /\ put.cell.AFEOVER[d] = off.cell.AFEOVER[d] \union IF d = c THEN {"dac"} ELSE {}
           /\ put.cell.PAPD_EN[d] = off.cell.PAPD_EN[d] \union IF off.ipa /\ d = c THEN {"ext"} ELSE {}
  BY <1>7, OnIndexRegs
<1> HIDE DEF put
<1>9. \A d \in Cores : put.cell.AFEOVER[d] = p.cell.AFEOVER[d]
  BY <1>7, <1>8, ZenonT(60)
<1>10. /\ Touch(off, put, {"PAPD_EN"}, {})
       /\ \A d \in Cores : put.cell.PAPD_EN[d]
                            = p.cell.PAPD_EN[d] \union IF p.ipa /\ d = c THEN {"ext"} ELSE {}
  BY <1>7, <1>8, <1>9 DEF Touch
<1>11. Touch(put, on, {}, {})
  <2>1. Cells(put)
    BY <1>7, <1>8 DEF Touch
  <2>2. \A d \in Cores : put.cell.AFEOVER[d] \union {"dac"} = put.cell.AFEOVER[d]
    BY <1>9
  <2>3. Touch(put, put, {"AFEOVER"}, {})
    BY TouchItself
  <2> QED
    BY <2>1, <2>2, <2>3, DacAgain
<1> HIDE DEF on
<1>12. Touch(on, f, {}, {})
  BY <1>3
<1> HIDE DEF f
<1>13. Touch(put, f, {}, {})
  BY <1>11, <1>12, TouchThen
<1>14. Touch(p, f, {"PAPD_EN"}, {})
  <2>1. Touch(p, put, {"PAPD_EN"}, {})
    BY <1>6, <1>10, TouchBetween
  <2> QED
    BY <1>13, <2>1, TouchBetween
<1>15. \A d \in Cores : f.cell.PAPD_EN[d] = put.cell.PAPD_EN[d]
  <2>1. Cells(put)
    BY <1>7, <1>8 DEF Touch
  <2> QED
    BY <1>13, <2>1 DEF Touch, Kinds
<1>16. Offset(p, f, c)
  BY <1>10, <1>15 DEF Offset
<1> QED
  BY <1>4, <1>14, <1>16

(* While they are overridden an index is forced, and a chain given back,    *)
(* without a trace in the registers.                                       *)
LEMMA ForceTouch ==
  ASSUME NEW p, Cells(p), Overridden(p), p.power.ctrl = FALSE, NEW c \in Cores, NEW i
  PROVE  /\ Touch(p, ForceIndex(p, c, i), {}, {}) /\ Touch(p, HandBack(p, c), {}, {})
<1> DEFINE back == SavedOverrideBack(p)
<1>1. /\ Touch(p, back, {"AFEOVER"}, {})
      /\ \A d \in Cores : back.cell.AFEOVER[d] = p.cell.AFEOVER[d] \ {"dac"}
  BY DacSets
<1> HIDE DEF back
<1>2. ASSUME NEW q, Touch(p, q, {"AFEOVER"}, {}),
             \A d \in Cores : q.cell.AFEOVER[d] \union {"dac"} = p.cell.AFEOVER[d]
      PROVE  Touch(p, TxPowerCtrl(q, FALSE), {}, {})
  BY <1>2, DacAgain
<1>3. \A d \in Cores : /\ p.cell.AFEOVER[d] \union {"dac"} = p.cell.AFEOVER[d]
                       /\ (p.cell.AFEOVER[d] \ {"dac"}) \union {"dac"} = p.cell.AFEOVER[d]
  BY DEF Overridden
<1>4. ASSUME NEW f \in {"gain", "mult", "savedGain", "savedMult", "forced"}, NEW r, NEW x
      PROVE  Touch(r, [r EXCEPT ![f] = x], {}, {})
  BY TouchAway DEF PhyFields, Levelling, Noted
<1>5. Touch(p, ForceIndex(p, c, i), {}, {})
  <2> DEFINE f == ForceIndex(p, c, i)
  <2>1. \A d \in Cores : "dac" \in p.cell.AFEOVER[d]
    BY DEF Overridden
  <2>2. Touch(p, f, {"PAPD_EN"}, {}) /\ Offset(p, f, c)
    BY <2>1, ForcePut
  <2> HIDE DEF f
  <2>3. \A d \in Cores : p.ipa => "ext" \in p.cell.PAPD_EN[d]
    BY DEF Overridden
  <2>4. ASSUME NEW d \in Cores PROVE f.cell.PAPD_EN[d] = p.cell.PAPD_EN[d]
    <3> DEFINE ext == IF p.ipa /\ d = c THEN {"ext"} ELSE {}
    <3>1. ext \subseteq p.cell.PAPD_EN[d]
      BY <2>3
    <3>2. f.cell.PAPD_EN[d] = p.cell.PAPD_EN[d] \union ext
      BY <2>2 DEF Offset
    <3> HIDE DEF ext
    <3> QED
      BY <3>1, <3>2
  <2> QED
    BY <2>2, <2>4 DEF Touch, f
<1>6. Touch(p, HandBack(p, c), {}, {})
  <2> DEFINE g == [back EXCEPT !.gain = [back.gain EXCEPT ![c] = p.savedGain[c]]]
             m == [g EXCEPT !.mult = [g.mult EXCEPT ![c] = p.savedMult[c]]]
             on == TxPowerCtrl(m, FALSE)
             f == [on EXCEPT !.forced = [on.forced EXCEPT ![c] = None]]
  <2>1. HandBack(p, c) = IF p.forced[c] = None THEN p ELSE f
    <3>1. HandBack(p, c) = IF p.forced[c] = None THEN p
            ELSE [TxPowerCtrl(m, p.power.ctrl)
                    EXCEPT !.forced = [TxPowerCtrl(m, p.power.ctrl).forced EXCEPT ![c] = None]]
      BY Zenon DEF HandBack, back
    <3> HIDE DEF m
    <3> QED
      BY <3>1
  <2>2. Touch(back, m, {}, {})
    <3>1. Touch(back, g, {}, {})
      BY <1>4
    <3> HIDE DEF g
    <3>2. Touch(g, m, {}, {})
      BY <1>4
    <3> QED
      BY <3>1, <3>2, TouchThen
  <2> HIDE DEF m
  <2>3. Touch(p, on, {}, {})
    <3>1. Touch(p, m, {"AFEOVER"}, {})
      BY <1>1, <2>2, TouchBetween
    <3>2. Cells(back)
      BY <1>1 DEF Touch
    <3>3. \A d \in Cores : m.cell.AFEOVER[d] = p.cell.AFEOVER[d] \ {"dac"}
      BY <1>1, <2>2, <3>2 DEF Touch, Kinds
    <3> QED
      BY <1>2, <1>3, <3>1, <3>3
  <2> HIDE DEF on
  <2>4. Touch(on, f, {}, {})
    BY <1>4
  <2>5. Touch(p, f, {}, {})
    BY <2>3, <2>4, TouchThen
  <2> QED
    BY <2>1, <2>5, TouchItself
<1> QED
  BY <1>5, <1>6
LEMMA IndexTouch ==
  ASSUME NEW p, Good(p), Cells(p), Overridden(p), p.power.ctrl = FALSE, NEW c \in Cores
  PROVE  /\ \A i : Touch(p, TxpwrIndex(p, c, i), {}, {}) /\ Overridden(TxpwrIndex(p, c, i))
         /\ Touch(p, HandBackChain(p, c), {}, {}) /\ Overridden(HandBackChain(p, c))
<1> DEFINE h == Hold(p)
<1>1. Touch(p, h, {}, {}) /\ h.power = p.power
  BY BracketTouch, BracketValues DEF PhyFields, Levelling
<1>2. Cells(h) /\ Overridden(h)
  BY <1>1, StaysOverridden DEF Touch
<1> HIDE DEF h
<1>3. \A i : Touch(h, ForceIndex(h, c, i), {}, {}) /\ Touch(h, HandBack(h, c), {}, {})
  BY <1>1, <1>2, ForceTouch
<1>4. Touch(p, HandBackChain(p, c), {}, {})
  BY <1>3, TouchInside DEF HandBackChain, h
<1>5. \A i : Touch(p, TxpwrIndex(p, c, i), {}, {})
  BY <1>3, TouchInside DEF TxpwrIndex, h
<1> QED
  BY <1>4, <1>5, StaysOverridden

LEMMA GainsTouch ==
  ASSUME NEW p PROVE Touch(p, GetTxGains(p), {}, {})
<1> DEFINE q == [p EXCEPT !.atGain = p.power.index]
<1>1. Touch(p, q, {}, {})
  BY TouchAway DEF PhyFields, Levelling, Noted
<1> HIDE DEF q
<1>2. GetTxGains(p) = IF p.power.ctrl THEN q ELSE Tables(p)
  BY DEF GetTxGains, q
<1> QED
  BY <1>1, <1>2, BracketTouch

(***************************************************************************)
(* Playing samples.                                                        *)
(***************************************************************************)
(* The filter's override, which is in the second register.                 *)
LEMMA FilterSets ==
  ASSUME NEW p, Cells(p), NEW bits, NEW cs
  PROVE  /\ \A off \in BOOLEAN : Touch(p, RfCtlOverrideRev7(p, bits, cs, off, 1), {"OVER1"}, {})
         /\ RfCtlOverrideRev7(p, bits, cs, TRUE, 1).cell.OVER1 = Unmarked(p.cell.OVER1, Cores, bits)
         /\ RfCtlOverrideRev7(p, bits, cs, FALSE, 1).cell.OVER1 = Marked(p.cell.OVER1, cs, bits)
<1> DEFINE k == OverOf(1)
<1>1. k = "OVER1"
  BY DEF OverOf
<1> HIDE DEF k
<1>2. \A off \in BOOLEAN : Touch(p, RfCtlOverrideRev7(p, bits, cs, off, 1), {k}, {})
  BY RfCtlSets DEF k
<1>3. ASSUME NEW off \in BOOLEAN
      PROVE  RfCtlOverrideRev7(p, bits, cs, off, 1).cell[k] =
               IF off THEN Unmarked(p.cell[k], Cores, bits) ELSE Marked(p.cell[k], cs, bits)
  BY RfCtlSets DEF k
<1>4. RfCtlOverrideRev7(p, bits, cs, TRUE, 1).cell[k] = Unmarked(p.cell[k], Cores, bits)
  BY <1>3
<1>5. RfCtlOverrideRev7(p, bits, cs, FALSE, 1).cell[k] = Marked(p.cell[k], cs, bits)
  BY <1>3
<1> QED
  BY <1>1, <1>2, <1>4, <1>5

(* Stopping takes the filter's override off if a tone owns it.             *)
LEMMA StopTouch ==
  ASSUME NEW p, Cells(p)
  PROVE  /\ p.lpf = FALSE => Touch(p, StopPlayback(p), {}, {})
         /\ p.lpf = TRUE /\ p.rev >= 7 =>
              /\ Touch(p, StopPlayback(p), {"OVER1"}, {"lpf"})
              /\ StopPlayback(p).lpf = FALSE
              /\ \A c \in Cores : StopPlayback(p).cell.OVER1[c] = p.cell.OVER1[c] \ {\h80}
<1> DEFINE h == Hold(p)
           m == [h EXCEPT !.mult = IF p.multSave = <<>> THEN h.mult ELSE p.multSave[1]]
           s == [m EXCEPT !.multSave = <<>>]
           o == RfCtlOverrideRev7(s, {\h80}, Cores, TRUE, 1)
           f == [o EXCEPT !.lpf = FALSE]
<1>1. StopPlayback(p) = Release(IF p.rev >= 7 /\ p.lpf THEN f ELSE s)
  BY Zenon DEF StopPlayback
<1>2. Touch(p, h, {}, {})
  BY BracketTouch
<1>3. Touch(h, m, {}, {})
  BY TouchAway DEF PhyFields, Levelling, Noted
<1> HIDE DEF m
<1>4. Touch(m, s, {}, {})
  BY TouchAway DEF PhyFields, Levelling, Noted
<1> HIDE DEF s
<1>5. Touch(p, s, {}, {})
  BY <1>2, <1>3, <1>4, TouchThen
<1>6. CASE p.lpf = FALSE
  <2>1. StopPlayback(p) = Release(s)
    BY <1>1, <1>6
  <2>2. Touch(s, Release(s), {}, {})
    BY BracketTouch
  <2> QED
    BY <1>5, <1>6, <2>1, <2>2, TouchThen
<1>7. CASE p.lpf = TRUE /\ p.rev >= 7
  <2>1. StopPlayback(p) = Release(f)
    BY <1>1, <1>7
  <2>2. Cells(s)
    BY <1>5 DEF Touch
  <2>4. Touch(s, o, {"OVER1"}, {})
    BY <2>2, FilterSets
  <2>5. o.cell.OVER1 = Unmarked(s.cell.OVER1, Cores, {\h80})
    BY <2>2, FilterSets, ZenonT(60)
  <2> HIDE DEF o
  <2>6. Cells(o)
    BY <2>2, <2>4 DEF Touch
  <2>7. Touch(o, f, {}, {"lpf"}) /\ f.lpf = FALSE
    BY <2>6, TouchField DEF Noted
  <2> HIDE DEF f
  <2>8. Touch(f, StopPlayback(p), {}, {})
    BY <2>1, BracketTouch
  <2>9. Cells(f)
    BY <2>6, <2>7 DEF Touch
  <2>10. Touch(p, StopPlayback(p), {"OVER1"}, {"lpf"})
    <3>1. Touch(s, o, {"OVER1"}, {"lpf"}) /\ Touch(o, f, {"OVER1"}, {"lpf"})
      BY <2>4, <2>7, TouchMore
    <3>2. Touch(s, f, {"OVER1"}, {"lpf"})
      BY <3>1, TouchThen
    <3>3. Touch(p, f, {"OVER1"}, {"lpf"})
      BY <1>5, <3>2, TouchBetween
    <3> QED
      BY <2>8, <3>3, TouchBetween
  <2>11. StopPlayback(p).lpf = FALSE
    BY <2>7, <2>8, <2>9 DEF Touch, Noted
  <2>12. \A c \in Cores : StopPlayback(p).cell.OVER1[c] = p.cell.OVER1[c] \ {\h80}
    <3>1. \A c \in Cores : /\ StopPlayback(p).cell.OVER1[c] = f.cell.OVER1[c]
                           /\ f.cell.OVER1[c] = o.cell.OVER1[c]
                           /\ s.cell.OVER1[c] = p.cell.OVER1[c]
      <4>1. \A c \in Cores : StopPlayback(p).cell.OVER1[c] = f.cell.OVER1[c]
        BY <2>8, <2>9 DEF Touch, Kinds
      <4>2. \A c \in Cores : f.cell.OVER1[c] = o.cell.OVER1[c]
        BY <2>6, <2>7 DEF Touch, Kinds
      <4>3. \A c \in Cores : s.cell.OVER1[c] = p.cell.OVER1[c]
        BY <1>5 DEF Touch, Kinds
      <4> QED
        BY <4>1, <4>2, <4>3
    <3>2. \A c \in Cores : o.cell.OVER1[c] = s.cell.OVER1[c] \ {\h80}
      BY <2>5, PairMarks
    <3>3. ASSUME NEW c \in Cores
          PROVE  StopPlayback(p).cell.OVER1[c] = p.cell.OVER1[c] \ {\h80}
      <4>1. StopPlayback(p).cell.OVER1[c] = o.cell.OVER1[c]
        BY <3>1
      <4>2. o.cell.OVER1[c] = s.cell.OVER1[c] \ {\h80}
        BY <3>2
      <4>3. s.cell.OVER1[c] = p.cell.OVER1[c]
        BY <3>1
      <4> QED
        BY <4>1, <4>2, <4>3, Zenon
    <3> QED
      BY <3>3
  <2> QED
    BY <1>7, <2>10, <2>11, <2>12
<1> QED
  BY <1>6, <1>7

(* A tone owns the override of the filter if it put it on.                 *)
Owns(p, q) ==
  /\ Touch(p, q, {"OVER1"}, {"lpf"})
  /\ q.lpf = TRUE /\ q.rev >= 7
  /\ \A c \in Cores : \h80 \notin p.cell.OVER1[c]
                      /\ q.cell.OVER1[c] = p.cell.OVER1[c] \union {\h80}

LEMMA ToneTouch ==
  ASSUME NEW p, Cells(p), p.rev \in Int, NEW memory
  PROVE  /\ Touch(p, Tone(p, memory), {}, {}) \/ Owns(p, Tone(p, memory))
         /\ Filtered(p) => Touch(p, Tone(p, memory), {}, {})
<1> DEFINE l == LoadSamples(p)
           e == EnterSearch(l)
           o == RfCtlOverrideRev7(e, {\h80}, Cores, FALSE, 1)
           w == [o EXCEPT !.lpf = TRUE]
           q == FilterForPlay(e)
           s == [q EXCEPT !.multSave = IF q.multSave = <<>> THEN <<q.mult>> ELSE q.multSave]
<1>1. Tone(p, memory) = IF memory THEN LeaveSearch(s) ELSE p
  BY Zenon DEF Tone, RunSamples
<1>2. q = IF e.rev < 7 \/ \E c \in Cores : \h80 \in e.cell.OVER1[c] THEN e ELSE w
  BY Zenon DEF FilterForPlay
<1>3. Touch(p, e, {}, {})
  <2>1. Touch(p, l, {}, {})
    BY BracketTouch DEF LoadSamples
  <2>2. Touch(l, e, {}, {})
    BY BracketTouch
  <2> QED
    BY <2>1, <2>2, TouchThen
<1> HIDE DEF e
<1>4. Cells(e) /\ e.rev = p.rev /\ \A c \in Cores : e.cell.OVER1[c] = p.cell.OVER1[c]
  BY <1>3 DEF Touch, Noted, Kinds
<1> HIDE DEF q
<1>5. Touch(q, LeaveSearch(s), {}, {})
  <2>1. Touch(q, s, {}, {})
    BY TouchAway DEF PhyFields, Levelling, Noted
  <2> HIDE DEF s
  <2>2. Touch(s, LeaveSearch(s), {}, {})
    BY BracketTouch
  <2> QED
    BY <2>1, <2>2, TouchThen
<1> HIDE DEF s
<1>6. CASE ~memory
  BY <1>1, <1>6, TouchItself
<1>7. CASE memory /\ (e.rev < 7 \/ \E c \in Cores : \h80 \in e.cell.OVER1[c])
  <2>1. q = e
    BY <1>2, <1>7
  <2>2. Touch(p, LeaveSearch(s), {}, {})
    BY <1>3, <1>5, <2>1, TouchThen
  <2> QED
    BY <1>1, <1>7, <2>2
<1>8. CASE memory /\ ~(e.rev < 7 \/ \E c \in Cores : \h80 \in e.cell.OVER1[c])
  <2>1. q = w
    BY <1>2, <1>8
  <2>2. ~Filtered(p)
    BY <1>4, <1>8 DEF Filtered
  <2>4. Touch(e, o, {"OVER1"}, {})
    BY <1>4, FilterSets
  <2>5. o.cell.OVER1 = Marked(e.cell.OVER1, Cores, {\h80})
    <3>1. Cells(e)
      BY <1>4
    <3> QED
      BY <3>1, FilterSets
  <2> HIDE DEF o
  <2>6. Cells(o)
    BY <1>4, <2>4 DEF Touch
  <2>7. Touch(o, w, {}, {"lpf"}) /\ w.lpf = TRUE
    BY <2>6, TouchField DEF Noted
  <2> HIDE DEF w
  <2>8. Cells(w)
    BY <2>6, <2>7 DEF Touch
  <2>9. Touch(p, LeaveSearch(s), {"OVER1"}, {"lpf"})
    <3>1. Touch(e, o, {"OVER1"}, {"lpf"}) /\ Touch(o, w, {"OVER1"}, {"lpf"})
      BY <2>4, <2>7, TouchMore
    <3>2. Touch(e, w, {"OVER1"}, {"lpf"})
      BY <3>1, TouchThen
    <3>3. Touch(p, w, {"OVER1"}, {"lpf"})
      BY <1>3, <3>2, TouchBetween
    <3> QED
      BY <1>5, <2>1, <3>3, TouchBetween
  <2>10. LeaveSearch(s).lpf = TRUE
    BY <1>5, <2>1, <2>7, <2>8 DEF Touch, Noted
  <2>11. LeaveSearch(s).rev = p.rev
    BY <2>9 DEF Touch, Noted
  <2>12. \A c \in Cores : LeaveSearch(s).cell.OVER1[c] = p.cell.OVER1[c] \union {\h80}
    <3>1. \A c \in Cores : /\ LeaveSearch(s).cell.OVER1[c] = w.cell.OVER1[c]
                           /\ w.cell.OVER1[c] = o.cell.OVER1[c]
      <4>1. \A c \in Cores : LeaveSearch(s).cell.OVER1[c] = w.cell.OVER1[c]
        BY <1>5, <2>1, <2>8 DEF Touch, Kinds
      <4>2. \A c \in Cores : w.cell.OVER1[c] = o.cell.OVER1[c]
        BY <2>6, <2>7 DEF Touch, Kinds
      <4> QED
        BY <4>1, <4>2
    <3>2. \A c \in Cores : o.cell.OVER1[c] = e.cell.OVER1[c] \union {\h80}
      BY <2>5, PairMarks
    <3>3. ASSUME NEW c \in Cores
          PROVE  LeaveSearch(s).cell.OVER1[c] = p.cell.OVER1[c] \union {\h80}
      <4>1. LeaveSearch(s).cell.OVER1[c] = o.cell.OVER1[c]
        BY <3>1
      <4>2. o.cell.OVER1[c] = e.cell.OVER1[c] \union {\h80}
        BY <3>2
      <4>3. e.cell.OVER1[c] = p.cell.OVER1[c]
        BY <1>4
      <4> QED
        BY <4>1, <4>2, <4>3, Zenon
    <3> QED
      BY <3>3
  <2>13. p.rev >= 7
    BY <1>4, <1>8
  <2>14. Owns(p, Tone(p, memory))
    BY <1>1, <1>4, <1>8, <2>9, <2>10, <2>11, <2>12, <2>13 DEF Owns
  <2> QED
    BY <2>2, <2>14
<1> QED
  BY <1>6, <1>7, <1>8

(* Once stopped, a tone has left the filter as it was.                     *)
LEMMA PlayTouch ==
  ASSUME NEW p, Cells(p), p.lpf = FALSE, p.rev \in Int, NEW memory,
         NEW r, NEW kinds, NEW fields, Touch(Tone(p, memory), r, kinds, fields),
         "OVER1" \notin kinds, "lpf" \notin fields, "rev" \notin fields
  PROVE  Touch(p, StopPlayback(r), kinds, fields)
<1> DEFINE t == Tone(p, memory)
           s == StopPlayback(r)
<1>1. Touch(t, r, kinds, fields) /\ (Touch(p, t, {}, {}) \/ Owns(p, t))
  BY ToneTouch
<1> HIDE DEF t
<1>2. Cells(t)
  BY <1>1 DEF Touch, Owns
<1>3. Cells(r) /\ r.lpf = t.lpf /\ r.rev = t.rev
      /\ \A c \in Cores : r.cell.OVER1[c] = t.cell.OVER1[c]
  BY <1>1, <1>2 DEF Touch, Noted, Kinds
<1>4. CASE Touch(p, t, {}, {})
  <2>1. r.lpf = FALSE
    BY <1>3, <1>4 DEF Touch, Noted
  <2>2. Touch(r, s, {}, {})
    BY <1>3, <2>1, StopTouch
  <2> HIDE DEF s
  <2>3. Touch(p, r, kinds, fields)
    BY <1>1, <1>4, TouchBetween
  <2>4. Touch(p, s, kinds, fields)
    BY <2>2, <2>3, TouchBetween
  <2> QED
    BY <2>4 DEF s
<1>5. CASE Owns(p, t)
  <2>1. Touch(p, t, {"OVER1"}, {"lpf"})
    BY <1>5 DEF Owns
  <2>2. r.lpf = TRUE /\ r.rev >= 7
    BY <1>3, <1>5 DEF Owns
  <2>3. /\ Touch(r, s, {"OVER1"}, {"lpf"}) /\ s.lpf = FALSE
        /\ \A c \in Cores : s.cell.OVER1[c] = r.cell.OVER1[c] \ {\h80}
    <3>1. Touch(r, s, {"OVER1"}, {"lpf"})
      BY <1>3, <2>2, StopTouch
    <3>2. s.lpf = FALSE
      BY <1>3, <2>2, StopTouch
    <3>3. \A c \in Cores : s.cell.OVER1[c] = r.cell.OVER1[c] \ {\h80}
      BY <1>3, <2>2, StopTouch
    <3> QED
      BY <3>1, <3>2, <3>3
  <2> HIDE DEF s
  <2>4. \A c \in Cores : s.cell.OVER1[c] = p.cell.OVER1[c]
    <3>1. \A c \in Cores : /\ t.cell.OVER1[c] = p.cell.OVER1[c] \union {\h80}
                           /\ \h80 \notin p.cell.OVER1[c]
      BY <1>5 DEF Owns
    <3>2. \A c \in Cores : s.cell.OVER1[c] = t.cell.OVER1[c] \ {\h80}
      BY <1>3, <2>3
    <3>3. ASSUME NEW c \in Cores PROVE s.cell.OVER1[c] = p.cell.OVER1[c]
      <4>1. s.cell.OVER1[c] = t.cell.OVER1[c] \ {\h80}
        BY <3>2
      <4>2. t.cell.OVER1[c] = p.cell.OVER1[c] \union {\h80}
        BY <3>1
      <4>3. \h80 \notin p.cell.OVER1[c]
        BY <3>1
      <4> QED
        BY <4>1, <4>2, <4>3
    <3> QED
      BY <3>3
  <2>5. Cells(s)
    BY <1>3, <2>3 DEF Touch
  <2>6. \A k \in Kinds \ kinds : \A c \in Cores : s.cell[k][c] = p.cell[k][c]
    <3>1. \A k \in Kinds \ (kinds \union {"OVER1"}) : \A c \in Cores :
            /\ s.cell[k][c] = r.cell[k][c] /\ r.cell[k][c] = t.cell[k][c]
            /\ t.cell[k][c] = p.cell[k][c]
      <4>1. ASSUME NEW k \in Kinds \ (kinds \union {"OVER1"}), NEW c \in Cores
            PROVE  /\ s.cell[k][c] = r.cell[k][c] /\ r.cell[k][c] = t.cell[k][c]
                   /\ t.cell[k][c] = p.cell[k][c]
        <5>1. s.cell[k][c] = r.cell[k][c]
          BY <1>3, <2>3 DEF Touch
        <5>2. r.cell[k][c] = t.cell[k][c]
          BY <1>1, <1>2 DEF Touch
        <5>3. t.cell[k][c] = p.cell[k][c]
          BY <2>1 DEF Touch
        <5> QED
          BY <5>1, <5>2, <5>3
      <4> QED
        BY <4>1
    <3> QED
      BY <2>4, <3>1
  <2>7. \A f \in Noted \ fields : s[f] = p[f]
    <3>1. \A f \in Noted \ (fields \union {"lpf"}) :
            s[f] = r[f] /\ r[f] = t[f] /\ t[f] = p[f]
      BY <1>1, <1>2, <1>3, <2>1, <2>3 DEF Touch
    <3>2. s.lpf = p.lpf
      BY <2>3
    <3> QED
      BY <3>1, <3>2
  <2> QED
    BY <2>5, <2>6, <2>7 DEF Touch, s
<1> QED
  BY <1>1, <1>4, <1>5

(* What a tone, and its stop, do to the other registers.                   *)
ButFilter(p, q) ==
  \A k \in Kinds \ {"OVER1"}, c \in Cores : q.cell[k][c] = p.cell[k][c]

LEMMA PlayValues ==
  ASSUME NEW p, Cells(p), p.lpf = FALSE, p.rev \in Int, NEW memory,
         NEW r, NEW kinds, NEW fields, Touch(Tone(p, memory), r, kinds, fields),
         "lpf" \notin fields, "rev" \notin fields
  PROVE  ButFilter(p, Tone(p, memory)) /\ ButFilter(r, StopPlayback(r))
<1> DEFINE t == Tone(p, memory)
           s == StopPlayback(r)
<1>1. Touch(t, r, kinds, fields) /\ (Touch(p, t, {}, {}) \/ Owns(p, t))
  BY ToneTouch
<1> HIDE DEF t
<1>2. Touch(p, t, {"OVER1"}, {"lpf"})
  BY <1>1, TouchMore DEF Owns
<1>3. Cells(t) /\ Cells(r)
  BY <1>1, <1>2 DEF Touch
<1>4. r.lpf = FALSE \/ (r.lpf = TRUE /\ r.rev >= 7)
  <2>1. r.lpf = t.lpf /\ r.rev = t.rev
    BY <1>1, <1>3 DEF Touch, Noted
  <2>2. CASE Touch(p, t, {}, {})
    BY <2>1, <2>2 DEF Touch, Noted
  <2>3. CASE Owns(p, t)
    BY <2>1, <2>3 DEF Owns
  <2> QED
    BY <1>1, <2>2, <2>3
<1>5. Touch(r, s, {}, {}) \/ Touch(r, s, {"OVER1"}, {"lpf"})
  BY <1>3, <1>4, StopTouch
<1> HIDE DEF s
<1>6. ASSUME NEW k \in Kinds \ {"OVER1"}, NEW c \in Cores
      PROVE  t.cell[k][c] = p.cell[k][c] /\ s.cell[k][c] = r.cell[k][c]
  <2>1. t.cell[k][c] = p.cell[k][c]
    BY <1>2 DEF Touch
  <2>2. s.cell[k][c] = r.cell[k][c]
    BY <1>3, <1>5 DEF Touch
  <2> QED
    BY <2>1, <2>2
<1> QED
  BY <1>6 DEF s, t, ButFilter

(* The bit that overrides the gain while the transmitter's strength is      *)
(* measured.                                                               *)
IdleBit(rev) == IF rev >= 7 THEN {\h1000} ELSE {\h2000}

LEMMA IdleGainSets ==
  ASSUME NEW p, Cells(p)
  PROVE  /\ \A off \in BOOLEAN : Touch(p, IdleGain(p, off), {"TXF_S0", "OVER0"}, {})
         /\ \A c \in Cores :
              /\ \A off \in BOOLEAN :
                   IdleGain(p, off).cell.TXF_S0[c] \subseteq p.cell.TXF_S0[c]
              /\ IdleGain(p, FALSE).cell.OVER0[c] \subseteq p.cell.OVER0[c] \union IdleBit(p.rev)
              /\ IdleGain(p, TRUE).cell.OVER0[c] = p.cell.OVER0[c] \ IdleBit(p.rev)
<1>1. CASE p.rev >= 7
  <2> DEFINE b == {\h1000}
             k == OverOf(0)
             new(off) == RfCtlOverrideRev7(p, b, Cores, off, 0)
  <2>1. k = "OVER0"
    BY DEF OverOf
  <2>2. \A off : IdleGain(p, off) = new(off)
    BY <1>1 DEF IdleGain
  <2>3. IdleBit(p.rev) = b
    BY <1>1 DEF IdleBit
  <2> HIDE DEF b, k
  <2>4. \A off \in BOOLEAN : Touch(p, new(off), {k}, {})
    BY RfCtlSets DEF k
  <2>5. ASSUME NEW off \in BOOLEAN
        PROVE  new(off).cell[k] = IF off THEN Unmarked(p.cell[k], Cores, b)
                                  ELSE Marked(p.cell[k], Cores, b)
    BY RfCtlSets DEF k
  <2>6. new(FALSE).cell.OVER0 = Marked(p.cell.OVER0, Cores, b)
        /\ new(TRUE).cell.OVER0 = Unmarked(p.cell.OVER0, Cores, b)
    BY <2>1, <2>5
  <2> HIDE DEF new
  <2>7. \A off \in BOOLEAN : /\ Touch(p, new(off), {"TXF_S0", "OVER0"}, {})
                             /\ \A c \in Cores : new(off).cell.TXF_S0[c] = p.cell.TXF_S0[c]
    <3>1. \A off \in BOOLEAN : Touch(p, new(off), {"TXF_S0", "OVER0"}, {})
      BY <2>1, <2>4, TouchMore
    <3>2. \A off \in BOOLEAN, c \in Cores : new(off).cell.TXF_S0[c] = p.cell.TXF_S0[c]
      BY <2>1, <2>4 DEF Touch, Kinds
    <3> QED
      BY <3>1, <3>2
  <2>8. \A c \in Cores : /\ new(FALSE).cell.OVER0[c] = p.cell.OVER0[c] \union b
                         /\ new(TRUE).cell.OVER0[c] = p.cell.OVER0[c] \ b
    <3>1. \A c \in Cores : Marked(p.cell.OVER0, Cores, b)[c] = p.cell.OVER0[c] \union b
      BY PairMarks
    <3>2. \A c \in Cores : Unmarked(p.cell.OVER0, Cores, b)[c] = p.cell.OVER0[c] \ b
      BY PairMarks
    <3> QED
      BY <2>6, <3>1, <3>2
  <2> QED
    BY <2>2, <2>3, <2>7, <2>8, ZenonT(60)
<1>2. CASE ~(p.rev >= 7)
  <2> DEFINE b == {\h2000}
             old(off) == RfCtlOverride(p, b, Cores, off)
  <2>1. \A off : IdleGain(p, off) = old(off)
    BY <1>2 DEF IdleGain
  <2>2. IdleBit(p.rev) = b
    BY <1>2 DEF IdleBit
  <2>3. b \intersect {\h1} = {} /\ b \ {\h1} = b
    OBVIOUS
  <2> HIDE DEF b
  <2>4. \A off \in BOOLEAN : Touch(p, old(off), {"TXF_S0", "OVER0"}, {})
    BY RfCtlOldSets
  <2>5. OldOff(p, old(TRUE), b)
    BY RfCtlOldSets
  <2>6. OldOn(p, old(FALSE), b)
    BY RfCtlOldSets
  <2> HIDE DEF old
  <2>7. \A c \in Cores : /\ old(FALSE).cell.TXF_S0[c] \subseteq p.cell.TXF_S0[c]
                         /\ old(FALSE).cell.OVER0[c] \subseteq p.cell.OVER0[c] \union b
                         /\ old(TRUE).cell.OVER0[c] = p.cell.OVER0[c] \ b
    BY <2>3, <2>5, <2>6 DEF OldOn, OldOff
  <2>8. \A off \in BOOLEAN, c \in Cores : old(off).cell.TXF_S0[c] \subseteq p.cell.TXF_S0[c]
    BY <2>5, <2>7 DEF OldOff
  <2> QED
    BY <2>1, <2>2, <2>4, <2>7, <2>8
<1> QED
  BY <1>1, <1>2

(* The measurement of the idle strength leaves nothing but what the radio   *)
(* routes to it.                                                           *)
LEMMA IdleTssiRegs ==
  ASSUME NEW p, Cells(p), p.lpf = FALSE, p.rev \in Int, NEW memory \in BOOLEAN, NEW ch,
         \A c \in Cores : /\ \A k \in Clear : p.cell[k][c] = {}
                          /\ "rssi" \notin p.cell.AFEOVER[c]
                          /\ p.cell.TSSI[c] \subseteq {"idle", "mux"}
  PROVE  /\ Touch(p, IdleTssi(p, memory, ch), {"TSSI"}, {})
         /\ \A c \in Cores : IdleTssi(p, memory, ch).cell.TSSI[c] \subseteq {"idle", "mux"}
<1> DEFINE set == IF p.ipa THEN IpaInternalTssiSetup(p) ELSE p
           gain == IdleGain(set, FALSE)
           stop == StopPlayback(gain)
           tone == Tone(stop, memory)
           poll == PollRssi(tone, "TSSI_2G")
           read == StopPlayback(poll)
           cut == RssiSelect(read, 0, "W1")
           out == IdleGain(cut, TRUE)
           b == IdleBit(p.rev)
<1>1. IdleTssi(p, memory, ch) = IF ch \in NoIr THEN p ELSE out
  BY Zenon DEF IdleTssi
<1>2. Touch(p, set, {"TSSI"}, {}) /\ \A c \in Cores : set.cell.TSSI[c] \subseteq {"idle", "mux"}
  <2> DEFINE idle == Both({"idle"})
  <2>1. DOMAIN idle = Cores /\ \A c \in Cores : idle[c] = {"idle"}
    BY DEF Both
  <2>2. IpaInternalTssiSetup(p) = One(p, "TSSI", idle)
    BY Zenon DEF IpaInternalTssiSetup, One
  <2> HIDE DEF idle
  <2>3. Touch(p, One(p, "TSSI", idle), {"TSSI"}, {}) /\ One(p, "TSSI", idle).cell.TSSI = idle
    BY <2>1, TouchOne DEF Kinds
  <2> QED
    BY <2>1, <2>2, <2>3, TouchItself
<1> HIDE DEF set
<1>3. /\ Cells(set) /\ set.lpf = FALSE /\ set.rev = p.rev
      /\ \A c \in Cores : /\ set.cell.OVER0[c] = {} /\ set.cell.TXF_S0[c] = {}
  BY <1>2 DEF Touch, Noted, Kinds, Clear
<1>4. /\ Touch(set, gain, {"TXF_S0", "OVER0"}, {})
      /\ \A c \in Cores : gain.cell.TXF_S0[c] = {} /\ gain.cell.OVER0[c] \subseteq b
  <2>1. Touch(set, gain, {"TXF_S0", "OVER0"}, {})
    BY <1>3, IdleGainSets
  <2>2. \A c \in Cores : gain.cell.TXF_S0[c] \subseteq set.cell.TXF_S0[c]
    BY <1>3, IdleGainSets
  <2>3. \A c \in Cores : gain.cell.OVER0[c] \subseteq set.cell.OVER0[c] \union IdleBit(set.rev)
    BY <1>3, IdleGainSets
  <2> HIDE DEF gain
  <2>4. \A c \in Cores : gain.cell.TXF_S0[c] = {}
    BY <1>3, <2>2
  <2>5. \A c \in Cores : gain.cell.OVER0[c] \subseteq IdleBit(set.rev)
    BY <1>3, <2>3
  <2> QED
    BY <1>3, <2>1, <2>4, <2>5
<1> HIDE DEF gain, b
<1>5. Cells(gain) /\ gain.lpf = FALSE /\ gain.rev = p.rev
  BY <1>3, <1>4 DEF Touch, Noted
<1>6. Touch(gain, stop, {}, {})
  BY <1>5, StopTouch
<1> HIDE DEF stop
<1>7. Cells(stop) /\ stop.lpf = FALSE /\ stop.rev = p.rev
  BY <1>5, <1>6 DEF Touch, Noted
<1>8. Touch(tone, poll, {"TSSI"}, {})
  BY PollSets
<1>9. Touch(stop, read, {"TSSI"}, {})
  <2> HIDE DEF poll
  <2> QED
    BY <1>7, <1>8, PlayTouch
<1>10. ButFilter(stop, tone) /\ ButFilter(poll, read)
  <2> HIDE DEF poll
  <2>1. "lpf" \notin {} /\ "rev" \notin {}
    OBVIOUS
  <2>2. Cells(stop) /\ stop.lpf = FALSE /\ stop.rev \in Int
    BY <1>7
  <2> QED
    BY <1>8, <2>1, <2>2, PlayValues
<1>11. Cells(tone)
  BY <1>7, ToneTouch DEF Touch, Owns
<1>12. \A c \in Cores : poll.cell.TSSI[c] \subseteq tone.cell.TSSI[c] \union {"mux"}
  BY <1>11, PollSets
<1> HIDE DEF tone, poll, read
<1>13. \A c \in Cores : read.cell.TSSI[c] \subseteq {"idle", "mux"}
  <2>1. ASSUME NEW c \in Cores PROVE read.cell.TSSI[c] \subseteq {"idle", "mux"}
    <3>1. stop.cell.TSSI[c] = set.cell.TSSI[c]
      BY <1>3, <1>4, <1>5, <1>6 DEF Touch, Kinds
    <3>2. tone.cell.TSSI[c] = stop.cell.TSSI[c] /\ read.cell.TSSI[c] = poll.cell.TSSI[c]
      BY <1>10 DEF Kinds, ButFilter
    <3> QED
      BY <1>2, <1>12, <3>1, <3>2
  <2> QED
    BY <2>1
<1>14. Cells(read)
  BY <1>7, <1>9 DEF Touch
<1>15. /\ Touch(read, cut, Routing, {})
       /\ \A c \in Cores :
            /\ cut.cell.AFEOVER[c] = read.cell.AFEOVER[c] \ {"rssi"}
            /\ \A k \in Routing \ {"AFEOVER"} : cut.cell[k][c] \subseteq read.cell[k][c]
  <2>1. Touch(read, cut, Routing, {})
    BY RssiOffSets
  <2>2. \A c \in Cores : cut.cell.AFEOVER[c] = read.cell.AFEOVER[c] \ {"rssi"}
    BY <1>14, RssiOffSets
  <2>3. \A c \in Cores : \A k \in Routing \ {"AFEOVER"} : cut.cell[k][c] \subseteq read.cell[k][c]
    BY <1>14, RssiOffSets
  <2> QED
    BY <2>1, <2>2, <2>3
<1> HIDE DEF cut
<1>16. Cells(cut) /\ cut.rev = p.rev
  BY <1>7, <1>9, <1>14, <1>15 DEF Touch, Noted
<1>17. /\ Touch(cut, out, {"TXF_S0", "OVER0"}, {})
       /\ \A c \in Cores : /\ out.cell.TXF_S0[c] \subseteq cut.cell.TXF_S0[c]
                           /\ out.cell.OVER0[c] = cut.cell.OVER0[c] \ b
  <2>1. Touch(cut, out, {"TXF_S0", "OVER0"}, {})
    BY <1>16, IdleGainSets
  <2>2. \A c \in Cores : out.cell.TXF_S0[c] \subseteq cut.cell.TXF_S0[c]
    BY <1>16, IdleGainSets
  <2>3. \A c \in Cores : out.cell.OVER0[c] = cut.cell.OVER0[c] \ IdleBit(cut.rev)
    BY <1>16, IdleGainSets
  <2> QED
    BY <1>16, <2>1, <2>2, <2>3 DEF b
<1> HIDE DEF out
<1> DEFINE K == {"TSSI", "OVER0"} \union Routing
<1>18. Touch(p, read, K, {})
  <2>1. Touch(p, set, K, {}) /\ Touch(set, gain, K, {}) /\ Touch(gain, stop, K, {})
        /\ Touch(stop, read, K, {})
    BY <1>2, <1>4, <1>6, <1>9, TouchMore DEF Routing
  <2> QED
    BY <2>1, TouchThen
<1>19. Touch(p, out, K, {})
  <2>1. Touch(read, cut, K, {}) /\ Touch(cut, out, K, {})
    BY <1>15, <1>17, TouchMore DEF Routing
  <2> QED
    BY <1>18, <2>1, TouchThen
<1>20. ASSUME NEW c \in Cores, NEW k \in {"AFECTL", "LUT_TRSW", "AFEOVER"}
       PROVE  read.cell[k][c] = p.cell[k][c]
  <2>1. k \in Kinds /\ k \notin {"TSSI", "TXF_S0", "OVER0"}
    BY DEF Kinds
  <2>2. set.cell[k][c] = p.cell[k][c] /\ gain.cell[k][c] = set.cell[k][c]
    BY <1>2, <1>3, <1>4, <2>1 DEF Touch
  <2>3. stop.cell[k][c] = gain.cell[k][c] /\ read.cell[k][c] = stop.cell[k][c]
    BY <1>5, <1>6, <1>7, <1>9, <2>1 DEF Touch
  <2> QED
    BY <2>2, <2>3
<1>21. ASSUME NEW c \in Cores, NEW k \in {"TXF_S0", "OVER0"}
       PROVE  read.cell[k][c] = gain.cell[k][c]
  <2>1. k \in Kinds /\ k # "TSSI"
    BY DEF Kinds
  <2> QED
    BY <1>5, <1>6, <1>7, <1>9, <2>1 DEF Touch
<1>22. ASSUME NEW c \in Cores, NEW k \in K \ {"TSSI"} PROVE out.cell[k][c] = p.cell[k][c]
  <2>1. CASE k \in {"AFECTL", "LUT_TRSW"}
    <3>1. cut.cell[k][c] \subseteq p.cell[k][c] /\ p.cell[k][c] = {}
      BY <1>15, <1>20, <2>1 DEF Routing, Clear
    <3>2. out.cell[k][c] = cut.cell[k][c]
      BY <1>16, <1>17, <2>1 DEF Touch, Kinds
    <3> QED
      BY <3>1, <3>2
  <2>2. CASE k = "AFEOVER"
    <3>1. cut.cell.AFEOVER[c] = p.cell.AFEOVER[c] \ {"rssi"}
      BY <1>15, <1>20
    <3>2. cut.cell.AFEOVER[c] = p.cell.AFEOVER[c]
      BY <3>1
    <3>3. out.cell.AFEOVER[c] = cut.cell.AFEOVER[c]
      BY <1>16, <1>17 DEF Touch, Kinds
    <3> QED
      BY <2>2, <3>2, <3>3
  <2>3. CASE k = "TXF_S0"
    <3>1. out.cell.TXF_S0[c] \subseteq cut.cell.TXF_S0[c]
      BY <1>17
    <3>2. cut.cell.TXF_S0[c] \subseteq read.cell.TXF_S0[c]
      BY <1>15 DEF Routing
    <3>3. read.cell.TXF_S0[c] = {}
      BY <1>4, <1>21
    <3>4. p.cell.TXF_S0[c] = {}
      BY DEF Clear
    <3> QED
      BY <2>3, <3>1, <3>2, <3>3, <3>4
  <2>4. CASE k = "OVER0"
    <3>1. out.cell.OVER0[c] = cut.cell.OVER0[c] \ b
      BY <1>17
    <3>2. cut.cell.OVER0[c] = read.cell.OVER0[c]
      BY <1>14, <1>15 DEF Touch, Kinds, Routing
    <3>3. read.cell.OVER0[c] \subseteq b
      BY <1>4, <1>21
    <3>4. p.cell.OVER0[c] = {}
      BY DEF Clear
    <3> QED
      BY <2>4, <3>1, <3>2, <3>3, <3>4
  <2> QED
    BY <2>1, <2>2, <2>3, <2>4 DEF Routing
<1>23. Touch(p, out, {"TSSI"}, {})
  BY <1>19, <1>22 DEF Touch
<1>24. \A c \in Cores : out.cell.TSSI[c] = read.cell.TSSI[c]
  <2>1. \A c \in Cores : out.cell.TSSI[c] = cut.cell.TSSI[c]
    BY <1>16, <1>17 DEF Touch, Kinds
  <2>2. \A c \in Cores : cut.cell.TSSI[c] = read.cell.TSSI[c]
    BY <1>14, <1>15 DEF Touch, Kinds, Routing
  <2> QED
    BY <2>1, <2>2
<1> QED
  BY <1>1, <1>13, <1>23, <1>24, TouchItself

(***************************************************************************)
(* What is saved and restored along a layout.                              *)
(***************************************************************************)
Places(layout) == {layout[i] : i \in DOMAIN layout}

(* What new holds at some places is what was there, and elsewhere cell.    *)
BackFrom(new, cell, was, places) ==
  \A k \in Kinds, c \in Cores :
    new[k][c] = IF <<k, c>> \in places THEN was[k][c] ELSE cell[k][c]

LEMMA SaveRestore ==
  ASSUME NEW area, NEW layout, NEW was, DOMAIN layout \subseteq DOMAIN area, NEW cell, NEW a,
         a = Saved(area, was, layout)
  PROVE  /\ DOMAIN a = DOMAIN area /\ DOMAIN Restored(cell, a, layout) = Kinds
         /\ \A k \in Kinds : DOMAIN Restored(cell, a, layout)[k] = Cores
         /\ BackFrom(Restored(cell, a, layout), cell, was, Places(layout))
<1>1. DOMAIN a = DOMAIN area
  BY DEF Saved
<1>2. \A i \in DOMAIN layout : a[i] = was[layout[i][1]][layout[i][2]]
  BY DEF Saved
<1> HIDE DEF Saved
<1>3. DOMAIN Restored(cell, a, layout) = Kinds
  BY DEF Restored
<1>4. \A k \in Kinds : DOMAIN Restored(cell, a, layout)[k] = Cores
  BY DEF Restored
<1>5. ASSUME NEW k \in Kinds, NEW c \in Cores
      PROVE  Restored(cell, a, layout)[k][c] =
               IF <<k, c>> \in Places(layout) THEN was[k][c] ELSE cell[k][c]
  <2> DEFINE j == CHOOSE i \in DOMAIN layout : layout[i] = <<k, c>>
  <2>1. Restored(cell, a, layout)[k][c] =
          IF \E i \in DOMAIN layout : layout[i] = <<k, c>> THEN a[j] ELSE cell[k][c]
    BY DEF Restored
  <2>2. (\E i \in DOMAIN layout : layout[i] = <<k, c>>) <=> <<k, c>> \in Places(layout)
    BY DEF Places
  <2>3. CASE \E i \in DOMAIN layout : layout[i] = <<k, c>>
    <3>1. j \in DOMAIN layout /\ layout[j] = <<k, c>>
      BY <2>3
    <3> HIDE DEF j
    <3>2. a[j] = was[layout[j][1]][layout[j][2]]
      BY <1>2, <3>1
    <3>3. layout[j][1] = k /\ layout[j][2] = c
      BY <3>1
    <3>4. a[j] = was[k][c]
      BY <3>2, <3>3
    <3> QED
      BY <2>1, <2>2, <2>3, <3>4
  <2>4. CASE ~\E i \in DOMAIN layout : layout[i] = <<k, c>>
    BY <2>1, <2>2, <2>4
  <2> QED
    BY <2>3, <2>4
<1> QED
  BY <1>1, <1>3, <1>4, <1>5 DEF BackFrom

LEMMA RestoreSets ==
  ASSUME NEW q, Cells(q), NEW area, NEW layout, NEW was, DOMAIN layout \subseteq DOMAIN area,
         NEW a, a = Saved(area, was, layout),
         NEW kinds, \A k \in Kinds \ kinds, c \in Cores : <<k, c>> \notin Places(layout),
         NEW r, r = Writes(q, Restored(q.cell, a, layout))
  PROVE  /\ Touch(q, r, kinds, {})
         /\ BackFrom(r.cell, q.cell, was, Places(layout))
<1> DEFINE x == Restored(q.cell, a, layout)
<1>1. /\ DOMAIN x = Kinds /\ \A k \in Kinds : DOMAIN x[k] = Cores
      /\ BackFrom(x, q.cell, was, Places(layout))
  BY SaveRestore
<1> HIDE DEF x
<1>2. \A k \in Kinds \ kinds : \A c \in Cores : x[k][c] = q.cell[k][c]
  BY <1>1 DEF BackFrom
<1>3. Touch(q, Writes(q, x), kinds, {}) /\ Writes(q, x).cell = x
  BY <1>1, <1>2, TouchCells
<1>4. r = Writes(q, x)
  BY DEF x
<1> QED
  BY <1>1, <1>3, <1>4

(* The places of the layouts.                                              *)
LEMMA TxPlaces ==
  /\ DOMAIN TxLayout = 1..11 /\ DOMAIN TxRadioLayout = 1..2
  /\ Places(TxRadioLayout) = {<<"TSSI", 0>>, <<"TSSI", 1>>}
  /\ Places(TxLayout) = {<<"AFECTL", 0>>, <<"AFECTL", 1>>, <<"AFEOVER", 0>>, <<"AFEOVER", 1>>,
                         <<"BBCFG", 0>>, <<"DAC", 0>>, <<"DAC", 1>>, <<"INTC", 0>>, <<"INTC", 1>>,
                         <<"PAPD_EN", 0>>, <<"PAPD_EN", 1>>}
<1>1. DOMAIN TxLayout = 1..11
  BY DEF TxLayout
<1>2. DOMAIN TxRadioLayout = 1..2
  BY DEF TxRadioLayout
<1>3. Places(TxRadioLayout) = {TxRadioLayout[1], TxRadioLayout[2]}
  BY <1>2 DEF Places
<1>4. Places(TxLayout) = {TxLayout[1], TxLayout[2], TxLayout[3], TxLayout[4], TxLayout[5],
                          TxLayout[6], TxLayout[7], TxLayout[8], TxLayout[9], TxLayout[10],
                          TxLayout[11]}
  <2>1. 1..11 = {1, 2, 3, 4, 5, 6, 7, 8, 9, 10, 11}
    OBVIOUS
  <2> QED
    BY <1>1, <2>1 DEF Places
<1> QED
  BY <1>1, <1>2, <1>3, <1>4 DEF TxLayout, TxRadioLayout

LEMMA RxPlaces ==
  ASSUME NEW c \in Cores
  PROVE  /\ DOMAIN RxLayout(c) = 1..15 /\ DOMAIN RxRadioLayout(c) = 1..2
         /\ Places(RxRadioLayout(c)) = {<<"PWRUP", c>>, <<"ATTEN", c>>}
         /\ Places(RxLayout(c)) =
              {<<"RFSEQCA", 0>>, <<"AFECTL", c>>, <<"AFEOVER", c>>, <<"INTC", 0>>, <<"INTC", 1>>,
               <<"RSSIO", 0>>, <<"RSSIO", 1>>, <<"OVER0", 0>>, <<"OVER0", 1>>, <<"PAPD_EN", 0>>,
               <<"PAPD_EN", 1>>, <<"OVER1", 0>>, <<"OVER1", 1>>, <<"OVER2", 0>>, <<"OVER2", 1>>}
<1> DEFINE l == RxLayout(c)
           m == RxRadioLayout(c)
<1>1. DOMAIN l = 1..15
  BY DEF RxLayout
<1>2. DOMAIN m = 1..2
  BY DEF RxRadioLayout
<1>3. Places(m) = {m[1], m[2]}
  <2> HIDE DEF m
  <2> QED
    BY <1>2 DEF Places
<1>4. Places(l) = {l[1], l[2], l[3], l[4], l[5], l[6], l[7], l[8], l[9], l[10], l[11], l[12],
                   l[13], l[14], l[15]}
  <2> HIDE DEF l
  <2>1. 1..15 = {1, 2, 3, 4, 5, 6, 7, 8, 9, 10, 11, 12, 13, 14, 15}
    OBVIOUS
  <2> QED
    BY <1>1, <2>1 DEF Places
<1> QED
  BY <1>1, <1>2, <1>3, <1>4 DEF RxLayout, RxRadioLayout

(***************************************************************************)
(* The calibration of the transmitter.                                     *)
(***************************************************************************)
TxTaken == Overs \union {"AFECTL", "AFEOVER", "BBCFG", "DAC", "PAPD_EN", "INTC", "R2FF"}

(* The override that revision 8 has more.                                  *)
MoreOn(rev) == IF rev >= 8 THEN {\h8} ELSE {}

LEMMA OverMore ==
  ASSUME NEW p, NEW x, NEW y, NEW z, OverIn(p, x, y, z),
         NEW x2, NEW y2, NEW z2, x \subseteq x2, y \subseteq y2, z \subseteq z2
  PROVE  OverIn(p, x2, y2, z2)
BY DEF OverIn

LEMMA TxCalSetupRegs ==
  ASSUME NEW p, Cells(p), OverIn(p, {}, {}, {})
  PROVE  /\ Touch(p, TxCalPhySetup(p), TxTaken, {"saved"})
         /\ TxCalPhySetup(p).saved = Saved(p.saved, p.cell, TxLayout)
         /\ OverIn(TxCalPhySetup(p), MoreOn(p.rev), {\h80}, {})
<1> DEFINE u == Marked(p.cell.AFECTL, Cores, {"iqcal"})
           v == Marked(p.cell.AFEOVER, Cores, {"iqcal"})
           w == Unmarked(p.cell.BBCFG, {0}, {"RSTRX"})
           x == Both({"zero"})
           y == Unmarked(p.cell.PAPD_EN, Cores, {"on"})
           open == [p.cell EXCEPT !.AFECTL = u, !.AFEOVER = v, !.BBCFG = w, !.DAC = x,
                                  !.PAPD_EN = y]
           s == Saved(p.saved, p.cell, TxLayout)
           wr == Writes(p, open)
           taken == [wr EXCEPT !.saved = s]
           pa == IntcOverride(taken, "PA", Cores)
           t0 == IntcOverride(pa, "TRSW", {0})
           rf == IntcOverride(t0, "TRSW", {1})
           lpf == IF p.rev >= 7 THEN RfCtlOverrideRev7(rf, {\h80}, Cores, FALSE, 1) ELSE rf
           out == IF p.rev >= 8 THEN RfCtlOverrideRev7(lpf, {\h8}, Cores, FALSE, 0) ELSE lpf
<1>1. TxCalPhySetup(p) = out
  <2> DEFINE op == [p.cell EXCEPT !.AFECTL = Marked(@, Cores, {"iqcal"}),
                                  !.AFEOVER = Marked(@, Cores, {"iqcal"}),
                                  !.BBCFG = Unmarked(@, {0}, {"RSTRX"}),
                                  !.DAC = Both({"zero"}),
                                  !.PAPD_EN = Unmarked(@, Cores, {"on"})]
             tk == [p EXCEPT !.cell = op, !.saved = s]
             sw == IntcOverride(IntcOverride(IntcOverride(tk, "PA", Cores), "TRSW", {0}), "TRSW", {1})
             fl == IF p.rev >= 7 THEN RfCtlOverrideRev7(sw, {\h80}, Cores, FALSE, 1) ELSE sw
  <2>1. TxCalPhySetup(p) = IF p.rev >= 8 THEN RfCtlOverrideRev7(fl, {\h8}, Cores, FALSE, 0) ELSE fl
    BY Zenon DEF TxCalPhySetup
  <2>2. op = open
    BY Zenon
  <2> HIDE DEF op, open, s
  <2>3. tk = taken
    BY <2>2, Zenon DEF Writes
  <2> HIDE DEF tk, taken
  <2> QED
    BY <2>1, <2>3
<1>2. /\ DOMAIN u = Cores /\ DOMAIN v = Cores /\ DOMAIN w = Cores /\ DOMAIN x = Cores
      /\ DOMAIN y = Cores
  BY PairMarks DEF Both
<1> HIDE DEF u, v, w, x, y
<1>3. /\ DOMAIN open = Kinds
      /\ \A k \in Kinds \ TxTaken : open[k] = p.cell[k]
      /\ \A k \in Overs : open[k] = p.cell[k]
  BY DEF Cells, Kinds, TxTaken, Overs
<1>4. \A k \in Kinds : DOMAIN open[k] = Cores
  BY <1>2 DEF Cells
<1> HIDE DEF open
<1>5. Touch(p, wr, TxTaken, {}) /\ wr.cell = open
  BY <1>3, <1>4, TouchCells
<1> HIDE DEF wr
<1>6. Cells(wr) /\ \A k \in Overs, c \in Cores : wr.cell[k][c] = p.cell[k][c]
  BY <1>3, <1>5 DEF Touch
<1>7. DOMAIN s = 1..15
  BY DEF Saved, Cells
<1> HIDE DEF s
<1>8. Touch(wr, taken, {}, {"saved"}) /\ taken.saved = s
  BY <1>6, <1>7, TouchField DEF Noted
<1> HIDE DEF taken
<1>9. Touch(p, taken, TxTaken, {"saved"})
  <2>1. Touch(p, wr, TxTaken, {"saved"}) /\ Touch(wr, taken, TxTaken, {"saved"})
    BY <1>5, <1>8, TouchMore
  <2> QED
    BY <2>1, TouchThen
<1>10. Cells(taken)
  BY <1>9 DEF Touch
<1>11. OverIn(taken, {}, {}, {})
  <2>1. \A k \in Overs, c \in Cores : taken.cell[k][c] = p.cell[k][c]
    BY <1>6, <1>8, ZenonT(60) DEF Touch, Overs, Kinds
  <2> QED
    BY <2>1 DEF OverIn, Overs
<1> DEFINE K == TxTaken
<1>12. Overs \subseteq K /\ Overs \union {"INTC", "R2FF"} \subseteq K
  BY DEF TxTaken
<1> HIDE DEF K
<1>13. Touch(taken, rf, K, {}) /\ OverIn(rf, {}, {}, {})
  <2>1. Touch(taken, pa, K, {}) /\ OverIn(pa, {}, {}, {})
    BY <1>10, <1>11, <1>12, TouchItself, IntcIn
  <2> HIDE DEF pa
  <2>2. Touch(taken, t0, K, {}) /\ OverIn(t0, {}, {}, {})
    BY <1>10, <1>12, <2>1, IntcIn
  <2> HIDE DEF t0
  <2>3. Touch(taken, rf, K, {}) /\ OverIn(rf, {}, {}, {})
    BY <1>10, <1>12, <2>2, IntcIn
  <2> QED
    BY <2>3
<1> HIDE DEF rf
<1>14. Touch(taken, lpf, K, {}) /\ OverIn(lpf, {}, {\h80}, {})
  <2> DEFINE b == {\h80}
             o == RfCtlOverrideRev7(rf, b, Cores, FALSE, 1)
  <2> HIDE DEF b
  <2>1. Touch(taken, o, K, {})
    BY <1>10, <1>12, <1>13, RfCtlOn
  <2>2. OverIn(o, {}, {} \union b, {})
    BY <1>10, <1>12, <1>13, RfCtlOn
  <2>3. {} \union b = b
    OBVIOUS
  <2> HIDE DEF o
  <2>4. OverIn(o, {}, b, {}) /\ OverIn(rf, {}, b, {})
    BY <1>13, <2>2, <2>3, OverMore
  <2> QED
    BY <1>13, <2>1, <2>4 DEF b, o
<1> HIDE DEF lpf
<1>15. Touch(taken, out, K, {}) /\ OverIn(out, MoreOn(p.rev), {\h80}, {})
  <2> DEFINE b == {\h8}
             f == {\h80}
             o == RfCtlOverrideRev7(lpf, b, Cores, FALSE, 0)
  <2>0. OverIn(lpf, {}, f, {})
    BY <1>14
  <2> HIDE DEF b, f
  <2>1. Touch(taken, o, K, {})
    BY <1>10, <1>12, <1>14, <2>0, RfCtlOn
  <2>2. OverIn(o, {} \union b, f, {})
    BY <1>10, <1>12, <1>14, <2>0, RfCtlOn
  <2>3. {} \union b = b
    OBVIOUS
  <2> HIDE DEF o
  <2>4. OverIn(o, b, f, {})
    BY <2>2, <2>3
  <2>5. CASE p.rev >= 8
    <3>1. MoreOn(p.rev) = b /\ out = o
      BY <2>5 DEF MoreOn, b, o
    <3> QED
      BY <2>1, <2>4, <3>1 DEF f
  <2>6. CASE ~(p.rev >= 8)
    <3>1. MoreOn(p.rev) = {} /\ out = lpf
      BY <2>6 DEF MoreOn
    <3> QED
      BY <1>14, <2>0, <3>1 DEF f
  <2> QED
    BY <2>5, <2>6
<1> HIDE DEF out
<1>16. Touch(p, out, TxTaken, {"saved"})
  <2>1. Touch(taken, out, TxTaken, {"saved"})
    BY <1>15, TouchMore DEF K
  <2> QED
    BY <1>9, <2>1, TouchThen
<1>17. out.saved = s
  BY <1>8, <1>10, <1>15 DEF Touch, Noted
<1> QED
  BY <1>1, <1>15, <1>16, <1>17 DEF s

TxGiven == {"AFECTL", "AFEOVER", "DAC", "INTC", "PAPD_EN"}

LEMMA TxCalCleanupRegs ==
  ASSUME NEW p, Cells(p), NEW x, OverIn(p, x, {\h80}, {}),
         NEW area, DOMAIN area = 1..15, NEW was, p.saved = Saved(area, was, TxLayout)
  PROVE  /\ Touch(p, TxCalPhyCleanup(p), TxTaken, {})
         /\ OverIn(TxCalPhyCleanup(p), x, {}, {})
         /\ \A k \in TxGiven, c \in Cores : TxCalPhyCleanup(p).cell[k][c] = was[k][c]
         /\ \A c \in Cores : TxCalPhyCleanup(p).cell.R2FF[c] = p.cell.R2FF[c]
<1> DEFINE r == Writes(p, Restored(p.cell, p.saved, TxLayout))
           b == {\h80}
           out == RfCtlOverrideRev7(r, b, Cores, TRUE, 1)
           K == TxGiven \union {"BBCFG"}
<1>1. TxCalPhyCleanup(p) = out
  BY Zenon DEF TxCalPhyCleanup, Writes
<1>2. \A k \in Kinds \ K, c \in Cores : <<k, c>> \notin Places(TxLayout)
  BY TxPlaces DEF TxGiven
<1>3. DOMAIN TxLayout \subseteq DOMAIN area
  BY TxPlaces
<1> HIDE DEF K, b
<1>4. Touch(p, r, K, {})
  BY <1>2, <1>3, RestoreSets
<1>5. BackFrom(r.cell, p.cell, was, Places(TxLayout))
  BY <1>2, <1>3, RestoreSets
<1> HIDE DEF r
<1>6. ASSUME NEW k \in TxGiven, NEW c \in Cores PROVE r.cell[k][c] = was[k][c]
  <2>1. <<k, c>> \in Places(TxLayout)
    BY TxPlaces DEF TxGiven, Cores
  <2>2. k \in Kinds
    BY DEF TxGiven, Kinds
  <2> QED
    BY <1>5, <2>1, <2>2 DEF BackFrom
<1>7. Cells(r) /\ OverIn(r, x, b, {})
  <2>1. K \intersect Overs = {}
    BY DEF K, TxGiven, Overs
  <2>2. OverIn(p, x, b, {})
    BY DEF b
  <2>3. \A k \in Overs, c \in Cores : r.cell[k][c] = p.cell[k][c]
    BY <1>4, <2>1 DEF Touch, Overs, Kinds
  <2>4. OverIn(r, x, b, {})
    BY <2>2, <2>3 DEF OverIn, Overs
  <2> QED
    BY <1>4, <2>4 DEF Touch
<1>8. Touch(r, out, {"OVER1"}, {})
  BY <1>7, FilterSets
<1>9. OverIn(out, x, {}, {})
  <2>1. OverIn(out, x, b \ b, {})
    BY <1>7, TouchItself, RfCtlOff
  <2>2. b \ b = {}
    OBVIOUS
  <2> QED
    BY <2>1, <2>2
<1> HIDE DEF out
<1>10. Touch(p, out, TxTaken, {})
  <2>1. K \subseteq TxTaken /\ {"OVER1"} \subseteq TxTaken
    BY DEF K, TxGiven, TxTaken, Overs
  <2>2. Touch(p, r, TxTaken, {}) /\ Touch(r, out, TxTaken, {})
    BY <1>4, <1>8, <2>1, TouchMore
  <2> QED
    BY <2>2, TouchThen
<1>11. ASSUME NEW k \in TxGiven \union {"R2FF"}, NEW c \in Cores
       PROVE  out.cell[k][c] = r.cell[k][c]
  BY <1>7, <1>8 DEF Touch, TxGiven, Kinds
<1>12. \A c \in Cores : r.cell.R2FF[c] = p.cell.R2FF[c]
  BY <1>4 DEF Touch, K, TxGiven, Kinds
<1> QED
  BY <1>1, <1>6, <1>9, <1>10, <1>11, <1>12

LEMMA TxCalRegs ==
  ASSUME NEW p, Cells(p), p.lpf = FALSE, p.rev \in Int, NEW memory, NEW ch,
         OverIn(p, {}, {}, {})
  PROVE  Touch(p, TxCalibrated(p, memory, ch), {"R2FF", "BBCFG"}, {"saved", "rad"})
<1> DEFINE ent == EnterSearch(p)
           hang == [ent EXCEPT !.search = [ent.search EXCEPT !.hang = IF p.rev >= 4 THEN FALSE
                                                                      ELSE ent.search.hang]]
           in == [hang EXCEPT !.gain = Both(Cal)]
           radio == IF p.rev >= 7 THEN TxCalRadioSetupRev7(in) ELSE in
           set == TxCalPhySetup(radio)
           played == Tone(set, memory)
           learnt == IF memory THEN TxCalLearn(played, ch) ELSE played
           phyback == TxCalPhyCleanup(learnt)
           off == IF learnt.rev >= 8 THEN RfCtlOverrideRev7(phyback, {\h8}, Cores, TRUE, 0)
                  ELSE phyback
           gains == [off EXCEPT !.gain = p.gain]
           rback == IF learnt.rev >= 7 THEN TxCalRadioCleanupRev7(gains) ELSE gains
           back == [rback EXCEPT !.search = [rback.search EXCEPT !.hang = p.search.hang]]
           out == LeaveSearch(back)
<1>1. TxCalOpen(p) = set
  BY Zenon DEF TxCalOpen
<1>2. TxCalClose(learnt, p) = LeaveSearch(back)
  BY Zenon DEF TxCalClose
<1>3. TxCalibrated(p, memory, ch) = out
  BY <1>1, <1>2, ZenonT(60) DEF TxCalibrated
<1>4. Touch(p, in, {}, {})
  <2>1. Touch(p, ent, {}, {})
    BY BracketTouch
  <2>2. Touch(ent, hang, {}, {})
    BY TouchSearch
  <2> HIDE DEF hang, ent
  <2>3. Touch(hang, in, {}, {})
    BY TouchAway DEF PhyFields, Levelling, Noted
  <2> QED
    BY <2>1, <2>2, <2>3, TouchThen
<1> HIDE DEF in
<1>5. Cells(in) /\ in.lpf = FALSE /\ in.rev = p.rev
  BY <1>4 DEF Touch, Noted
<1>6. /\ Touch(in, radio, {"TSSI"}, {"rad"})
      /\ p.rev >= 7 => radio.rad = Saved(in.rad, in.cell, TxRadioLayout)
  <2> DEFINE x == Both({"iqcal"})
             s == Saved(in.rad, in.cell, TxRadioLayout)
             w == One(in, "TSSI", x)
             t == [w EXCEPT !.rad = s]
  <2>1. DOMAIN x = Cores /\ DOMAIN s = 1..2
    BY <1>5 DEF Both, Saved, Cells
  <2> HIDE DEF x, s
  <2>2. Touch(in, w, {"TSSI"}, {})
    BY <2>1, TouchOne DEF Kinds
  <2>3. TxCalRadioSetupRev7(in) = t
    BY Zenon DEF TxCalRadioSetupRev7, One, x, s
  <2> HIDE DEF w
  <2>4. Cells(w)
    BY <1>5, <2>2 DEF Touch
  <2>5. Touch(w, t, {}, {"rad"}) /\ t.rad = s
    BY <2>1, <2>4, TouchField DEF Noted
  <2> HIDE DEF t
  <2>6. Touch(in, t, {"TSSI"}, {"rad"})
    <3>1. Touch(in, w, {"TSSI"}, {"rad"}) /\ Touch(w, t, {"TSSI"}, {"rad"})
      BY <2>2, <2>5, TouchMore
    <3> QED
      BY <3>1, TouchThen
  <2>7. Touch(in, in, {"TSSI"}, {"rad"})
    BY TouchItself
  <2> QED
    BY <2>3, <2>5, <2>6, <2>7 DEF s
<1>7. ~(p.rev >= 7) => radio = in
  OBVIOUS
<1> HIDE DEF radio
<1>8. Cells(radio) /\ radio.lpf = FALSE /\ radio.rev = p.rev
  BY <1>5, <1>6 DEF Touch, Noted
<1>9. \A k \in Kinds \ {"TSSI"}, c \in Cores : radio.cell[k][c] = p.cell[k][c]
  <2>1. \A k \in Kinds, c \in Cores : in.cell[k][c] = p.cell[k][c]
    BY <1>4 DEF Touch
  <2>2. \A k \in Kinds \ {"TSSI"}, c \in Cores : radio.cell[k][c] = in.cell[k][c]
    BY <1>5, <1>6 DEF Touch
  <2> QED
    BY <2>1, <2>2
<1>10. OverIn(radio, {}, {}, {})
  BY <1>9 DEF OverIn, Kinds
<1>11. /\ Touch(radio, set, TxTaken, {"saved"})
       /\ set.saved = Saved(radio.saved, radio.cell, TxLayout)
       /\ OverIn(set, MoreOn(p.rev), {\h80}, {})
  <2>1. OverIn(set, MoreOn(radio.rev), {\h80}, {})
    BY <1>8, <1>10, TxCalSetupRegs
  <2>2. Touch(radio, set, TxTaken, {"saved"})
    BY <1>8, <1>10, TxCalSetupRegs
  <2>3. set.saved = Saved(radio.saved, radio.cell, TxLayout)
    BY <1>8, <1>10, TxCalSetupRegs
  <2> QED
    BY <1>8, <2>1, <2>2, <2>3
<1> HIDE DEF set
<1>12. Cells(set) /\ set.lpf = FALSE /\ set.rev = p.rev
  BY <1>8, <1>11 DEF Touch, Noted
<1>13. Touch(set, learnt, {}, {})
  <2> DEFINE stop == StopPlayback(played)
             learn == [stop EXCEPT !.coeffs = ch]
  <2>1. TxCalLearn(played, ch) = learn
    BY Zenon DEF TxCalLearn
  <2>2. Touch(played, played, {}, {}) /\ "OVER1" \notin {} /\ "lpf" \notin {} /\ "rev" \notin {}
    BY TouchItself
  <2>3. Touch(set, stop, {}, {})
    BY <1>12, <2>2, PlayTouch
  <2> HIDE DEF stop
  <2>4. Touch(stop, learn, {}, {})
    BY TouchAway DEF PhyFields, Results, Noted
  <2> HIDE DEF learn
  <2>5. Touch(set, learn, {}, {})
    BY <2>3, <2>4, TouchThen
  <2>6. ~memory => played = set
    BY DEF Tone
  <2> HIDE DEF played
  <2> QED
    BY <2>1, <2>5, <2>6, TouchItself
<1> HIDE DEF learnt
<1>14. /\ Cells(learnt) /\ learnt.rev = p.rev /\ learnt.saved = set.saved
       /\ learnt.rad = set.rad
       /\ \A k \in Kinds, c \in Cores : learnt.cell[k][c] = set.cell[k][c]
  BY <1>12, <1>13 DEF Touch, Noted
<1>15. OverIn(learnt, MoreOn(p.rev), {\h80}, {})
  BY <1>11, <1>14, ZenonT(60) DEF OverIn, Kinds
<1>16. /\ Touch(learnt, phyback, TxTaken, {})
       /\ OverIn(phyback, MoreOn(p.rev), {}, {})
       /\ \A k \in TxGiven, c \in Cores : phyback.cell[k][c] = radio.cell[k][c]
  <2> DEFINE area == radio.saved
             was == radio.cell
             m == MoreOn(p.rev)
  <2>1. DOMAIN area = 1..15
    BY <1>8 DEF Cells
  <2>2. learnt.saved = Saved(area, was, TxLayout)
    BY <1>11, <1>14
  <2>3. OverIn(learnt, m, {\h80}, {})
    BY <1>15
  <2> HIDE DEF area, was, m
  <2>4. Touch(learnt, phyback, TxTaken, {})
    BY <1>14, <2>1, <2>2, <2>3, TxCalCleanupRegs
  <2>5. OverIn(phyback, m, {}, {})
    BY <1>14, <2>1, <2>2, <2>3, TxCalCleanupRegs
  <2>6. \A k \in TxGiven, c \in Cores : phyback.cell[k][c] = was[k][c]
    BY <1>14, <2>1, <2>2, <2>3, TxCalCleanupRegs
  <2> QED
    BY <2>4, <2>5, <2>6 DEF was, m
<1> HIDE DEF phyback
<1>17. Cells(phyback)
  BY <1>14, <1>16 DEF Touch
<1>18. Touch(phyback, off, Overs, {}) /\ OverIn(off, {}, {}, {})
  <2> DEFINE b == {\h8}
             m == MoreOn(p.rev)
             o == RfCtlOverrideRev7(phyback, b, Cores, TRUE, 0)
  <2>1. OverIn(phyback, m, {}, {}) /\ Touch(phyback, phyback, Overs, {}) /\ Overs \subseteq Overs
    BY <1>16, TouchItself
  <2>2. CASE p.rev >= 8
    <3>1. off = o /\ m = b
      BY <1>14, <2>2 DEF MoreOn
    <3> HIDE DEF off, b, m
    <3>2. Touch(phyback, o, Overs, {})
      BY <1>17, <2>1, RfCtlOff
    <3>3. OverIn(o, m \ b, {}, {})
      BY <1>17, <2>1, RfCtlOff
    <3>4. m \ b = {}
      BY <3>1
    <3> QED
      BY <3>1, <3>2, <3>3, <3>4
  <2>3. CASE ~(p.rev >= 8)
    <3>1. off = phyback /\ m = {}
      BY <1>14, <2>3 DEF MoreOn
    <3> QED
      BY <2>1, <3>1
  <2> QED
    BY <2>2, <2>3
<1> HIDE DEF off
<1>19. Touch(off, gains, {}, {})
  BY TouchAway DEF PhyFields, Levelling, Noted
<1> HIDE DEF gains
<1> DEFINE K == TxTaken \union {"TSSI"}
           F == {"saved", "rad"}
<1>20. Touch(p, gains, K, F)
  <2>1. Overs \subseteq K /\ TxTaken \subseteq K /\ {"TSSI"} \subseteq K
    BY DEF TxTaken
  <2>2. {"saved"} \subseteq F /\ {"rad"} \subseteq F
    OBVIOUS
  <2> HIDE DEF K, F
  <2>3. Touch(in, radio, K, F) /\ Touch(radio, set, K, F)
    BY <1>6, <1>11, <2>1, <2>2, TouchMore
  <2>4. Touch(learnt, phyback, K, F) /\ Touch(phyback, off, K, F)
    BY <1>16, <1>18, <2>1, TouchMore
  <2>5. Touch(p, in, K, F) /\ Touch(set, learnt, K, F) /\ Touch(off, gains, K, F)
    BY <1>4, <1>13, <1>19, TouchBetween
  <2>6. Touch(p, learnt, K, F)
    BY <2>3, <2>5, TouchThen
  <2> QED
    BY <2>4, <2>5, <2>6, TouchThen
<1>21. /\ Cells(off) /\ Cells(gains) /\ gains.rad = radio.rad /\ gains.rev = p.rev
  <2>1. Cells(off) /\ off.rad = phyback.rad
    BY <1>17, <1>18 DEF Touch, Noted
  <2>2. Cells(gains) /\ gains.rad = off.rad
    BY <1>19, <2>1 DEF Touch, Noted
  <2>3. phyback.rad = learnt.rad
    BY <1>14, <1>16 DEF Touch, Noted
  <2>4. set.rad = radio.rad
    BY <1>8, <1>11 DEF Touch, Noted
  <2>5. gains.rev = p.rev
    BY <1>20 DEF Touch, Noted
  <2> QED
    BY <1>14, <2>1, <2>2, <2>3, <2>4, <2>5
<1>22. \A k \in TxGiven \union Overs, c \in Cores : gains.cell[k][c] = p.cell[k][c]
  <2>1. ASSUME NEW k \in TxGiven, NEW c \in Cores PROVE gains.cell[k][c] = p.cell[k][c]
    <3>1. k \in Kinds \ Overs /\ k # "TSSI"
      BY DEF TxGiven, Overs, Kinds
    <3>2. gains.cell[k][c] = off.cell[k][c]
      BY <1>19, <1>21, <3>1 DEF Touch
    <3>3. off.cell[k][c] = phyback.cell[k][c]
      BY <1>17, <1>18, <3>1 DEF Touch
    <3>4. phyback.cell[k][c] = radio.cell[k][c]
      BY <1>16
    <3>5. radio.cell[k][c] = p.cell[k][c]
      BY <1>9, <3>1
    <3> QED
      BY <3>2, <3>3, <3>4, <3>5
  <2>2. ASSUME NEW k \in Overs, NEW c \in Cores PROVE gains.cell[k][c] = p.cell[k][c]
    <3>1. k \in Kinds
      BY DEF Overs, Kinds
    <3>2. gains.cell[k][c] = off.cell[k][c]
      BY <1>19, <1>21, <3>1 DEF Touch
    <3>3. off.cell[k][c] = {}
      BY <1>18 DEF OverIn, Overs
    <3>4. p.cell[k][c] = {}
      BY DEF OverIn, Overs
    <3> QED
      BY <3>2, <3>3, <3>4
  <2> QED
    BY <2>1, <2>2
<1>23. /\ Touch(gains, rback, {"TSSI"}, {})
       /\ \A c \in Cores : rback.cell.TSSI[c] = p.cell.TSSI[c]
  <2>0. gains.rev = p.rev /\ learnt.rev = p.rev
    BY <1>14, <1>21
  <2>1. CASE p.rev >= 7
    <3> DEFINE r == Writes(gains, Restored(gains.cell, gains.rad, TxRadioLayout))
               area == in.rad
               was == in.cell
               pl == Places(TxRadioLayout)
    <3>1. rback = r
      BY <2>0, <2>1, Zenon DEF TxCalRadioCleanupRev7, Writes
    <3>2. gains.rad = Saved(area, was, TxRadioLayout) /\ DOMAIN TxRadioLayout \subseteq DOMAIN area
      BY <1>5, <1>6, <1>21, <2>1, TxPlaces DEF Cells
    <3>3. \A k \in Kinds \ {"TSSI"}, c \in Cores : <<k, c>> \notin pl
      BY TxPlaces
    <3>4. \A c \in Cores : <<"TSSI", c>> \in pl
      BY TxPlaces DEF Cores
    <3> HIDE DEF area, was, rback
    <3>5. Touch(gains, r, {"TSSI"}, {})
      BY <1>21, <3>2, <3>3, RestoreSets
    <3>6. BackFrom(r.cell, gains.cell, was, pl)
      BY <1>21, <3>2, <3>3, RestoreSets
    <3> HIDE DEF r, pl
    <3>7. \A c \in Cores : r.cell.TSSI[c] = was.TSSI[c]
      BY <3>4, <3>6 DEF BackFrom, Kinds
    <3>8. \A c \in Cores : was.TSSI[c] = p.cell.TSSI[c]
      BY <1>4 DEF Touch, Kinds, was
    <3> QED
      BY <3>1, <3>5, <3>7, <3>8
  <2>2. CASE ~(p.rev >= 7)
    <3>1. rback = gains /\ radio = in
      BY <1>7, <2>0, <2>2
    <3>2. \A c \in Cores : gains.cell.TSSI[c] = p.cell.TSSI[c]
      <4>1. "TSSI" \in Kinds \ (TxTaken \union Overs)
        BY DEF Kinds, TxTaken, Overs
      <4>2. \A c \in Cores : in.cell.TSSI[c] = p.cell.TSSI[c]
        BY <1>4, <4>1 DEF Touch
      <4>3. \A c \in Cores : set.cell.TSSI[c] = in.cell.TSSI[c]
        BY <1>8, <1>11, <3>1, <4>1 DEF Touch
      <4>4. \A c \in Cores : phyback.cell.TSSI[c] = set.cell.TSSI[c]
        BY <1>14, <1>16, <4>1 DEF Touch
      <4>5. \A c \in Cores : off.cell.TSSI[c] = phyback.cell.TSSI[c]
        BY <1>17, <1>18, <4>1 DEF Touch
      <4>6. \A c \in Cores : gains.cell.TSSI[c] = off.cell.TSSI[c]
        BY <1>19, <1>21, <4>1 DEF Touch
      <4> QED
        BY <4>2, <4>3, <4>4, <4>5, <4>6
    <3> QED
      BY <3>1, <3>2, TouchItself
  <2> QED
    BY <2>1, <2>2
<1> HIDE DEF rback
<1>24. Touch(rback, out, {}, {})
  <2>1. Touch(rback, back, {}, {})
    BY TouchSearch
  <2> HIDE DEF back
  <2>2. Touch(back, out, {}, {})
    BY BracketTouch
  <2> QED
    BY <2>1, <2>2, TouchThen
<1> HIDE DEF out
<1>25. Cells(rback)
  BY <1>21, <1>23 DEF Touch
<1>26. Touch(p, out, K, F)
  <2> HIDE DEF F
  <2>1. Touch(gains, rback, K, F)
    BY <1>23, TouchMore
  <2> QED
    BY <1>20, <1>24, <2>1, TouchThen, TouchBetween
<1>27. ASSUME NEW k \in K \ {"R2FF", "BBCFG"}, NEW c \in Cores
       PROVE  out.cell[k][c] = p.cell[k][c]
  <2>1. k \in Kinds
    BY DEF TxTaken, Overs, Kinds
  <2>2. out.cell[k][c] = rback.cell[k][c]
    BY <1>24, <1>25, <2>1 DEF Touch
  <2>3. CASE k = "TSSI"
    BY <1>23, <2>2, <2>3
  <2>4. CASE k # "TSSI"
    <3>1. k \in TxGiven \union Overs
      BY <2>4 DEF TxTaken, TxGiven
    <3>2. rback.cell[k][c] = gains.cell[k][c]
      BY <1>21, <1>23, <2>1, <2>4 DEF Touch
    <3> QED
      BY <1>22, <2>2, <3>1, <3>2
  <2> QED
    BY <2>3, <2>4
<1> QED
  BY <1>3, <1>26, <1>27 DEF Touch

(***************************************************************************)
(* The calibration of the PAPD engine.                                     *)
(***************************************************************************)
(* Overrides that go on among some bits, the filter's among them.          *)
Taken(p, q, kinds, fields, x, y, z) ==
  Touch(p, q, kinds, fields) /\ OverIn(q, x, y, z) /\ Filtered(q)

LEMMA TakenOn ==
  ASSUME NEW p, NEW q, NEW kinds, NEW fields, NEW x, NEW y, NEW z, Cells(p),
         Overs \subseteq kinds, Taken(p, q, kinds, fields, x, y, z), NEW bits, NEW cs
  PROVE  /\ bits \subseteq x =>
              Taken(p, RfCtlOverrideRev7(q, bits, cs, FALSE, 0), kinds, fields, x, y, z)
         /\ bits \subseteq y =>
              Taken(p, RfCtlOverrideRev7(q, bits, cs, FALSE, 1), kinds, fields, x, y, z)
         /\ bits \subseteq z =>
              Taken(p, RfCtlOverrideRev7(q, bits, cs, FALSE, 2), kinds, fields, x, y, z)
<1>1. Touch(p, q, kinds, fields) /\ OverIn(q, x, y, z) /\ Filtered(q)
  BY DEF Taken
<1>2. ASSUME NEW id \in {0, 1, 2}
      PROVE  /\ Touch(p, RfCtlOverrideRev7(q, bits, cs, FALSE, id), kinds, fields)
             /\ Filtered(RfCtlOverrideRev7(q, bits, cs, FALSE, id))
  BY <1>1, RfCtlOn
<1>3. OverIn(RfCtlOverrideRev7(q, bits, cs, FALSE, 0), x \union bits, y, z)
  BY <1>1, RfCtlOn
<1>4. OverIn(RfCtlOverrideRev7(q, bits, cs, FALSE, 1), x, y \union bits, z)
  BY <1>1, RfCtlOn
<1>5. OverIn(RfCtlOverrideRev7(q, bits, cs, FALSE, 2), x, y, z \union bits)
  BY <1>1, RfCtlOn
<1>6. ASSUME bits \subseteq x
      PROVE  Taken(p, RfCtlOverrideRev7(q, bits, cs, FALSE, 0), kinds, fields, x, y, z)
  <2>1. x \union bits = x
    BY <1>6
  <2> QED
    BY <1>2, <1>3, <2>1 DEF Taken
<1>7. ASSUME bits \subseteq y
      PROVE  Taken(p, RfCtlOverrideRev7(q, bits, cs, FALSE, 1), kinds, fields, x, y, z)
  <2>1. y \union bits = y
    BY <1>7
  <2> QED
    BY <1>2, <1>4, <2>1 DEF Taken
<1>8. ASSUME bits \subseteq z
      PROVE  Taken(p, RfCtlOverrideRev7(q, bits, cs, FALSE, 2), kinds, fields, x, y, z)
  <2>1. z \union bits = z
    BY <1>8
  <2> QED
    BY <1>2, <1>5, <2>1 DEF Taken
<1> QED
  BY <1>6, <1>7, <1>8

LEMMA TakenMany ==
  ASSUME NEW p, NEW q, NEW kinds, NEW fields, NEW x, NEW y, NEW z, Cells(p),
         Overs \subseteq kinds, Taken(p, q, kinds, fields, x, y, z),
         NEW cmd \in DOMAIN Many, NEW cs,
         Many[cmd][1] \subseteq x, Many[cmd][2] \subseteq y, Many[cmd][3] \subseteq z
  PROVE  Taken(p, OneToMany(q, cmd, cs, FALSE), kinds, fields, x, y, z)
<1> DEFINE r == OneToMany(q, cmd, cs, FALSE)
           a == Many[cmd][1]
           b == Many[cmd][2]
           d == Many[cmd][3]
<1>1. Touch(p, q, kinds, fields) /\ OverIn(q, x, y, z) /\ Filtered(q)
  BY DEF Taken
<1>2. Touch(p, r, kinds, fields)
  BY <1>1, ManyIn
<1>3. OverIn(r, x \union a, y \union b, z \union d)
  BY <1>1, ManyIn
<1>4. Filtered(r)
  BY <1>1, ManyIn
<1>5. x \union a = x /\ y \union b = y /\ z \union d = z
  OBVIOUS
<1> QED
  BY <1>2, <1>3, <1>4, <1>5 DEF Taken

PapdTaken == Overs \union {"AFECTL", "AFEOVER", "PWRUP", "ATTEN"}

(* The bits that the engine's calibration overrides.                       *)
Papd0 == {\h4, \h8, \h800}
Papd1 == {\h1, \h2, \h4, \h8, \h10, \h20, \h80, \h100, \h200, \h400, \h800}
Papd2 == {\h1, \h2, \h4}

LEMMA PapdSetupRegs ==
  ASSUME NEW p, Cells(p), OverIn(p, {}, {}, {}), NEW c \in Cores
  PROVE  Taken(p, PapdCalSetup(p, c), PapdTaken, {}, Papd0, Papd1, Papd2)
<1> DEFINE b == {\h80}
           b1 == {\h800}
           b2 == {\h8}
           b3 == {\h1, \h4, \h8, \h10, \h20, \h100, \h200, \h400}
           b4 == {\h2}
           fl == RfCtlOverrideRev7(p, b, Cores, FALSE, 1)
           wide == RfCtlOverrideRev7(fl, b1, {c}, FALSE, 0)
           u1 == OneToMany(wide, "TX_PU", {c}, FALSE)
           up == OneToMany(u1, "TX_PU", {1 - c}, FALSE)
           a1 == RfCtlOverrideRev7(up, b2, Cores, FALSE, 0)
           a2 == RfCtlOverrideRev7(a1, b3, {c}, FALSE, 1)
           all == RfCtlOverrideRev7(a2, b4, {c}, FALSE, 2)
           u == Marked(all.cell.AFECTL, Cores, {"cal"})
           v == Marked(all.cell.AFEOVER, Cores, {"cal"})
           w == Both({"papd"})
           z == [all.cell EXCEPT !.AFECTL = u, !.AFEOVER = v, !.PWRUP = w, !.ATTEN = w]
           out == Writes(all, z)
           K == PapdTaken
           In(q) == Taken(p, q, K, {}, Papd0, Papd1, Papd2)
<1>1. PapdCalSetup(p, c) = out
  <2>1. PapdCalSetup(p, c) =
          [all EXCEPT !.cell.AFECTL = Marked(@, Cores, {"cal"}),
                      !.cell.AFEOVER = Marked(@, Cores, {"cal"}),
                      !.cell.PWRUP = Both({"papd"}), !.cell.ATTEN = Both({"papd"})]
    BY DEF PapdCalSetup
  <2> HIDE DEF all
  <2>2. PapdCalSetup(p, c) = [all EXCEPT !.cell.AFECTL = u, !.cell.AFEOVER = v,
                                         !.cell.PWRUP = w, !.cell.ATTEN = w]
    BY <2>1
  <2> HIDE DEF u, v, w
  <2> QED
    BY <2>2, Zenon DEF Writes
<1>2. Overs \subseteq K
  BY DEF PapdTaken
<1>3. /\ b \subseteq Papd1 /\ b1 \subseteq Papd0 /\ b2 \subseteq Papd0 /\ b3 \subseteq Papd1
      /\ b4 \subseteq Papd2
  BY DEF Papd0, Papd1, Papd2
<1>4. /\ "TX_PU" \in DOMAIN Many /\ Many["TX_PU"][1] \subseteq Papd0
      /\ Many["TX_PU"][2] \subseteq Papd1 /\ Many["TX_PU"][3] \subseteq Papd2
  BY DEF Many, Papd0, Papd1, Papd2
<1>5. In(fl)
  <2>1. Touch(p, fl, {"OVER1"}, {}) /\ fl.cell.OVER1 = Marked(p.cell.OVER1, Cores, b)
    BY FilterSets, ZenonT(60)
  <2>2. Filtered(fl)
    <3> DEFINE x == Marked(p.cell.OVER1, Cores, b)
    <3>1. 0 \in Cores
      BY DEF Cores
    <3>2. x[0] = p.cell.OVER1[0] \union b
      BY <3>1, PairMarks
    <3>3. \h80 \in b
      OBVIOUS
    <3>4. fl.cell.OVER1 = x
      BY <2>1
    <3> HIDE DEF x, fl, b
    <3>5. \h80 \in fl.cell.OVER1[0]
      BY <3>2, <3>3, <3>4
    <3> QED
      BY <3>1, <3>5 DEF Filtered
  <2> HIDE DEF b
  <2>3. OverIn(fl, {}, {} \union b, {})
    BY RfCtlOn, TouchItself
  <2> HIDE DEF fl
  <2>4. OverIn(fl, Papd0, Papd1, Papd2)
    BY <1>3, <2>3, OverMore
  <2>5. Touch(p, fl, K, {})
    BY <2>1, TouchMore DEF PapdTaken, Overs
  <2> QED
    BY <2>2, <2>4, <2>5 DEF Taken
<1> HIDE DEF b, b1, b2, b3, b4, fl, K
<1>6. In(wide)
  BY <1>2, <1>3, <1>5, TakenOn
<1> HIDE DEF wide
<1>7. In(u1)
  BY <1>2, <1>4, <1>6, TakenMany
<1> HIDE DEF u1
<1>8. In(up)
  BY <1>2, <1>4, <1>7, TakenMany
<1> HIDE DEF up
<1>9. In(a1)
  BY <1>2, <1>3, <1>8, TakenOn
<1> HIDE DEF a1
<1>10. In(a2)
  BY <1>2, <1>3, <1>9, TakenOn
<1> HIDE DEF a2
<1>11. In(all)
  BY <1>2, <1>3, <1>10, TakenOn
<1> HIDE DEF all
<1>12. Cells(all)
  BY <1>11 DEF Taken, Touch
<1>13. DOMAIN u = Cores /\ DOMAIN v = Cores /\ DOMAIN w = Cores
  BY PairMarks DEF Both
<1> HIDE DEF u, v, w
<1> DEFINE four == {"AFECTL", "AFEOVER", "PWRUP", "ATTEN"}
<1>14. /\ DOMAIN z = Kinds /\ \A k \in Kinds \ four : z[k] = all.cell[k]
  BY <1>12 DEF Cells, Kinds
<1>15. \A k \in Kinds : DOMAIN z[k] = Cores
  BY <1>12, <1>13 DEF Cells
<1> HIDE DEF z
<1>16. Touch(all, out, four, {})
  BY <1>14, <1>15, TouchCells
<1> HIDE DEF out
<1>17. four \subseteq K /\ four \intersect Overs = {} /\ {} \subseteq {}
  BY DEF PapdTaken, K, Overs
<1> HIDE DEF four
<1>18. Touch(p, all, K, {}) /\ OverIn(all, Papd0, Papd1, Papd2) /\ Filtered(all)
  BY <1>11 DEF Taken
<1>19. Touch(p, out, K, {})
  BY <1>16, <1>17, <1>18, ApartIn
<1>20. OverIn(out, Papd0, Papd1, Papd2)
  BY <1>16, <1>17, <1>18, ApartIn
<1>21. Filtered(out)
  BY <1>16, <1>17, <1>18, ApartIn, ZenonT(60)
<1> QED
  BY <1>1, <1>19, <1>20, <1>21 DEF Taken, K

(* The engine is on for one core and off for the other.                    *)
Engaged(p, q, c) ==
  \A d \in Cores : q.cell.PAPD_EN[d] = IF d = c THEN p.cell.PAPD_EN[d] \union {"on"}
                                       ELSE p.cell.PAPD_EN[d] \ {"on"}

LEMMA EngineOnRegs ==
  ASSUME NEW p, Cells(p), NEW c \in Cores
  PROVE  Touch(p, PapdEngineOn(p, c), {"PAPD_EN"}, {}) /\ Engaged(p, PapdEngineOn(p, c), c)
<1> DEFINE m == Marked(p.cell.PAPD_EN, {c}, {"on"})
           x == Unmarked(m, {1 - c}, {"on"})
<1>1. PapdEngineOn(p, c) = One(p, "PAPD_EN", x)
  BY Zenon DEF PapdEngineOn, One
<1>2. ASSUME NEW d \in Cores
      PROVE  /\ d \in {c} => m[d] = p.cell.PAPD_EN[d] \union {"on"}
             /\ d \notin {c} => m[d] = p.cell.PAPD_EN[d]
  BY PairMarks
<1> HIDE DEF m
<1>3. ASSUME NEW d \in Cores
      PROVE  /\ d \in {1 - c} => x[d] = m[d] \ {"on"}
             /\ d \notin {1 - c} => x[d] = m[d]
  BY PairMarks
<1>4. DOMAIN x = Cores
  BY PairMarks
<1>5. \A d \in Cores : d = 1 - c <=> d # c
  BY DEF Cores
<1> HIDE DEF x
<1>6. Touch(p, One(p, "PAPD_EN", x), {"PAPD_EN"}, {}) /\ One(p, "PAPD_EN", x).cell.PAPD_EN = x
  BY <1>4, TouchOne DEF Kinds
<1>7. ASSUME NEW d \in Cores
      PROVE  x[d] = IF d = c THEN p.cell.PAPD_EN[d] \union {"on"} ELSE p.cell.PAPD_EN[d] \ {"on"}
  <2>1. CASE d = c
    BY <1>2, <1>3, <1>5, <2>1
  <2>2. CASE d # c
    BY <1>2, <1>3, <1>5, <2>2
  <2> QED
    BY <2>1, <2>2
<1> QED
  BY <1>1, <1>6, <1>7 DEF Engaged

LEMMA RunOneRegs ==
  ASSUME NEW p, Cells(p), NEW x, NEW y, NEW z, OverIn(p, x, y, z), {\h8} \subseteq x,
         NEW c \in Cores
  PROVE  /\ Touch(p, RunOne(p, c), Overs \union {"PAPD_EN"}, {})
         /\ OverIn(RunOne(p, c), x, y, z) /\ Engaged(p, RunOne(p, c), c)
<1> DEFINE get == GetTxGains(p)
           gain == OneToMany(get, "TX_GAIN", {c}, FALSE)
           eng == PapdEngineOn(gain, c)
           m == [d \in Cores |-> IF d = c THEN ToneLevel ELSE Silent]
           loud == [eng EXCEPT !.mult = m]
           b == {\h8}
           over == RfCtlOverrideRev7(loud, b, Cores, FALSE, 0)
           out == OneToMany(over, "TX_GAIN", {c}, TRUE)
           t == {\h1000, \h2000}
           K == Overs \union {"PAPD_EN"}
<1>1. RunOne(p, c) = out
  BY Zenon DEF RunOne
<1>2. /\ "TX_GAIN" \in DOMAIN Many /\ Many["TX_GAIN"][1] = t
      /\ Many["TX_GAIN"][2] = {} /\ Many["TX_GAIN"][3] = {}
  BY DEF Many
<1>3. Overs \subseteq K /\ Overs \subseteq Overs /\ {} \subseteq {}
  OBVIOUS
<1>4. b \subseteq x
  OBVIOUS
<1> HIDE DEF b, m, t
<1>5. Touch(p, get, Overs, {}) /\ OverIn(get, x, y, z)
  <2>1. Touch(p, get, {}, {})
    BY GainsTouch
  <2> HIDE DEF get
  <2>2. Touch(p, get, Overs, {})
    BY <2>1, TouchBetween
  <2>3. Touch(p, p, {}, {}) /\ {} \intersect Overs = {} /\ {} \subseteq {}
    BY TouchItself
  <2>4. OverIn(get, x, y, z)
    BY <2>1, <2>3, ApartIn
  <2> QED
    BY <2>2, <2>4
<1> HIDE DEF get
<1>6. Touch(p, gain, Overs, {}) /\ OverIn(gain, x \union t, y \union {}, z \union {})
  <2>1. Touch(p, gain, Overs, {})
    BY <1>2, <1>3, <1>5, ManyIn
  <2>2. OverIn(gain, x \union Many["TX_GAIN"][1], y \union Many["TX_GAIN"][2],
               z \union Many["TX_GAIN"][3])
    BY <1>2, <1>3, <1>5, ManyIn
  <2> QED
    BY <1>2, <2>1, <2>2
<1> HIDE DEF gain
<1>7. OverIn(gain, x \union t, y, z) /\ Touch(p, gain, K, {}) /\ Cells(gain)
  <2>1. y \union {} = y /\ z \union {} = z
    OBVIOUS
  <2>2. Touch(p, gain, K, {})
    BY <1>3, <1>6, TouchMore
  <2> QED
    BY <1>6, <2>1, <2>2 DEF Touch
<1>8. Touch(gain, eng, {"PAPD_EN"}, {}) /\ Engaged(gain, eng, c)
  BY <1>7, EngineOnRegs
<1> HIDE DEF eng
<1>9. Touch(p, eng, K, {}) /\ OverIn(eng, x \union t, y, z)
  <2>1. {"PAPD_EN"} \subseteq K /\ {} \subseteq {} /\ {"PAPD_EN"} \intersect Overs = {}
    BY DEF Overs
  <2> HIDE DEF K
  <2>2. Touch(p, eng, K, {})
    BY <1>7, <1>8, <2>1, ApartIn
  <2>3. "OVER0" \in Kinds \ {"PAPD_EN"} /\ "OVER1" \in Kinds \ {"PAPD_EN"}
        /\ "OVER2" \in Kinds \ {"PAPD_EN"}
    BY DEF Kinds
  <2>4. OverIn(eng, x \union t, y, z)
    BY <1>7, <1>8, <2>3, ZenonT(60) DEF Touch, OverIn
  <2> QED
    BY <2>2, <2>4
<1>10. Touch(eng, loud, {}, {})
  BY TouchAway DEF PhyFields, Levelling, Noted
<1> HIDE DEF loud
<1>11. Touch(p, loud, K, {}) /\ OverIn(loud, x \union t, y, z)
  <2>1. {} \subseteq K /\ {} \subseteq {} /\ {} \intersect Overs = {}
    OBVIOUS
  <2> HIDE DEF K
  <2>2. Touch(p, loud, K, {})
    BY <1>9, <1>10, <2>1, ApartIn
  <2>3. OverIn(loud, x \union t, y, z)
    BY <1>9, <1>10, <2>1, ApartIn
  <2> QED
    BY <2>2, <2>3
<1>12. Touch(p, over, K, {}) /\ OverIn(over, (x \union t) \union b, y, z)
  <2> HIDE DEF K
  <2>1. Touch(p, over, K, {})
    BY <1>3, <1>11, RfCtlOn
  <2>2. OverIn(over, (x \union t) \union b, y, z)
    BY <1>3, <1>11, RfCtlOn
  <2> QED
    BY <2>1, <2>2
<1>13. Touch(loud, over, Overs, {})
  <2>1. Touch(loud, loud, Overs, {})
    BY TouchItself
  <2>2. Cells(loud)
    BY <1>11 DEF Touch
  <2> QED
    BY <1>3, <1>11, <2>1, <2>2, RfCtlOn
<1> HIDE DEF over
<1>14. Touch(p, out, K, {}) /\ OverIn(out, x, y, z)
  <2> HIDE DEF K
  <2>1. Touch(p, out, K, {})
    BY <1>2, <1>3, <1>12, ManyIn
  <2>2. OverIn(out, ((x \union t) \union b) \ Many["TX_GAIN"][1], y \ Many["TX_GAIN"][2],
               z \ Many["TX_GAIN"][3])
    BY <1>2, <1>3, <1>12, ManyIn
  <2>3. OverIn(out, ((x \union t) \union b) \ t, y \ {}, z \ {})
    BY <1>2, <2>2
  <2>4. ((x \union t) \union b) \ t \subseteq x /\ y \ {} \subseteq y /\ z \ {} \subseteq z
    BY <1>4
  <2>5. OverIn(out, x, y, z)
    BY <2>3, <2>4, OverMore
  <2> QED
    BY <2>1, <2>5
<1>15. Touch(over, out, Overs, {})
  <2>1. Touch(over, over, Overs, {})
    BY TouchItself
  <2>2. Cells(over)
    BY <1>12 DEF Touch
  <2> QED
    BY <1>2, <1>3, <1>12, <2>1, <2>2, ManyIn
<1> HIDE DEF out
<1>16. Engaged(p, out, c)
  <2>1. "PAPD_EN" \in Kinds \ Overs /\ "PAPD_EN" \in Kinds \ {}
    BY DEF Kinds, Overs
  <2>2. Cells(eng) /\ Cells(loud) /\ Cells(over)
    BY <1>9, <1>11, <1>12 DEF Touch
  <2>3. \A d \in Cores : gain.cell.PAPD_EN[d] = p.cell.PAPD_EN[d]
    BY <1>6, <2>1 DEF Touch
  <2>4. \A d \in Cores : loud.cell.PAPD_EN[d] = eng.cell.PAPD_EN[d]
    BY <1>10, <2>1, <2>2 DEF Touch
  <2>5. \A d \in Cores : over.cell.PAPD_EN[d] = loud.cell.PAPD_EN[d]
    BY <1>13, <2>1, <2>2 DEF Touch
  <2>6. \A d \in Cores : out.cell.PAPD_EN[d] = over.cell.PAPD_EN[d]
    BY <1>15, <2>1, <2>2 DEF Touch
  <2>7. \A d \in Cores : out.cell.PAPD_EN[d] = eng.cell.PAPD_EN[d]
    BY <2>4, <2>5, <2>6
  <2> QED
    BY <1>8, <2>3, <2>7 DEF Engaged
<1> QED
  BY <1>1, <1>14, <1>16

LEMMA PapdCleanupRegs ==
  ASSUME NEW p, Cells(p), NEW q, Touch(p, q, PapdTaken \union {"PAPD_EN"}, {}),
         OverIn(q, Papd0, Papd1, Papd2), OverIn(p, {}, {}, {})
  PROVE  /\ Touch(p, PapdCalCleanup(q, p), {"PWRUP", "PAPD_EN"}, {})
         /\ \A c \in Cores : PapdCalCleanup(q, p).cell.PAPD_EN[c] = q.cell.PAPD_EN[c]
<1> DEFINE K == PapdTaken \union {"PAPD_EN"}
           w == Both({"zero"})
           from == p.cell
           radio == Two(q, "PWRUP", w, "ATTEN", from.ATTEN)
           b0 == {\h4, \h8, \h800, \h1000}
           b1 == {\h1, \h2, \h4, \h8, \h10, \h20, \h100, \h200, \h400, \h800}
           b2 == {\h1, \h2, \h4}
           b3 == {\h80}
           o1 == RfCtlOverrideRev7(radio, b0, Cores, TRUE, 0)
           o2 == RfCtlOverrideRev7(o1, b1, Cores, TRUE, 1)
           off == RfCtlOverrideRev7(o2, b2, Cores, TRUE, 2)
           afe == {"AFECTL", "AFEOVER"}
           back == PutBack(off, afe, from)
           out == RfCtlOverrideRev7(back, b3, Cores, TRUE, 1)
<1>1. PapdCalCleanup(q, p) = out
  <2>1. radio = [q EXCEPT !.cell.PWRUP = Both({"zero"}), !.cell.ATTEN = p.cell.ATTEN]
    BY Zenon DEF Two
  <2> HIDE DEF radio
  <2> QED
    BY <2>1, Zenon DEF PapdCalCleanup
<1>2. /\ Papd0 \ b0 = {} /\ (Papd1 \ b1) \ b3 = {} /\ Papd2 \ b2 = {}
  BY DEF Papd0, Papd1, Papd2
<1>3. Overs \subseteq K /\ {"PWRUP", "ATTEN"} \subseteq K /\ afe \subseteq K
  BY DEF PapdTaken
<1>4. /\ {"PWRUP", "ATTEN"} \intersect Overs = {} /\ afe \intersect Overs = {}
      /\ afe \subseteq Kinds /\ {"PAPD_EN", "ATTEN", "PWRUP", "AFECTL", "AFEOVER"} \subseteq Kinds
      /\ Overs \subseteq Kinds
      /\ {"PAPD_EN", "ATTEN"} \intersect (Overs \union afe) = {}
      /\ afe \intersect Overs = {}
  BY DEF Overs, Kinds
<1> HIDE DEF b0, b1, b2, b3, w
<1>5. DOMAIN w = Cores /\ DOMAIN from.ATTEN = Cores /\ \A k \in afe : DOMAIN from[k] = Cores
  BY <1>4 DEF Cells, Both, w
<1> HIDE DEF K
<1>6. Cells(q)
  BY DEF Touch
<1>7. Touch(q, radio, {"PWRUP", "ATTEN"}, {}) /\ radio.cell.ATTEN = from.ATTEN
  BY <1>4, <1>5, <1>6, TouchTwo
<1> HIDE DEF radio, from
<1>8. Touch(p, radio, K, {}) /\ OverIn(radio, Papd0, Papd1, Papd2) /\ Cells(radio)
  <2>0. Touch(p, q, K, {}) /\ {} \subseteq {}
    BY DEF K
  <2>1. Touch(p, radio, K, {})
    BY <1>3, <1>4, <1>7, <2>0, ApartIn
  <2>2. OverIn(radio, Papd0, Papd1, Papd2)
    BY <1>3, <1>4, <1>7, <2>0, ApartIn
  <2> QED
    BY <2>1, <2>2 DEF Touch
<1>9. Touch(p, o1, K, {}) /\ OverIn(o1, Papd0 \ b0, Papd1, Papd2)
  <2>1. Touch(p, o1, K, {})
    BY <1>3, <1>8, RfCtlOff
  <2>2. OverIn(o1, Papd0 \ b0, Papd1, Papd2)
    BY <1>3, <1>8, RfCtlOff
  <2> QED
    BY <2>1, <2>2
<1>10. Touch(radio, o1, Overs, {})
  BY <1>8, TouchItself, OverTouch
<1> HIDE DEF o1
<1>11. Touch(p, o2, K, {}) /\ OverIn(o2, Papd0 \ b0, Papd1 \ b1, Papd2)
  <2>1. Touch(p, o2, K, {})
    BY <1>3, <1>9, RfCtlOff
  <2>2. OverIn(o2, Papd0 \ b0, Papd1 \ b1, Papd2)
    BY <1>3, <1>9, RfCtlOff
  <2> QED
    BY <2>1, <2>2
<1>12. Touch(radio, o2, Overs, {})
  BY <1>10, OverTouch
<1> HIDE DEF o2
<1>13. Touch(p, off, K, {}) /\ OverIn(off, Papd0 \ b0, Papd1 \ b1, Papd2 \ b2)
  <2>1. Touch(p, off, K, {})
    BY <1>3, <1>11, RfCtlOff
  <2>2. OverIn(off, Papd0 \ b0, Papd1 \ b1, Papd2 \ b2)
    BY <1>3, <1>11, RfCtlOff
  <2> QED
    BY <2>1, <2>2
<1>14. Touch(radio, off, Overs, {})
  BY <1>12, OverTouch
<1> HIDE DEF off
<1>15. Cells(off)
  BY <1>13 DEF Touch
<1>16. Touch(off, back, afe, {}) /\ \A k \in afe : back.cell[k] = from[k]
  BY <1>4, <1>5, <1>15, PutBackSets
<1> HIDE DEF back
<1>17. Touch(p, back, K, {}) /\ OverIn(back, Papd0 \ b0, Papd1 \ b1, Papd2 \ b2) /\ Cells(back)
  <2>0. {} \subseteq {}
    OBVIOUS
  <2>1. Touch(p, back, K, {})
    BY <1>3, <1>4, <1>13, <1>16, <2>0, ApartIn
  <2>2. OverIn(back, Papd0 \ b0, Papd1 \ b1, Papd2 \ b2)
    BY <1>3, <1>4, <1>13, <1>16, <2>0, ApartIn
  <2> QED
    BY <2>1, <2>2 DEF Touch
<1>18. Touch(p, out, K, {}) /\ OverIn(out, {}, {}, {})
  <2>1. Touch(p, out, K, {})
    BY <1>3, <1>17, RfCtlOff
  <2>2. OverIn(out, Papd0 \ b0, (Papd1 \ b1) \ b3, Papd2 \ b2)
    BY <1>3, <1>17, RfCtlOff
  <2>3. OverIn(out, {}, {}, {})
    BY <1>2, <2>2
  <2> QED
    BY <2>1, <2>3
<1>19. Touch(back, out, Overs, {})
  BY <1>17, TouchItself, OverTouch
<1> HIDE DEF out
<1>20. ASSUME NEW c \in Cores
       PROVE  /\ out.cell.PAPD_EN[c] = q.cell.PAPD_EN[c] /\ out.cell.ATTEN[c] = p.cell.ATTEN[c]
              /\ \A k \in afe : out.cell[k][c] = p.cell[k][c]
  <2>1. \A k \in {"PAPD_EN", "ATTEN"} : /\ out.cell[k][c] = back.cell[k][c]
                                        /\ back.cell[k][c] = off.cell[k][c]
                                        /\ off.cell[k][c] = radio.cell[k][c]
    BY <1>4, <1>8, <1>14, <1>15, <1>16, <1>17, <1>19 DEF Touch
  <2>2. radio.cell.PAPD_EN[c] = q.cell.PAPD_EN[c]
    BY <1>4, <1>6, <1>7 DEF Touch
  <2>3. radio.cell.ATTEN[c] = p.cell.ATTEN[c]
    BY <1>7 DEF from
  <2>4. ASSUME NEW k \in afe PROVE out.cell[k][c] = p.cell[k][c]
    <3>1. out.cell[k][c] = back.cell[k][c]
      BY <1>4, <1>17, <1>19 DEF Touch
    <3>2. back.cell[k][c] = p.cell[k][c]
      BY <1>16 DEF from
    <3> QED
      BY <3>1, <3>2
  <2> QED
    BY <2>1, <2>2, <2>3, <2>4
<1>21. ASSUME NEW k \in Overs, NEW c \in Cores PROVE out.cell[k][c] = p.cell[k][c]
  <2>1. ASSUME NEW r, OverIn(r, {}, {}, {}) PROVE r.cell[k][c] = {}
    <3>1. r.cell.OVER0[c] = {} /\ r.cell.OVER1[c] = {} /\ r.cell.OVER2[c] = {}
      BY <2>1 DEF OverIn
    <3> QED
      BY <3>1 DEF Overs
  <2> QED
    BY <1>18, <2>1
<1>22. Touch(p, out, {"PWRUP", "PAPD_EN"}, {})
  <2>1. K \ {"PWRUP", "PAPD_EN"} = Overs \union afe \union {"ATTEN"}
    BY DEF K, PapdTaken, Overs
  <2>2. \A k \in K \ {"PWRUP", "PAPD_EN"}, c \in Cores : out.cell[k][c] = p.cell[k][c]
    BY <1>20, <1>21, <2>1
  <2> QED
    BY <1>18, <2>2 DEF Touch
<1> QED
  BY <1>1, <1>20, <1>22

(* A pass of the engine leaves it on for that core alone, and no more than *)
(* the coupler's power besides.                                            *)
LEMMA PapdPassedRegs ==
  ASSUME NEW p, Cells(p), p.lpf = FALSE, p.rev \in Int, OverIn(p, {}, {}, {}),
         NEW c \in Cores, NEW memory, NEW mult
  PROVE  /\ Touch(p, PapdPassed(p, c, memory, mult), {"PWRUP", "PAPD_EN"}, {})
         /\ Engaged(p, PapdPassed(p, c, memory, mult), c)
<1> DEFINE setup == PapdCalSetup(p, c)
           tone == Tone(setup, memory)
           set == PapdEngineOn(tone, c)
           one == RunOne(set, c)
           two == RunOne(one, c)
           done == StopPlayback(two)
           clean == PapdCalCleanup(done, p)
           out == [clean EXCEPT !.mult = mult]
           K == PapdTaken \union {"PAPD_EN"}
           At3(q) == Touch(p, q, K, {}) /\ OverIn(q, Papd0, Papd1, Papd2)
<1>1. PapdPassed(p, c, memory, mult) = out
  BY Zenon DEF PapdPassed, GainSearch
<1>2. /\ "PAPD_EN" \in Kinds \ PapdTaken /\ {"PAPD_EN"} \subseteq K /\ PapdTaken \subseteq K
      /\ {"PAPD_EN"} \intersect Overs = {} /\ Overs \union {"PAPD_EN"} \subseteq K
      /\ {\h8} \subseteq Papd0 /\ {} \subseteq {}
  BY DEF Kinds, PapdTaken, Overs, Papd0
<1>3. Touch(p, setup, PapdTaken, {}) /\ OverIn(setup, Papd0, Papd1, Papd2) /\ Filtered(setup)
  BY PapdSetupRegs DEF Taken
<1> HIDE DEF setup
<1>4. Cells(setup) /\ setup.rev = p.rev /\ setup.lpf = FALSE
  BY <1>3 DEF Touch, Noted
<1>5. Touch(setup, tone, {}, {})
  BY <1>3, <1>4, ToneTouch
<1> HIDE DEF tone
<1>6. /\ Touch(p, tone, PapdTaken, {}) /\ OverIn(tone, Papd0, Papd1, Papd2) /\ Cells(tone)
      /\ \A d \in Cores : tone.cell.PAPD_EN[d] = p.cell.PAPD_EN[d]
  <2>1. Touch(p, tone, PapdTaken, {})
    BY <1>3, <1>5, TouchBetween
  <2>2. OverIn(tone, Papd0, Papd1, Papd2)
    <3>1. "OVER0" \in Kinds /\ "OVER1" \in Kinds /\ "OVER2" \in Kinds
      BY DEF Kinds
    <3> QED
      BY <1>3, <1>4, <1>5, <3>1, ZenonT(60) DEF Touch, OverIn
  <2> QED
    BY <1>2, <2>1, <2>2 DEF Touch
<1>7. Touch(tone, set, {"PAPD_EN"}, {}) /\ Engaged(tone, set, c)
  BY <1>6, EngineOnRegs
<1> HIDE DEF set, K
<1>8. At3(set) /\ Cells(set)
  <2>1. Touch(p, tone, K, {}) /\ Touch(tone, set, K, {})
    BY <1>2, <1>6, <1>7, TouchMore
  <2>2. Touch(p, set, K, {})
    BY <2>1, TouchThen
  <2>3. OverIn(set, Papd0, Papd1, Papd2)
    <3>1. "OVER0" \in Kinds \ {"PAPD_EN"} /\ "OVER1" \in Kinds \ {"PAPD_EN"}
          /\ "OVER2" \in Kinds \ {"PAPD_EN"}
      BY DEF Kinds
    <3> QED
      BY <1>6, <1>7, <3>1, ZenonT(60) DEF Touch, OverIn
  <2> QED
    BY <2>2, <2>3 DEF Touch
<1>9. ASSUME NEW q, At3(q), Cells(q)
      PROVE  At3(RunOne(q, c)) /\ Cells(RunOne(q, c)) /\ Engaged(q, RunOne(q, c), c)
  <2> DEFINE r == RunOne(q, c)
  <2>1. Touch(q, r, Overs \union {"PAPD_EN"}, {})
    BY <1>2, <1>9, RunOneRegs
  <2>2. OverIn(r, Papd0, Papd1, Papd2)
    BY <1>2, <1>9, RunOneRegs
  <2>3. Engaged(q, r, c)
    BY <1>2, <1>9, RunOneRegs
  <2> HIDE DEF r
  <2>4. Touch(p, r, K, {})
    <3>1. Touch(q, r, K, {})
      BY <1>2, <2>1, TouchMore
    <3> QED
      BY <1>9, <3>1, TouchThen
  <2> QED
    BY <2>2, <2>3, <2>4 DEF Touch, r
<1>10. At3(one) /\ Cells(one) /\ Engaged(set, one, c)
  BY <1>8, <1>9
<1> HIDE DEF one
<1>11. At3(two) /\ Cells(two) /\ Engaged(one, two, c)
  BY <1>9, <1>10
<1> HIDE DEF two
<1>12. Touch(two, done, {}, {})
  <2>1. two.lpf = FALSE
    BY <1>11 DEF Touch, Noted
  <2> QED
    BY <1>11, <2>1, StopTouch
<1> HIDE DEF done
<1>13. At3(done)
  <2>1. Touch(p, done, K, {})
    BY <1>11, <1>12, TouchBetween
  <2>2. "OVER0" \in Kinds /\ "OVER1" \in Kinds /\ "OVER2" \in Kinds
    BY DEF Kinds
  <2>3. OverIn(done, Papd0, Papd1, Papd2)
    BY <1>11, <1>12, <2>2, ZenonT(60) DEF Touch, OverIn
  <2> QED
    BY <2>1, <2>3
<1>14. /\ Touch(p, clean, {"PWRUP", "PAPD_EN"}, {})
       /\ \A d \in Cores : clean.cell.PAPD_EN[d] = done.cell.PAPD_EN[d]
  BY <1>13, PapdCleanupRegs DEF K
<1> HIDE DEF clean
<1>15. Touch(clean, out, {}, {})
  BY TouchAway DEF PhyFields, Levelling, Noted
<1> HIDE DEF out
<1>16. Touch(p, out, {"PWRUP", "PAPD_EN"}, {})
  BY <1>14, <1>15, TouchBetween
<1>17. Engaged(p, out, c)
  <2>1. Cells(clean)
    BY <1>14 DEF Touch
  <2>2. ASSUME NEW d \in Cores
        PROVE  out.cell.PAPD_EN[d] = two.cell.PAPD_EN[d]
    <3>1. out.cell.PAPD_EN[d] = clean.cell.PAPD_EN[d]
      BY <1>2, <1>15, <2>1 DEF Touch
    <3>2. done.cell.PAPD_EN[d] = two.cell.PAPD_EN[d]
      BY <1>2, <1>11, <1>12 DEF Touch
    <3> QED
      BY <1>14, <3>1, <3>2
  <2>3. Engaged(tone, one, c)
    BY <1>7, <1>10 DEF Engaged
  <2>4. Engaged(tone, two, c)
    BY <1>11, <2>3 DEF Engaged
  <2> QED
    BY <1>6, <2>2, <2>4 DEF Engaged
<1> QED
  BY <1>1, <1>16, <1>17

(***************************************************************************)
(* The calibration of the receiver.                                        *)
(***************************************************************************)
LEMMA FilterOn ==
  ASSUME NEW p, Cells(p), NEW b, \h80 \in b
  PROVE  Filtered(RfCtlOverrideRev7(p, b, Cores, FALSE, 1))
<1> DEFINE q == RfCtlOverrideRev7(p, b, Cores, FALSE, 1)
           x == Marked(p.cell.OVER1, Cores, b)
<1>1. 0 \in Cores
  BY DEF Cores
<1>2. x[0] = p.cell.OVER1[0] \union b
  BY <1>1, PairMarks
<1>3. q.cell.OVER1 = x
  BY FilterSets
<1> HIDE DEF x, q
<1>4. \h80 \in q.cell.OVER1[0]
  BY <1>2, <1>3
<1> QED
  BY <1>1, <1>4 DEF Filtered, q

RxRf == Overs \union {"INTC", "R2FF"}
RxTaken == {"PAPD_EN", "RFSEQCA", "AFECTL", "AFEOVER"}

(* What was not taken of the registers that are.                           *)
Spared(p, q, c) ==
  /\ q.cell.RFSEQCA[1] = p.cell.RFSEQCA[1]
  /\ \A d \in Cores \ {c} : /\ q.cell.AFECTL[d] = p.cell.AFECTL[d]
                            /\ q.cell.AFEOVER[d] = p.cell.AFEOVER[d]

RxOpened(p, c, s) ==
  [p EXCEPT !.cell = [p.cell EXCEPT !.PAPD_EN = Unmarked(p.cell.PAPD_EN, Cores, {"on"}),
                                    !.RFSEQCA[0] = {c},
                                    !.AFECTL = Marked(p.cell.AFECTL, {c}, {"cal"}),
                                    !.AFEOVER = Marked(p.cell.AFEOVER, {c}, {"cal"})],
            !.saved = s]

LEMMA RxOpenRegs ==
  ASSUME NEW p, Cells(p), NEW c \in Cores, NEW s, DOMAIN s = 1..15
  PROVE  /\ Touch(p, RxOpened(p, c, s), RxTaken, {"saved"}) /\ RxOpened(p, c, s).saved = s
         /\ Spared(p, RxOpened(p, c, s), c)
         /\ Overridden(p) => Overridden(RxOpened(p, c, s))
<1> DEFINE q == RxOpened(p, c, s)
           u == Unmarked(p.cell.PAPD_EN, Cores, {"on"})
           f == [p.cell.RFSEQCA EXCEPT ![0] = {c}]
           v == Marked(p.cell.AFECTL, {c}, {"cal"})
           w == Marked(p.cell.AFEOVER, {c}, {"cal"})
           on == [p.cell EXCEPT !.PAPD_EN = u, !.RFSEQCA = f, !.AFECTL = v, !.AFEOVER = w]
           wr == Writes(p, on)
           open == [p.cell EXCEPT !.PAPD_EN = u, !.RFSEQCA[0] = {c}, !.AFECTL = v, !.AFEOVER = w]
<1>1. open = on /\ q = [p EXCEPT !.cell = open, !.saved = s]
  <2>1. q = [p EXCEPT !.cell = open, !.saved = s]
    BY Zenon DEF RxOpened
  <2> HIDE DEF u, v, w
  <2>2. open = on
    BY DEF Cells, Kinds
  <2> QED
    BY <2>1, <2>2
<1> HIDE DEF open, q
<1>2. DOMAIN u = Cores /\ DOMAIN f = Cores /\ DOMAIN v = Cores /\ DOMAIN w = Cores
  <2>1. DOMAIN p.cell.RFSEQCA = Cores
    BY DEF Cells, Kinds
  <2> QED
    BY <2>1, PairMarks
<1>3. f[1] = p.cell.RFSEQCA[1]
  BY DEF Cores, Cells, Kinds
<1>4. ASSUME NEW d \in Cores
      PROVE  /\ d \notin {c} => v[d] = p.cell.AFECTL[d] /\ w[d] = p.cell.AFEOVER[d]
             /\ p.cell.AFEOVER[d] \subseteq w[d]
             /\ u[d] = p.cell.PAPD_EN[d] \ {"on"}
  <2>1. d \notin {c} => v[d] = p.cell.AFECTL[d]
    BY PairMarks
  <2>2. d \notin {c} => w[d] = p.cell.AFEOVER[d]
    BY PairMarks
  <2>3. d \in {c} => w[d] = p.cell.AFEOVER[d] \union {"cal"}
    BY PairMarks
  <2>4. u[d] = p.cell.PAPD_EN[d] \ {"on"}
    BY PairMarks
  <2> HIDE DEF u, v, w
  <2>5. p.cell.AFEOVER[d] \subseteq w[d]
    BY <2>2, <2>3
  <2> QED
    BY <2>1, <2>2, <2>4, <2>5
<1> HIDE DEF u, f, v, w
<1>5. /\ DOMAIN on = Kinds /\ \A k \in Kinds \ RxTaken : on[k] = p.cell[k]
      /\ on.PAPD_EN = u /\ on.RFSEQCA = f /\ on.AFECTL = v /\ on.AFEOVER = w
  BY DEF Cells, Kinds, RxTaken
<1>6. \A k \in Kinds : DOMAIN on[k] = Cores
  BY <1>2, <1>5 DEF Cells, RxTaken
<1>7. q = [wr EXCEPT !.saved = s]
  <2> HIDE DEF on
  <2> QED
    BY <1>1, Zenon DEF Writes
<1> HIDE DEF on
<1>8. Touch(p, wr, RxTaken, {}) /\ wr.cell = on
  BY <1>5, <1>6, TouchCells
<1> HIDE DEF wr
<1>9. Cells(wr)
  BY <1>8 DEF Touch
<1>10. Touch(wr, q, {}, {"saved"}) /\ q.saved = s
  <2> DEFINE r == [wr EXCEPT !.saved = s]
  <2>1. Touch(wr, r, {}, {"saved"}) /\ r.saved = s
    BY <1>9, TouchField DEF Noted
  <2>2. q = r
    BY <1>7
  <2> HIDE DEF r
  <2> QED
    BY <2>1, <2>2
<1>11. Touch(p, q, RxTaken, {"saved"})
  <2>1. Touch(p, wr, RxTaken, {"saved"}) /\ Touch(wr, q, RxTaken, {"saved"})
    BY <1>8, <1>10, TouchMore
  <2> QED
    BY <2>1, TouchThen
<1>12. /\ {"PAPD_EN", "RFSEQCA", "AFECTL", "AFEOVER"} \subseteq Kinds \ {} /\ 1 \in Cores
       /\ "ipa" \in Noted \ {}
       /\ "ipa" \in Noted \ {"saved"}
  BY DEF Kinds, Cores, Noted
<1>13. \A d \in Cores : /\ q.cell.PAPD_EN[d] = u[d] /\ q.cell.AFECTL[d] = v[d]
                        /\ q.cell.AFEOVER[d] = w[d] /\ q.cell.RFSEQCA[d] = f[d]
  BY <1>5, <1>8, <1>9, <1>10, <1>12 DEF Touch
<1>14. q.ipa = p.ipa
  BY <1>11, <1>12 DEF Touch
<1>15. Spared(p, q, c)
  BY <1>3, <1>4, <1>12, <1>13 DEF Spared
<1>16. Overridden(p) => Overridden(q)
  BY <1>4, <1>13, <1>14 DEF Overridden
<1> QED
  BY <1>10, <1>11, <1>15, <1>16 DEF q

LEMMA FilterStays ==
  ASSUME NEW p, Cells(p), Filtered(p), NEW cs
  PROVE  /\ \A bits, id : id \in {0, 1, 2} => Filtered(RfCtlOverrideRev7(p, bits, cs, FALSE, id))
         /\ \A cmd : cmd \in DOMAIN Many => Filtered(OneToMany(p, cmd, cs, FALSE))
         /\ \A what : what \in {"OFF", "TRSW", "PA"} => Filtered(IntcOverride(p, what, cs))
<1> DEFINE x == p.cell.OVER0[0] \union p.cell.OVER0[1]
           y == p.cell.OVER1[0] \union p.cell.OVER1[1]
           z == p.cell.OVER2[0] \union p.cell.OVER2[1]
           K == RxRf
<1>1. OverIn(p, x, y, z)
  BY DEF OverIn, Cores
<1> HIDE DEF x, y, z
<1>2. Touch(p, p, K, {}) /\ Overs \subseteq K /\ Overs \union {"INTC", "R2FF"} \subseteq K
  BY TouchItself DEF RxRf
<1> HIDE DEF K
<1>3. ASSUME NEW bits, NEW id \in {0, 1, 2}
      PROVE  Filtered(RfCtlOverrideRev7(p, bits, cs, FALSE, id))
  BY <1>1, <1>2, RfCtlOn
<1>4. ASSUME NEW cmd \in DOMAIN Many PROVE Filtered(OneToMany(p, cmd, cs, FALSE))
  BY <1>1, <1>2, ManyIn
<1>5. ASSUME NEW what \in {"OFF", "TRSW", "PA"} PROVE Filtered(IntcOverride(p, what, cs))
  BY <1>1, <1>2, IntcIn
<1> QED
  BY <1>3, <1>4, <1>5

LEMMA IntcTouch ==
  ASSUME NEW p, NEW q, Cells(p), Touch(p, q, RxRf, {}), NEW what \in {"OFF", "TRSW", "PA"}, NEW cs
  PROVE  Touch(p, IntcOverride(q, what, cs), RxRf, {})
<1>1. Touch(q, IntcOverride(q, what, cs), {"INTC", "R2FF", "OVER0"}, {})
  BY IntcSets
<1>2. {"INTC", "R2FF", "OVER0"} \subseteq RxRf /\ {} \subseteq {}
  BY DEF RxRf, Overs
<1>3. Touch(q, IntcOverride(q, what, cs), RxRf, {})
  BY <1>1, <1>2, TouchMore
<1> QED
  BY <1>3, TouchThen

LEMMA RxSetupRegs ==
  ASSUME NEW p, Cells(p), NEW c \in Cores
  PROVE  /\ Touch(p, RxcalPhySetup(p, c), RxTaken \union RxRf, {"saved"})
         /\ RxcalPhySetup(p, c).saved = Saved(p.saved, p.cell, RxLayout(c))
         /\ Spared(p, RxcalPhySetup(p, c), c) /\ Filtered(RxcalPhySetup(p, c))
         /\ Overridden(p) => Overridden(RxcalPhySetup(p, c))
<1> DEFINE s == Saved(p.saved, p.cell, RxLayout(c))
           taken == RxOpened(p, c, s)
           b0 == {\h8}
           b1 == {\h200, \h400, \h1, \h800, \h80, \h20}
           b2 == {\h2}
           pa == IntcOverride(taken, "PA", Cores)
           o0 == RfCtlOverrideRev7(pa, b0, Cores, FALSE, 0)
           o1 == RfCtlOverrideRev7(o0, b1, Cores, FALSE, 1)
           o2 == RfCtlOverrideRev7(o1, b2, Cores, FALSE, 2)
           out == IntcOverride(o2, "TRSW", {c})
           K == RxRf
<1>1. RxcalPhySetup(p, c) = out
  <2> DEFINE op == [p.cell EXCEPT !.PAPD_EN = Unmarked(@, Cores, {"on"}),
                                  !.RFSEQCA[0] = {c},
                                  !.AFECTL = Marked(@, {c}, {"cal"}),
                                  !.AFEOVER = Marked(@, {c}, {"cal"})]
             tk == [p EXCEPT !.cell = op, !.saved = Saved(@, p.cell, RxLayout(c))]
  <2>1. tk = taken
    BY Zenon DEF RxOpened
  <2>2. RxcalPhySetup(p, c) =
          IntcOverride(RfCtlOverrideRev7(RfCtlOverrideRev7(RfCtlOverrideRev7(
            IntcOverride(tk, "PA", Cores), b0, Cores, FALSE, 0), b1, Cores, FALSE, 1),
            b2, Cores, FALSE, 2), "TRSW", {c})
    BY Zenon DEF RxcalPhySetup
  <2> HIDE DEF tk, taken, b0, b1, b2
  <2> QED
    BY <2>1, <2>2
<1>2. DOMAIN s = 1..15
  BY DEF Saved, Cells
<1>3. \h80 \in b1
  OBVIOUS
<1> HIDE DEF s, b0, b1, b2
<1>4. /\ Touch(p, taken, RxTaken, {"saved"}) /\ taken.saved = s
      /\ Spared(p, taken, c) /\ (Overridden(p) => Overridden(taken))
  <2>3. Touch(p, taken, RxTaken, {"saved"})
    BY <1>2, RxOpenRegs
  <2>4. taken.saved = s
    BY <1>2, RxOpenRegs
  <2>5. Spared(p, taken, c)
    BY <1>2, RxOpenRegs
  <2>6. Overridden(p) => Overridden(taken)
    BY <1>2, RxOpenRegs
  <2> QED
    BY <2>3, <2>4, <2>5, <2>6
<1> HIDE DEF taken
<1>5. Cells(taken)
  BY <1>4 DEF Touch
<1>6. Overs \subseteq K
  BY DEF RxRf
<1>7. Touch(taken, pa, K, {})
  BY <1>5, TouchItself, IntcTouch
<1> HIDE DEF pa
<1>8. Touch(taken, o0, K, {})
  BY <1>6, <1>7, OverTouch
<1> HIDE DEF o0
<1>9. Cells(o0)
  BY <1>5, <1>8 DEF Touch
<1>10. Touch(taken, o1, K, {}) /\ Filtered(o1)
  <2>1. Touch(taken, o1, K, {})
    BY <1>6, <1>8, OverTouch
  <2>2. Filtered(o1)
    BY <1>3, <1>9, FilterOn
  <2> QED
    BY <2>1, <2>2
<1> HIDE DEF o1
<1>11. Touch(taken, o2, K, {}) /\ Filtered(o2)
  <2>1. Touch(taken, o2, K, {})
    BY <1>6, <1>10, OverTouch
  <2>2. Cells(o1)
    BY <1>5, <1>10 DEF Touch
  <2>3. Filtered(o2)
    BY <1>10, <2>2, FilterStays
  <2> QED
    BY <2>1, <2>3
<1> HIDE DEF o2
<1>12. Touch(taken, out, K, {}) /\ Filtered(out)
  <2>1. Touch(taken, out, K, {})
    BY <1>5, <1>11, IntcTouch
  <2>2. Cells(o2)
    BY <1>5, <1>11 DEF Touch
  <2>3. Filtered(out)
    BY <1>11, <2>2, FilterStays
  <2> QED
    BY <2>1, <2>3
<1> HIDE DEF out, K
<1>13. Touch(p, out, RxTaken \union RxRf, {"saved"})
  <2>1. Touch(p, taken, RxTaken \union RxRf, {"saved"})
    BY <1>4, TouchMore
  <2>2. Touch(taken, out, RxTaken \union RxRf, {"saved"})
    BY <1>12, TouchMore DEF K
  <2> QED
    BY <2>1, <2>2, TouchThen
<1>14. {"RFSEQCA", "AFECTL", "AFEOVER", "PAPD_EN"} \subseteq Kinds \ K /\ 1 \in Cores
       /\ "saved" \in Noted /\ "ipa" \in Noted
  BY DEF Kinds, K, RxRf, Overs, Cores, Noted
<1>15. out.saved = s /\ out.ipa = taken.ipa
  BY <1>4, <1>5, <1>12, <1>14 DEF Touch
<1>16. \A d \in Cores : /\ out.cell.PAPD_EN[d] = taken.cell.PAPD_EN[d]
                        /\ out.cell.AFECTL[d] = taken.cell.AFECTL[d]
                        /\ out.cell.AFEOVER[d] = taken.cell.AFEOVER[d]
                        /\ out.cell.RFSEQCA[d] = taken.cell.RFSEQCA[d]
  BY <1>5, <1>12, <1>14 DEF Touch
<1>17. Spared(p, out, c)
  BY <1>4, <1>14, <1>16 DEF Spared
<1>18. Overridden(p) => Overridden(out)
  BY <1>4, <1>15, <1>16 DEF Overridden
<1> QED
  BY <1>1, <1>12, <1>13, <1>15, <1>17, <1>18 DEF s

LEMMA RxRadioRegs ==
  ASSUME NEW p, Cells(p), NEW c \in Cores
  PROVE  /\ Touch(p, RxcalRadioSetup(p, c), {"PWRUP", "ATTEN"}, {"rad"})
         /\ RxcalRadioSetup(p, c).rad = Saved(p.rad, p.cell, RxRadioLayout(c))
         /\ \A d \in Cores \ {c}, k \in {"PWRUP", "ATTEN"} :
              RxcalRadioSetup(p, c).cell[k][d] = p.cell[k][d]
<1> DEFINE x == {"rx"}
           s == Saved(p.rad, p.cell, RxRadioLayout(c))
           z == [p.cell EXCEPT !.PWRUP[c] = x, !.ATTEN[c] = x]
           wr == Writes(p, z)
           out == [wr EXCEPT !.rad = s]
<1>1. RxcalRadioSetup(p, c) = out
  <2> DEFINE on == [p EXCEPT !.cell.PWRUP[c] = x, !.cell.ATTEN[c] = x]
  <2>1. RxcalRadioSetup(p, c) = [p EXCEPT !.cell.PWRUP[c] = x, !.cell.ATTEN[c] = x, !.rad = s]
    BY Zenon DEF RxcalRadioSetup
  <2> HIDE DEF x, s
  <2>2. [p EXCEPT !.cell.PWRUP[c] = x, !.cell.ATTEN[c] = x, !.rad = s] = [on EXCEPT !.rad = s]
    BY Zenon
  <2>3. on = wr
    BY Zenon DEF Writes
  <2> HIDE DEF on, wr
  <2> QED
    BY <2>1, <2>2, <2>3
<1>2. DOMAIN s = 1..2
  BY DEF Saved, Cells
<1> HIDE DEF x, s
<1>3. /\ DOMAIN z = Kinds /\ \A k \in Kinds \ {"PWRUP", "ATTEN"} : z[k] = p.cell[k]
      /\ z.PWRUP = [p.cell.PWRUP EXCEPT ![c] = x] /\ z.ATTEN = [p.cell.ATTEN EXCEPT ![c] = x]
  BY DEF Cells, Kinds
<1> HIDE DEF z
<1>4. /\ DOMAIN p.cell.PWRUP = Cores /\ DOMAIN p.cell.ATTEN = Cores
      /\ {"PWRUP", "ATTEN"} \subseteq Kinds
  BY DEF Cells, Kinds
<1>5. \A k \in Kinds : DOMAIN z[k] = Cores
  BY <1>3, <1>4 DEF Cells
<1>6. \A d \in Cores \ {c} : z.PWRUP[d] = p.cell.PWRUP[d] /\ z.ATTEN[d] = p.cell.ATTEN[d]
  BY <1>3, <1>4
<1>7. Touch(p, wr, {"PWRUP", "ATTEN"}, {}) /\ wr.cell = z
  BY <1>3, <1>5, TouchCells
<1> HIDE DEF wr
<1>8. Cells(wr)
  BY <1>7 DEF Touch
<1>9. Touch(wr, out, {}, {"rad"}) /\ out.rad = s
  BY <1>2, <1>8, TouchField DEF Noted
<1> HIDE DEF out
<1>10. Touch(p, out, {"PWRUP", "ATTEN"}, {"rad"})
  <2>1. Touch(p, wr, {"PWRUP", "ATTEN"}, {"rad"}) /\ Touch(wr, out, {"PWRUP", "ATTEN"}, {"rad"})
    BY <1>7, <1>9, TouchMore
  <2> QED
    BY <2>1, TouchThen
<1>11. \A d \in Cores \ {c}, k \in {"PWRUP", "ATTEN"} : out.cell[k][d] = p.cell[k][d]
  BY <1>4, <1>6, <1>7, <1>8, <1>9 DEF Touch
<1> QED
  BY <1>1, <1>9, <1>10, <1>11 DEF s

(* The tones of a pass of the receiver's calibration.                      *)
LEMMA RxTunedRegs ==
  ASSUME NEW p, Good(p), Cells(p), Overridden(p), Filtered(p), p.lpf = FALSE, p.rev \in Int,
         p.power.ctrl = FALSE, NEW c \in Cores, NEW memory
  PROVE  Touch(p, StopPlayback(Tone(GainCtrl(p, c, memory), memory)), Overs, {})
<1> DEFINE gain == OneToMany(p, "RX_GAIN", Cores, FALSE)
           put == TxpwrIndex(gain, c, Ladder)
           ctrl == StopPlayback(Tone(put, memory))
           out == StopPlayback(Tone(ctrl, memory))
<1>1. GainCtrl(p, c, memory) = ctrl
  BY Zenon DEF GainCtrl
<1>2. "RX_GAIN" \in DOMAIN Many /\ Overs \subseteq Overs
  BY DEF Many
<1>3. Touch(p, gain, Overs, {})
  BY <1>2, TouchItself, OverTouch
<1>4. Filtered(gain)
  BY <1>2, FilterStays
<1>5. Within(p, gain, Regs)
  BY WithinItself, ManyToo
<1> HIDE DEF gain
<1>6. Good(gain) /\ gain.power.ctrl = FALSE /\ Cells(gain)
  BY <1>3, <1>5 DEF Touch, Within, Regs, PhyFields, Levelling
<1>7. Overridden(gain) /\ gain.lpf = FALSE /\ gain.rev \in Int
  <2>1. {"AFEOVER", "PAPD_EN"} \subseteq Kinds \ Overs /\ {"ipa", "lpf", "rev"} \subseteq Noted \ {}
    BY DEF Kinds, Overs, Noted
  <2> QED
    BY <1>3, <2>1 DEF Overridden, Touch
<1>8. Touch(gain, put, {}, {})
  BY <1>6, <1>7, IndexTouch
<1> HIDE DEF put
<1>9. ASSUME NEW q, Cells(q), Filtered(q), q.lpf = FALSE, q.rev \in Int
      PROVE  LET r == StopPlayback(Tone(q, memory))
             IN Touch(q, r, {}, {}) /\ Cells(r) /\ Filtered(r) /\ r.lpf = FALSE /\ r.rev \in Int
  <2> DEFINE t == Tone(q, memory)
             r == StopPlayback(t)
  <2>1. Touch(q, t, {}, {})
    BY <1>9, ToneTouch
  <2> HIDE DEF t
  <2>2. Cells(t) /\ t.lpf = FALSE
    BY <1>9, <2>1 DEF Touch, Noted
  <2>3. Touch(t, r, {}, {})
    BY <2>2, StopTouch
  <2> HIDE DEF r
  <2>4. Touch(q, r, {}, {})
    BY <2>1, <2>3, TouchThen
  <2>5. Cells(r) /\ Filtered(r) /\ r.lpf = FALSE /\ r.rev \in Int
    <3>1. "OVER1" \in Kinds /\ {"lpf", "rev"} \subseteq Noted
      BY DEF Kinds, Noted
    <3> QED
      BY <1>9, <2>4, <3>1 DEF Touch, Filtered
  <2> QED
    BY <2>4, <2>5 DEF r, t
<1>10. Cells(put) /\ Filtered(put) /\ put.lpf = FALSE /\ put.rev \in Int
  <2>1. "OVER1" \in Kinds /\ {"lpf", "rev"} \subseteq Noted
    BY DEF Kinds, Noted
  <2> QED
    BY <1>4, <1>6, <1>7, <1>8, <2>1 DEF Touch, Filtered
<1>11. Touch(put, ctrl, {}, {}) /\ Cells(ctrl) /\ Filtered(ctrl) /\ ctrl.lpf = FALSE
       /\ ctrl.rev \in Int
  BY <1>9, <1>10
<1> HIDE DEF ctrl
<1>12. Touch(ctrl, out, {}, {})
  BY <1>9, <1>11
<1> HIDE DEF out
<1>13. Touch(gain, out, {}, {})
  <2>1. Touch(gain, ctrl, {}, {})
    BY <1>8, <1>11, TouchThen
  <2> QED
    BY <1>12, <2>1, TouchThen
<1>14. Touch(p, out, Overs, {})
  BY <1>3, <1>13, TouchBetween
<1> QED
  BY <1>1, <1>14 DEF out

(* A pass of the receiver's calibration hands everything back but the      *)
(* bits of the switch.                                                     *)
LEMMA RxPassedRegs ==
  ASSUME NEW p, Good(p), Cells(p), Overridden(p), p.lpf = FALSE, p.rev \in Int,
         p.power.ctrl = FALSE, NEW c \in Cores, NEW memory
  PROVE  Touch(p, RxPassed(p, c, memory), {"R2FF"}, {"saved", "rad"})
<1> DEFINE ph == RxcalPhySetup(p, c)
           set == RxcalRadioSetup(ph, c)
           tuned == StopPlayback(Tone(GainCtrl(set, c, memory), memory))
           rlay == RxRadioLayout(c)
           play == RxLayout(c)
           radio == Writes(tuned, Restored(tuned.cell, tuned.rad, rlay))
           out == Writes(radio, Restored(radio.cell, radio.saved, play))
           pw == {"PWRUP", "ATTEN"}
           K == RxTaken \union RxRf \union pw
           F == {"saved", "rad"}
<1>1. RxPassed(p, c, memory) = out
  <2>1. RxcalRadioCleanup(tuned, c) = radio
    BY Zenon DEF RxcalRadioCleanup, Writes
  <2>2. RxcalPhyCleanup(radio, c) = out
    BY Zenon DEF RxcalPhyCleanup, Writes
  <2>3. RxPassed(p, c, memory) = RxcalPhyCleanup(RxcalRadioCleanup(tuned, c), c)
    BY Zenon DEF RxPassed
  <2> HIDE DEF tuned, radio, out
  <2> QED
    BY <2>1, <2>2, <2>3
<1>2. /\ Touch(p, ph, RxTaken \union RxRf, {"saved"}) /\ ph.saved = Saved(p.saved, p.cell, play)
      /\ Spared(p, ph, c) /\ Filtered(ph) /\ Overridden(ph)
  <2>1. Touch(p, ph, RxTaken \union RxRf, {"saved"})
    BY RxSetupRegs
  <2>2. ph.saved = Saved(p.saved, p.cell, play)
    BY RxSetupRegs
  <2>3. Spared(p, ph, c)
    BY RxSetupRegs
  <2>4. Filtered(ph)
    BY RxSetupRegs
  <2>5. Overridden(ph)
    BY RxSetupRegs
  <2> QED
    BY <2>1, <2>2, <2>3, <2>4, <2>5
<1>3. Within(p, ph, Regs)
  BY WithinItself, RxCalToo
<1>4. Within(p, set, Regs)
  BY WithinItself, RxCalToo
<1> HIDE DEF ph
<1>5. Cells(ph) /\ {} \subseteq {} /\ {"OVER1", "AFEOVER", "PAPD_EN"} \subseteq Kinds \ pw
      /\ {"ipa", "lpf", "rev", "saved"} \subseteq Noted \ {"rad"}
      /\ {"ipa", "lpf", "rev"} \subseteq Noted \ {"saved"}
  BY <1>2 DEF Touch, Kinds, Noted
<1>6. /\ Touch(ph, set, pw, {"rad"}) /\ set.rad = Saved(ph.rad, ph.cell, rlay)
      /\ \A d \in Cores \ {c}, k \in pw : set.cell[k][d] = ph.cell[k][d]
  <2>1. Touch(ph, set, pw, {"rad"})
    BY <1>5, RxRadioRegs
  <2>2. set.rad = Saved(ph.rad, ph.cell, rlay)
    BY <1>5, RxRadioRegs
  <2>3. \A d \in Cores \ {c}, k \in pw : set.cell[k][d] = ph.cell[k][d]
    BY <1>5, RxRadioRegs
  <2> QED
    BY <2>1, <2>2, <2>3
<1> HIDE DEF set, rlay, play
<1>7. /\ Good(set) /\ Cells(set) /\ Overridden(set) /\ Filtered(set) /\ set.lpf = FALSE
      /\ set.rev \in Int /\ set.power.ctrl = FALSE /\ set.saved = ph.saved
  <2>1. Good(set) /\ set.power = p.power
    BY <1>4 DEF Within, Regs, PhyFields, Levelling
  <2>2. /\ Cells(set) /\ Overridden(set) /\ Filtered(set)
    BY <1>2, <1>5, <1>6 DEF Touch, Overridden, Filtered
  <2>3. set.lpf = p.lpf /\ set.rev = p.rev /\ set.saved = ph.saved
    BY <1>2, <1>5, <1>6 DEF Touch
  <2> QED
    BY <2>1, <2>2, <2>3
<1>8. Touch(set, tuned, Overs, {})
  BY <1>7, RxTunedRegs
<1> HIDE DEF tuned
<1>9. /\ Cells(tuned) /\ tuned.rad = set.rad /\ tuned.saved = ph.saved
  BY <1>7, <1>8 DEF Touch, Noted
<1>10. /\ Places(rlay) = {<<"PWRUP", c>>, <<"ATTEN", c>>} /\ DOMAIN rlay \subseteq DOMAIN ph.rad
       /\ DOMAIN play \subseteq DOMAIN p.saved
  BY <1>5, RxPlaces DEF rlay, play, Cells
<1>11. Touch(tuned, radio, pw, {}) /\ BackFrom(radio.cell, tuned.cell, ph.cell, Places(rlay))
  <2> DEFINE area == ph.rad
             was == ph.cell
  <2>1. tuned.rad = Saved(area, was, rlay) /\ DOMAIN rlay \subseteq DOMAIN area
    BY <1>6, <1>9, <1>10
  <2>2. \A k \in Kinds \ pw, d \in Cores : <<k, d>> \notin Places(rlay)
    BY <1>10
  <2> HIDE DEF area, was, pw
  <2>3. Touch(tuned, radio, pw, {})
    BY <1>9, <2>1, <2>2, RestoreSets
  <2>4. BackFrom(radio.cell, tuned.cell, was, Places(rlay))
    BY <1>9, <2>1, <2>2, RestoreSets
  <2> QED
    BY <2>3, <2>4 DEF was
<1> HIDE DEF radio
<1>12. Cells(radio) /\ radio.saved = ph.saved
  BY <1>9, <1>11 DEF Touch, Noted
<1>13. Touch(radio, out, Kinds, {}) /\ BackFrom(out.cell, radio.cell, p.cell, Places(play))
  <2> DEFINE area == p.saved
             was == p.cell
  <2>1. radio.saved = Saved(area, was, play) /\ DOMAIN play \subseteq DOMAIN area
    BY <1>2, <1>10, <1>12
  <2>2. \A k \in Kinds \ Kinds, d \in Cores : <<k, d>> \notin Places(play)
    OBVIOUS
  <2> HIDE DEF area, was
  <2>3. Touch(radio, out, Kinds, {})
    BY <1>12, <2>1, <2>2, RestoreSets
  <2>4. BackFrom(out.cell, radio.cell, was, Places(play))
    BY <1>12, <2>1, <2>2, RestoreSets
  <2> QED
    BY <2>3, <2>4 DEF was
<1> HIDE DEF out
<1>14. Places(play) =
              {<<"RFSEQCA", 0>>, <<"AFECTL", c>>, <<"AFEOVER", c>>, <<"INTC", 0>>, <<"INTC", 1>>,
               <<"RSSIO", 0>>, <<"RSSIO", 1>>, <<"OVER0", 0>>, <<"OVER0", 1>>, <<"PAPD_EN", 0>>,
               <<"PAPD_EN", 1>>, <<"OVER1", 0>>, <<"OVER1", 1>>, <<"OVER2", 0>>, <<"OVER2", 1>>}
  BY RxPlaces DEF play
<1>15. ASSUME NEW k \in Kinds, NEW d \in Cores, <<k, d>> \in Places(play)
       PROVE  out.cell[k][d] = p.cell[k][d]
  BY <1>13, <1>15 DEF BackFrom
<1>16. ASSUME NEW k \in Kinds, NEW d \in Cores, <<k, d>> \notin Places(play), k # "R2FF"
       PROVE  out.cell[k][d] = p.cell[k][d]
  <2>1. out.cell[k][d] = radio.cell[k][d]
    BY <1>13, <1>16 DEF BackFrom
  <2>2. k \notin RxRf /\ k # "PAPD_EN"
    BY <1>14, <1>16 DEF RxRf, Overs, Cores
  <2>3. tuned.cell[k][d] = set.cell[k][d]
    BY <1>7, <1>8, <2>2 DEF Touch, RxRf
  <2>4. ph.cell[k][d] = p.cell[k][d]
    <3>1. CASE k \notin RxTaken
      BY <1>2, <2>2, <3>1 DEF Touch
    <3>2. CASE k \in RxTaken
      <4>1. (k = "RFSEQCA" /\ d = 1) \/ (k \in {"AFECTL", "AFEOVER"} /\ d \in Cores \ {c})
        BY <1>14, <1>16, <2>2, <3>2 DEF RxTaken, Cores
      <4> QED
        BY <1>2, <4>1 DEF Spared
    <3> QED
      BY <3>1, <3>2
  <2>5. CASE k \notin pw
    <3>1. radio.cell[k][d] = tuned.cell[k][d]
      BY <1>9, <1>11, <2>5 DEF Touch
    <3>2. set.cell[k][d] = ph.cell[k][d]
      BY <1>5, <1>6, <2>5 DEF Touch
    <3> QED
      BY <2>1, <2>3, <2>4, <3>1, <3>2
  <2>6. CASE k \in pw /\ d = c
    <3>1. <<k, d>> \in Places(rlay)
      BY <1>10, <2>6
    <3>2. radio.cell[k][d] = ph.cell[k][d]
      BY <1>11, <3>1 DEF BackFrom
    <3> QED
      BY <2>1, <2>4, <3>2
  <2>7. CASE k \in pw /\ d # c
    <3>1. <<k, d>> \notin Places(rlay)
      BY <1>10, <2>7
    <3>2. radio.cell[k][d] = tuned.cell[k][d]
      BY <1>11, <3>1 DEF BackFrom
    <3>3. set.cell[k][d] = ph.cell[k][d]
      BY <1>6, <2>7
    <3> QED
      BY <2>1, <2>3, <2>4, <3>2, <3>3
  <2> QED
    BY <2>5, <2>6, <2>7
<1>17. Cells(out)
  BY <1>12, <1>13 DEF Touch
<1>18. \A f \in Noted \ F : out[f] = p[f]
  <2>1. ASSUME NEW f \in Noted \ F PROVE out[f] = p[f]
    <3>1. f \in Noted \ {"saved"} /\ f \in Noted \ {"rad"} /\ f \in Noted \ {}
      OBVIOUS
    <3>2. out[f] = radio[f] /\ radio[f] = tuned[f]
      BY <1>9, <1>11, <1>12, <1>13, <3>1 DEF Touch
    <3>3. tuned[f] = set[f] /\ set[f] = ph[f]
      BY <1>5, <1>6, <1>7, <1>8, <3>1 DEF Touch
    <3>4. ph[f] = p[f]
      BY <1>2, <3>1 DEF Touch
    <3> QED
      BY <3>2, <3>3, <3>4
  <2> QED
    BY <2>1
<1>19. \A k \in Kinds \ {"R2FF"}, d \in Cores : out.cell[k][d] = p.cell[k][d]
  BY <1>15, <1>16
<1> QED
  BY <1>1, <1>17, <1>18, <1>19 DEF Touch

(***************************************************************************)
(* The registers between the steps.                                        *)
(***************************************************************************)
(* What a step may leave otherwise than it found it.                       *)
Loose == {"R2FF", "BBCFG", "PWRUP"}
Lost == {"saved", "rad", "intc", "rssi", "rssical"}

LEMMA RestIdle ==
  ASSUME NEW p, NEW q, NEW on, NEW engine, Rest(p, on, engine),
         Touch(p, q, Loose \union {"TSSI"}, Lost),
         \A c \in Cores : q.cell.TSSI[c] \subseteq {"idle", "mux"}
  PROVE  Rest(q, on, engine)
<1> DEFINE K == Loose \union {"TSSI"}
<1>1. Clear \union {"AFEOVER", "PAPD_EN"} \subseteq Kinds \ K
  BY DEF Clear, Kinds, Loose
<1>2. {"lpf", "ipa"} \subseteq Noted \ Lost
  BY DEF Noted, Lost
<1>3. Cells(p)
  BY DEF Rest
<1> HIDE DEF K
<1>4. /\ Cells(q) /\ \A k \in Kinds \ K : \A c \in Cores : q.cell[k][c] = p.cell[k][c]
      /\ \A f \in Noted \ Lost : q[f] = p[f]
  BY <1>3 DEF Touch, K
<1>5. q.lpf = p.lpf /\ q.ipa = p.ipa
  BY <1>2, <1>4
<1>6. ASSUME NEW c \in Cores
      PROVE  /\ \A k \in Clear : q.cell[k][c] = p.cell[k][c]
             /\ q.cell.AFEOVER[c] = p.cell.AFEOVER[c]
             /\ q.cell.PAPD_EN[c] = p.cell.PAPD_EN[c]
  BY <1>1, <1>4
<1> QED
  BY <1>4, <1>5, <1>6 DEF Rest

LEMMA RestKept ==
  ASSUME NEW p, NEW q, NEW on, NEW engine, Rest(p, on, engine), Touch(p, q, Loose, Lost)
  PROVE  Rest(q, on, engine)
<1>1. Touch(p, q, Loose \union {"TSSI"}, Lost)
  BY TouchMore
<1>2. "TSSI" \in Kinds \ Loose
  BY DEF Kinds, Loose
<1>3. \A c \in Cores : q.cell.TSSI[c] = p.cell.TSSI[c]
  BY <1>2 DEF Touch, Rest
<1>4. \A c \in Cores : q.cell.TSSI[c] \subseteq {"idle", "mux"}
  BY <1>3 DEF Rest
<1> QED
  BY <1>1, <1>4, RestIdle

(* One core's engine is on and the other's off.                            *)
LEMMA RestEngaged ==
  ASSUME NEW p, NEW q, NEW on, NEW engine, Rest(p, on, engine), NEW c \in Cores,
         Touch(p, q, {"PWRUP", "PAPD_EN"}, {}), Engaged(p, q, c)
  PROVE  Rest(q, on, {c})
<1> DEFINE K == {"PWRUP", "PAPD_EN"}
<1>1. Clear \union {"AFEOVER", "TSSI"} \subseteq Kinds \ K
  BY DEF Clear, Kinds
<1>2. {"lpf", "ipa"} \subseteq Noted
  BY DEF Noted
<1>3. Cells(p)
  BY DEF Rest
<1> HIDE DEF K
<1>4. /\ Cells(q) /\ \A k \in Kinds \ K : \A d \in Cores : q.cell[k][d] = p.cell[k][d]
      /\ \A f \in Noted : q[f] = p[f]
  BY <1>3 DEF Touch, K
<1>5. q.lpf = p.lpf /\ q.ipa = p.ipa
  BY <1>2, <1>4
<1>6. ASSUME NEW d \in Cores
      PROVE  /\ \A k \in Clear : q.cell[k][d] = p.cell[k][d]
             /\ q.cell.AFEOVER[d] = p.cell.AFEOVER[d]
             /\ q.cell.TSSI[d] = p.cell.TSSI[d]
  BY <1>1, <1>4
<1>7. ASSUME NEW d \in Cores
      PROVE  q.cell.PAPD_EN[d] = (IF d \in {c} THEN {"on"} ELSE {}) \union
                                 (IF p.ipa /\ ~on THEN {"ext"} ELSE {})
  <2> DEFINE ext == IF p.ipa /\ ~on THEN {"ext"} ELSE {}
             own == IF d \in engine THEN {"on"} ELSE {}
  <2>1. p.cell.PAPD_EN[d] = own \union ext
    BY DEF Rest
  <2>2. ext \ {"on"} = ext /\ own \union {"on"} = {"on"} /\ own \ {"on"} = {}
    OBVIOUS
  <2>3. q.cell.PAPD_EN[d] = IF d = c THEN p.cell.PAPD_EN[d] \union {"on"}
                            ELSE p.cell.PAPD_EN[d] \ {"on"}
    BY DEF Engaged
  <2> HIDE DEF ext, own
  <2>4. q.cell.PAPD_EN[d] = IF d = c THEN {"on"} \union ext ELSE ext
    BY <2>1, <2>2, <2>3
  <2> QED
    BY <2>4 DEF ext
<1> QED
  BY <1>4, <1>5, <1>6, <1>7 DEF Rest

(* What the lemmas of the steps ask for.                                   *)
LEMMA RestGives ==
  ASSUME NEW p, NEW engine, Rest(p, FALSE, engine)
  PROVE  Overridden(p) /\ OverIn(p, {}, {}, {}) /\ Cells(p) /\ p.lpf = FALSE
<1>1. Overridden(p)
  <2>1. \A c \in Cores : p.cell.AFEOVER[c] = {"dac"}
    BY DEF Rest
  <2>2. \A c \in Cores : p.ipa => "ext" \in p.cell.PAPD_EN[c]
    BY DEF Rest
  <2> QED
    BY <2>1, <2>2 DEF Overridden
<1>2. {"OVER0", "OVER1", "OVER2"} \subseteq Clear
  BY DEF Clear
<1>3. \A c \in Cores : p.cell.OVER0[c] = {} /\ p.cell.OVER1[c] = {} /\ p.cell.OVER2[c] = {}
  BY <1>2 DEF Rest
<1> QED
  BY <1>1, <1>3 DEF OverIn, Rest

(* The control off again, and on.                                          *)
LEMMA RestCtrl ==
  ASSUME NEW p, NEW on, NEW engine, Rest(p, on, engine)
  PROVE  /\ on \in BOOLEAN => Rest(TxPowerCtrl(p, TRUE), TRUE, engine)
         /\ on = FALSE => Rest(TxPowerCtrl(p, FALSE), FALSE, engine)
<1> DEFINE t == TxPowerCtrl(p, TRUE)
           f == TxPowerCtrl(p, FALSE)
           K == {"AFEOVER", "PAPD_EN"}
<1>1. Cells(p)
  BY DEF Rest
<1>2. Touch(p, t, {"AFEOVER", "PAPD_EN"}, {}) /\ Touch(p, f, {"AFEOVER"}, {})
  BY <1>1, TxPowerCtrlRegs
<1>3. \A c \in Cores :
        /\ f.cell.AFEOVER[c] = p.cell.AFEOVER[c] \union {"dac"}
        /\ t.cell.AFEOVER[c] = p.cell.AFEOVER[c] \ {"dac"}
        /\ t.cell.PAPD_EN[c] = IF p.ipa THEN p.cell.PAPD_EN[c] \ {"ext"}
                               ELSE p.cell.PAPD_EN[c]
  BY <1>1, TxPowerCtrlRegs
<1> HIDE DEF t, f
<1>4. ASSUME on = FALSE PROVE Rest(f, FALSE, engine)
  <2>1. \A c \in Cores : f.cell.AFEOVER[c] = p.cell.AFEOVER[c]
    BY <1>3, <1>4 DEF Rest
  <2>2. Touch(p, f, {}, {})
    BY <1>2, <2>1 DEF Touch
  <2>3. Touch(p, f, Loose, Lost)
    BY <2>2, TouchMore
  <2> QED
    BY <1>4, <2>3, RestKept
<1>5. ASSUME on \in BOOLEAN PROVE Rest(t, TRUE, engine)
  <2>1. Clear \union {"TSSI"} \subseteq Kinds \ K /\ {"lpf", "ipa"} \subseteq Noted
    BY DEF Clear, Kinds, Noted
  <2>2. /\ Cells(t) /\ \A k \in Kinds \ K : \A c \in Cores : t.cell[k][c] = p.cell[k][c]
        /\ \A x \in Noted : t[x] = p[x]
    BY <1>1, <1>2 DEF Touch
  <2> HIDE DEF K
  <2>3. t.lpf = p.lpf /\ t.ipa = p.ipa
    BY <2>1, <2>2
  <2>4. ASSUME NEW c \in Cores
        PROVE  /\ \A k \in Clear : t.cell[k][c] = p.cell[k][c]
               /\ t.cell.TSSI[c] = p.cell.TSSI[c]
    BY <2>1, <2>2
  <2>5. ASSUME NEW c \in Cores PROVE t.cell.AFEOVER[c] = {}
    <3>1. p.cell.AFEOVER[c] \subseteq {"dac"}
      BY <1>5 DEF Rest
    <3> QED
      BY <1>3, <3>1
  <2>6. ASSUME NEW c \in Cores
        PROVE  t.cell.PAPD_EN[c] = IF c \in engine THEN {"on"} ELSE {}
    <3> DEFINE own == IF c \in engine THEN {"on"} ELSE {}
               ext == IF p.ipa /\ ~on THEN {"ext"} ELSE {}
    <3>1. p.cell.PAPD_EN[c] = own \union ext
      BY DEF Rest
    <3>2. own \ {"ext"} = own /\ ext \ {"ext"} = {} /\ (~p.ipa => ext = {})
      OBVIOUS
    <3> HIDE DEF own, ext
    <3>3. t.cell.PAPD_EN[c] = own
      BY <1>3, <3>1, <3>2
    <3> QED
      BY <3>3 DEF own
  <2> QED
    BY <2>2, <2>3, <2>4, <2>5, <2>6 DEF Rest
<1> QED
  BY <1>4, <1>5 DEF t, f

(* The same of an index that is forced from outside.                       *)
LEMMA IndexPut ==
  ASSUME NEW p, Cells(p), \A d \in Cores : "dac" \in p.cell.AFEOVER[d],
         Good(p), p.power.ctrl = FALSE, NEW c \in Cores, NEW i
  PROVE  /\ Touch(p, TxpwrIndex(p, c, i), {"PAPD_EN"}, {})
         /\ Offset(p, TxpwrIndex(p, c, i), c)
<1> DEFINE h == Hold(p)
           f == ForceIndex(h, c, i)
<1>1. Touch(p, h, {}, {}) /\ h.power = p.power
  BY BracketTouch, BracketValues DEF PhyFields, Levelling
<1> HIDE DEF h
<1>2. /\ Cells(h) /\ h.ipa = p.ipa
      /\ \A d \in Cores : h.cell.AFEOVER[d] = p.cell.AFEOVER[d]
                          /\ h.cell.PAPD_EN[d] = p.cell.PAPD_EN[d]
  BY <1>1 DEF Touch, Kinds, Noted
<1>3. Touch(h, f, {"PAPD_EN"}, {}) /\ Offset(h, f, c)
  <2>1. h.power.ctrl = FALSE /\ \A d \in Cores : "dac" \in h.cell.AFEOVER[d]
    BY <1>1, <1>2
  <2> QED
    BY <1>2, <2>1, ForcePut
<1> HIDE DEF f
<1>4. Touch(f, Release(f), {}, {}) /\ TxpwrIndex(p, c, i) = Release(f)
  BY BracketTouch DEF TxpwrIndex, h, f
<1>5. Touch(p, Release(f), {"PAPD_EN"}, {})
  <2>1. Touch(p, f, {"PAPD_EN"}, {})
    BY <1>1, <1>3, TouchBetween
  <2> QED
    BY <1>4, <2>1, TouchBetween
<1>6. \A d \in Cores : Release(f).cell.PAPD_EN[d] = f.cell.PAPD_EN[d]
  <2>1. Cells(f)
    BY <1>2, <1>3 DEF Touch
  <2> QED
    BY <1>4, <2>1 DEF Touch, Kinds
<1>7. Offset(p, Release(f), c)
  BY <1>2, <1>3, <1>6 DEF Offset
<1> QED
  BY <1>4, <1>5, <1>7

(* The control off and both chains forced on an index: all is overridden.   *)
LEMMA RestOff ==
  ASSUME NEW p, NEW q, NEW on \in BOOLEAN, NEW engine, Rest(p, on, engine),
         Touch(p, q, {"AFEOVER", "PAPD_EN"}, {}),
         \A c \in Cores : /\ q.cell.AFEOVER[c] = p.cell.AFEOVER[c] \union {"dac"}
                          /\ q.cell.PAPD_EN[c] = p.cell.PAPD_EN[c] \union IF p.ipa THEN {"ext"} ELSE {}
  PROVE  Rest(q, FALSE, engine)
<1> DEFINE K == {"AFEOVER", "PAPD_EN"}
<1>1. Clear \union {"TSSI"} \subseteq Kinds \ K /\ {"lpf", "ipa"} \subseteq Noted
  BY DEF Clear, Kinds, Noted
<1>2. Cells(p)
  BY DEF Rest
<1>3. /\ Cells(q) /\ \A k \in Kinds \ K : \A c \in Cores : q.cell[k][c] = p.cell[k][c]
      /\ \A x \in Noted : q[x] = p[x]
  BY <1>2 DEF Touch
<1> HIDE DEF K
<1>4. q.lpf = p.lpf /\ q.ipa = p.ipa
  BY <1>1, <1>3
<1>5. ASSUME NEW c \in Cores
      PROVE  /\ \A k \in Clear : q.cell[k][c] = p.cell[k][c]
             /\ q.cell.TSSI[c] = p.cell.TSSI[c]
  BY <1>1, <1>3
<1>6. ASSUME NEW c \in Cores PROVE q.cell.AFEOVER[c] = {"dac"}
  <2>1. p.cell.AFEOVER[c] \subseteq {"dac"}
    BY DEF Rest
  <2> QED
    BY <2>1
<1>7. ASSUME NEW c \in Cores
      PROVE  q.cell.PAPD_EN[c] = (IF c \in engine THEN {"on"} ELSE {}) \union
                                 (IF p.ipa THEN {"ext"} ELSE {})
  <2> DEFINE own == IF c \in engine THEN {"on"} ELSE {}
             ext == IF p.ipa THEN {"ext"} ELSE {}
             some == IF p.ipa /\ ~on THEN {"ext"} ELSE {}
  <2>1. p.cell.PAPD_EN[c] = own \union some /\ q.cell.PAPD_EN[c] = p.cell.PAPD_EN[c] \union ext
    BY DEF Rest
  <2>2. some \subseteq ext
    OBVIOUS
  <2> HIDE DEF own, ext, some
  <2>3. q.cell.PAPD_EN[c] = own \union ext
    BY <2>1, <2>2
  <2> QED
    BY <2>3 DEF own, ext
<1> QED
  BY <1>3, <1>4, <1>5, <1>6, <1>7 DEF Rest

(* Both chains are forced on an index while the control is off.            *)
LEMMA BothTouch ==
  ASSUME NEW p, Good(p), Typed(p), Off(p.power), Cells(p),
         NEW i \in Indices, NEW j \in Indices
  PROVE  LET r == TxpwrIndex(TxpwrIndex(p, 0, i), 1, j)
         IN  /\ Overridden(p) => Touch(p, r, {}, {})
             /\ (\A c \in Cores : "dac" \in p.cell.AFEOVER[c]) =>
                  /\ Touch(p, r, {"PAPD_EN"}, {})
                  /\ \A c \in Cores : r.cell.PAPD_EN[c] =
                                        p.cell.PAPD_EN[c] \union IF p.ipa THEN {"ext"} ELSE {}
<1> DEFINE q == TxpwrIndex(p, 0, i)
           r == TxpwrIndex(q, 1, j)
<1>0. 0 \in Cores /\ 1 \in Cores
  BY DEF Cores
<1>1. Good(q) /\ Off(q.power) /\ p.power.ctrl = FALSE /\ q.power.ctrl = FALSE
  BY <1>0, OneIndex DEF Off
<1>2. ASSUME Overridden(p) PROVE Touch(p, r, {}, {})
  <2>1. Touch(p, q, {}, {}) /\ Overridden(q)
    BY <1>0, <1>1, <1>2, IndexTouch
  <2> HIDE DEF q
  <2>2. Cells(q)
    BY <2>1 DEF Touch
  <2>3. Touch(q, r, {}, {})
    BY <1>0, <1>1, <2>1, <2>2, IndexTouch
  <2> QED
    BY <2>1, <2>3, TouchThen
<1>3. ASSUME \A c \in Cores : "dac" \in p.cell.AFEOVER[c]
      PROVE  /\ Touch(p, r, {"PAPD_EN"}, {})
             /\ \A c \in Cores : r.cell.PAPD_EN[c] =
                                   p.cell.PAPD_EN[c] \union IF p.ipa THEN {"ext"} ELSE {}
  <2>1. Touch(p, q, {"PAPD_EN"}, {}) /\ Offset(p, q, 0)
    BY <1>0, <1>1, <1>3, IndexPut
  <2> HIDE DEF q
  <2>2. Cells(q) /\ q.ipa = p.ipa
    BY <2>1 DEF Touch, Noted
  <2>3. \A c \in Cores : "dac" \in q.cell.AFEOVER[c]
    BY <1>3, <2>1 DEF Touch, Kinds
  <2>4. Touch(q, r, {"PAPD_EN"}, {}) /\ Offset(q, r, 1)
    BY <1>0, <1>1, <2>2, <2>3, IndexPut
  <2> HIDE DEF r
  <2>5. Touch(p, r, {"PAPD_EN"}, {})
    BY <2>1, <2>4, TouchThen
  <2>6. ASSUME NEW c \in Cores
        PROVE  r.cell.PAPD_EN[c] = p.cell.PAPD_EN[c] \union IF p.ipa THEN {"ext"} ELSE {}
    BY <2>1, <2>2, <2>4 DEF Offset, Cores
  <2> QED
    BY <2>5, <2>6
<1> QED
  BY <1>2, <1>3

(* The registers when a step begins.                                       *)
LEMMA RegsNow ==
  ASSUME CalInv, RegsInv, pc # "down"
  PROVE  /\ Cells(phy) /\ phy.lpf = FALSE /\ phy.rev \in Int
         /\ phy.rssi = phy.rssical /\ phy.ipa = board.ipa
         /\ pc \in Sequence =>
              Rest(phy, FALSE, Engines) /\ Overridden(phy) /\ OverIn(phy, {}, {}, {})
         /\ pc \notin Sequence => Rest(phy, TRUE, Engines)
         /\ pc \in {"papd_0", "papd_1", "papd_out"} => board.ipa
<1>1. Rest(phy, phy.power.ctrl, Engines) /\ phy.rssi = phy.rssical /\ phy.ipa = board.ipa
      /\ (pc \in {"papd_0", "papd_1", "papd_out"} => board.ipa)
  BY DEF RegsInv
<1>2. /\ pc \in Sequence => phy.power.ctrl = FALSE
      /\ pc \notin Sequence => phy.power.ctrl = TRUE
  BY DEF CalInv, Remembered
<1>3. Cells(phy) /\ phy.lpf = FALSE
  BY <1>1 DEF Rest
<1>4. phy.rev \in Int
  <2>1. phy.rev = board.rev /\ board.rev \in Revs
    BY DEF CalInv, Shape
  <2>2. phy.rev \in {4, 8}
    BY <2>1, RevsAssumption
  <2> QED
    BY <2>2
<1>5. /\ pc \in Sequence => Rest(phy, FALSE, Engines)
      /\ pc \notin Sequence => Rest(phy, TRUE, Engines)
  BY <1>1, <1>2
<1>6. pc \in Sequence => Overridden(phy) /\ OverIn(phy, {}, {}, {})
  BY <1>5, RestGives
<1> QED
  BY <1>1, <1>3, <1>4, <1>5, <1>6

(* And when it ends.                                                       *)
LEMMA RegsThen ==
  ASSUME CalInv', UNCHANGED board, pc' # "down",
         pc' \in Sequence => Rest(phy', FALSE, Engines'),
         pc' \notin Sequence => Rest(phy', TRUE, Engines'),
         phy'.rssi = phy'.rssical, phy'.ipa = board.ipa,
         pc' \in {"papd_0", "papd_1", "papd_out"} => board.ipa
  PROVE  RegsInv'
<1>1. /\ pc' \in Sequence => phy'.power.ctrl = FALSE
      /\ pc' \notin Sequence => phy'.power.ctrl = TRUE
  BY DEF CalInv, Remembered
<1>2. Rest(phy', phy'.power.ctrl, Engines')
  BY <1>1
<1> QED
  BY <1>2 DEF RegsInv

(* A step that leaves the control and the engine alone.                    *)
LEMMA RegsSame ==
  ASSUME CalInv, RegsInv, CalInv', UNCHANGED board, pc # "down", pc' # "down",
         pc \in Sequence <=> pc' \in Sequence, Engines' = Engines,
         Touch(phy, phy', Loose, Lost), phy'.rssi = phy'.rssical,
         pc' \in {"papd_0", "papd_1", "papd_out"} => board.ipa
  PROVE  RegsInv'
<1>1. /\ pc \in Sequence => Rest(phy, FALSE, Engines)
      /\ pc \notin Sequence => Rest(phy, TRUE, Engines)
      /\ Cells(phy) /\ phy.ipa = board.ipa
  BY RegsNow
<1>2. /\ pc' \in Sequence => Rest(phy', FALSE, Engines')
      /\ pc' \notin Sequence => Rest(phy', TRUE, Engines')
  BY <1>1, RestKept
<1>3. phy'.ipa = board.ipa
  BY <1>1 DEF Touch, Noted, Lost
<1> QED
  BY <1>2, <1>3, RegsThen

(* The steps in which a register is written and nothing else.               *)
LEMMA Refs ==
  ASSUME NEW p, NEW q, NEW kinds \in SUBSET Loose, Touch(p, q, kinds, {"saved", "rad"}), Cells(p),
         p.rssi = p.rssical
  PROVE  Touch(p, q, Loose, Lost) /\ q.rssi = q.rssical
<1>1. Touch(p, q, Loose, Lost)
  BY TouchMore DEF Lost
<1>2. {"rssi", "rssical"} \subseteq Noted \ {"saved", "rad"}
  BY DEF Noted
<1>3. q.rssi = p.rssi /\ q.rssical = p.rssical
  BY <1>2 DEF Touch
<1> QED
  BY <1>1, <1>3

LEMMA CalTxIqLoRegs ==
  ASSUME CalInv, RegsInv, CalInv', CalTxIqLo PROVE RegsInv'
<1>1. PICK memory \in BOOLEAN :
        /\ phy' = TxCalibrated(phy, memory, conf.channel)
        /\ pc' = IF memory THEN "papd_medium" ELSE "tail"
  BY DEF CalTxIqLo, TxCalibrated, AfterFailure
<1>2. pc = "tx_iq_lo" /\ Quiet
  BY DEF CalTxIqLo
<1>3. /\ pc \in Sequence /\ pc' \in Sequence /\ pc # "down" /\ pc' # "down"
      /\ pc' \notin {"papd_0", "papd_1", "papd_out"} /\ Engines' = Engines
  BY <1>1, <1>2 DEF Sequence, InSequence, Engines, Quiet
<1>4. Touch(phy, phy', {"R2FF", "BBCFG"}, {"saved", "rad"})
  BY <1>1, <1>3, RegsNow, TxCalRegs
<1>5. Touch(phy, phy', Loose, Lost) /\ phy'.rssi = phy'.rssical
  <2>1. {"R2FF", "BBCFG"} \in SUBSET Loose
    BY DEF Loose
  <2> QED
    BY <1>3, <1>4, <2>1, RegsNow, Refs
<1> QED
  BY <1>2, <1>3, <1>5, RegsSame DEF Quiet

LEMMA RxPassRegs ==
  ASSUME CalInv, RegsInv, CalInv', NEW c \in Cores, NEW from, NEW to, RxPass(c, from, to),
         \/ from = "rx_0" /\ to = "rx_1"
         \/ from = "rx_1" /\ to = "rx_out"
  PROVE  RegsInv'
<1>1. PICK memory \in BOOLEAN : phy' = RxPassed(phy, c, memory)
  BY Zenon DEF RxPass, RxPassed
<1>2. pc = from /\ pc' = to /\ Quiet
  BY DEF RxPass, Step
<1>3. /\ pc \in Sequence /\ pc' \in Sequence /\ pc # "down" /\ pc' # "down"
      /\ pc' \notin {"papd_0", "papd_1", "papd_out"} /\ Engines' = Engines
  BY <1>1, <1>2 DEF Sequence, InSequence, Engines, Quiet
<1>4. Touch(phy, phy', {"R2FF"}, {"saved", "rad"})
  <2>1. Good(phy) /\ phy.power.ctrl = FALSE
    BY <1>3, GoodPhy DEF Off
  <2> QED
    BY <1>1, <1>3, <2>1, RegsNow, RxPassedRegs
<1>5. Touch(phy, phy', Loose, Lost) /\ phy'.rssi = phy'.rssical
  <2>1. {"R2FF"} \in SUBSET Loose
    BY DEF Loose
  <2> QED
    BY <1>3, <1>4, <2>1, RegsNow, Refs
<1> QED
  BY <1>2, <1>3, <1>5, RegsSame DEF Quiet

LEMMA PapdPassRegs ==
  ASSUME CalInv, RegsInv, CalInv', NEW c \in Cores, NEW from, NEW to, PapdPass(c, from, to),
         \/ c = 0 /\ from = "papd_0" /\ to = "papd_1"
         \/ c = 1 /\ from = "papd_1" /\ to = "papd_out"
  PROVE  RegsInv'
<1>1. PICK memory \in BOOLEAN : phy' = PapdPassed(phy, c, memory, local.mult)
  BY Zenon DEF PapdPass, PapdPassed
<1>2. pc = from /\ pc' = to /\ Quiet
  BY DEF PapdPass, Step
<1>3. /\ pc \in Sequence /\ pc' \in Sequence /\ pc # "down" /\ pc' # "down"
      /\ pc \in {"papd_0", "papd_1", "papd_out"} /\ Engines' = {c}
  BY <1>1, <1>2 DEF Sequence, InSequence, Engines, Quiet
<1>4. /\ Rest(phy, FALSE, Engines) /\ OverIn(phy, {}, {}, {}) /\ Cells(phy)
      /\ phy.lpf = FALSE /\ phy.rev \in Int /\ phy.rssi = phy.rssical /\ phy.ipa = board.ipa
      /\ board.ipa
  BY <1>3, RegsNow
<1>5. Touch(phy, phy', {"PWRUP", "PAPD_EN"}, {}) /\ Engaged(phy, phy', c)
  BY <1>1, <1>4, PapdPassedRegs
<1>6. Rest(phy', FALSE, {c})
  BY <1>4, <1>5, RestEngaged
<1>7. phy'.rssi = phy'.rssical /\ phy'.ipa = board.ipa
  BY <1>4, <1>5 DEF Touch, Noted
<1> QED
  BY <1>2, <1>3, <1>4, <1>6, <1>7, RegsThen DEF Quiet

DacOn(p, q) == \A c \in Cores : q.cell.AFEOVER[c] = p.cell.AFEOVER[c] \union {"dac"}

LEMMA CtrlOff ==
  ASSUME NEW p, Cells(p)
  PROVE  Touch(p, TxPowerCtrl(p, FALSE), {"AFEOVER"}, {}) /\ DacOn(p, TxPowerCtrl(p, FALSE))
<1>1. /\ Touch(p, TxPowerCtrl(p, FALSE), {"AFEOVER"}, {})
      /\ \A c \in Cores : TxPowerCtrl(p, FALSE).cell.AFEOVER[c] = p.cell.AFEOVER[c] \union {"dac"}
  BY TxPowerCtrlRegs
<1> QED
  BY <1>1 DEF DacOn

(* The gains are read: the control goes off, and both chains are forced on  *)
(* an index and given back.                                                *)
LEMMA BegunRegs ==
  ASSUME NEW p, Good(p), Typed(p), PowerOk(p.power), p.power.ctrl = TRUE, p.power.on = TRUE,
         p.forced = Both(None), NEW engine, Rest(p, TRUE, engine)
  PROVE  /\ Touch(p, Begun(p), {"AFEOVER", "PAPD_EN"}, {})
         /\ Rest(Begun(p), FALSE, engine)
<1> DEFINE none == [p EXCEPT !.pending = FALSE]
           get == GetTxGains(none)
           off == TxPowerCtrl(get, FALSE)
           two == TxpwrIndex(TxpwrIndex(off, 0, Cal), 1, Cal)
           read == Tables(two)
           one == HandBackChain(read, 0)
           end == HandBackChain(one, 1)
<1>0. Begun(p) = end /\ 0 \in Cores /\ 1 \in Cores
  BY Zenon DEF Begun, Cores
<1>1. Within(p, none, {"pending"}) /\ Touch(p, none, {}, {})
  BY OneField, TouchAway DEF Good, PhyFields, Results, Noted
<1> HIDE DEF none
<1>2. Good(none) /\ Typed(none) /\ none.power = p.power /\ none.forced = p.forced
  BY <1>1 DEF Within, PhyFields, Levelling, Typed
<1>3. Within(none, get, {"atGain"}) /\ Touch(none, get, {}, {})
  BY <1>2, GetTxGainsSets, GainsTouch
<1> HIDE DEF get
<1>4. Good(get) /\ Typed(get) /\ get.power = p.power /\ get.forced = p.forced
  BY <1>2, <1>3 DEF Within, PhyFields, Levelling, Typed
<1>5. Touch(p, get, {}, {}) /\ Cells(get) /\ Cells(p)
  BY <1>1, <1>3, TouchThen DEF Touch, Rest
<1>6. /\ Touch(get, off, {"AFEOVER"}, {})
      /\ \A c \in Cores : off.cell.AFEOVER[c] = get.cell.AFEOVER[c] \union {"dac"}
  <2>1. Touch(get, off, {"AFEOVER"}, {}) /\ DacOn(get, off)
    BY <1>5, CtrlOff
  <2> HIDE DEF off
  <2> QED
    BY <2>1 DEF DacOn
<1>7. Within(get, off, Power) /\ off.power = Switched(get.power, FALSE)
  BY <1>4, TxPowerCtrlSets
<1> HIDE DEF off
<1>8. Good(off) /\ Typed(off) /\ off.forced = p.forced /\ Cells(off)
  BY <1>4, <1>5, <1>6, <1>7 DEF Within, Power, Regs, PhyFields, Levelling, Typed, Touch
<1>9. Off(off.power)
  <2> DEFINE switched == Switched(p.power, FALSE)
  <2>1. PowerOk(switched) /\ switched.ctrl = FALSE /\ switched.on = FALSE
    BY SwitchedOff
  <2>2. off.power = switched
    BY <1>4, <1>7
  <2> HIDE DEF switched
  <2> QED
    BY <2>1, <2>2 DEF Off
<1>10. /\ Good(two) /\ Typed(two) /\ Off(two.power)
       /\ two.forced = At(At(off.forced, 0, Cal), 1, Cal)
  <2>1. Cal \in Indices
    BY IndexTypes
  <2>2. Good(two) /\ Typed(two)
    BY <1>8, <1>9, <2>1, BothIndices
  <2>3. Off(two.power)
    BY <1>8, <1>9, <2>1, BothIndices
  <2>4. two.forced = At(At(off.forced, 0, Cal), 1, Cal)
    BY <1>8, <1>9, <2>1, BothIndices
  <2> QED
    BY <2>2, <2>3, <2>4
<1>11. /\ Touch(off, two, {"PAPD_EN"}, {})
       /\ \A c \in Cores : two.cell.PAPD_EN[c] =
                             off.cell.PAPD_EN[c] \union IF off.ipa THEN {"ext"} ELSE {}
  <2>1. \A c \in Cores : "dac" \in off.cell.AFEOVER[c]
    BY <1>6
  <2> QED
    BY <1>8, <1>9, <2>1, IndexTypes, BothTouch
<1> HIDE DEF two
<1>12. Touch(two, read, {}, {}) /\ Within(two, read, {})
  BY BracketTouch, WithinItself, TablesToo
<1> HIDE DEF read
<1>13. Good(read) /\ read.power = two.power /\ read.forced = two.forced
  BY <1>10, <1>12 DEF Within, PhyFields, Levelling
<1>14. Touch(get, read, {"AFEOVER", "PAPD_EN"}, {}) /\ Cells(read)
  <2>1. Touch(get, off, {"AFEOVER", "PAPD_EN"}, {}) /\ Touch(off, two, {"AFEOVER", "PAPD_EN"}, {})
    BY <1>6, <1>11, TouchMore
  <2>2. Touch(get, two, {"AFEOVER", "PAPD_EN"}, {})
    BY <2>1, TouchThen
  <2>3. Touch(get, read, {"AFEOVER", "PAPD_EN"}, {})
    BY <1>12, <2>2, TouchBetween
  <2> QED
    BY <1>5, <2>3 DEF Touch
<1>15. ASSUME NEW c \in Cores
       PROVE  /\ read.cell.AFEOVER[c] = p.cell.AFEOVER[c] \union {"dac"}
              /\ read.cell.PAPD_EN[c] = p.cell.PAPD_EN[c] \union IF p.ipa THEN {"ext"} ELSE {}
  <2>1. Cells(two)
    BY <1>8, <1>11 DEF Touch
  <2>2. /\ get.cell.AFEOVER[c] = p.cell.AFEOVER[c] /\ get.cell.PAPD_EN[c] = p.cell.PAPD_EN[c]
        /\ get.ipa = p.ipa
    BY <1>5 DEF Touch, Kinds, Noted
  <2>3. off.cell.PAPD_EN[c] = get.cell.PAPD_EN[c] /\ off.ipa = get.ipa
    BY <1>5, <1>6 DEF Touch, Kinds, Noted
  <2>4. two.cell.AFEOVER[c] = off.cell.AFEOVER[c]
    BY <1>8, <1>11 DEF Touch, Kinds
  <2>5. read.cell.AFEOVER[c] = two.cell.AFEOVER[c] /\ read.cell.PAPD_EN[c] = two.cell.PAPD_EN[c]
    BY <1>12, <2>1 DEF Touch, Kinds
  <2>6. read.cell.AFEOVER[c] = p.cell.AFEOVER[c] \union {"dac"}
    BY <1>6, <2>2, <2>4, <2>5
  <2>7. two.cell.PAPD_EN[c] = off.cell.PAPD_EN[c] \union IF off.ipa THEN {"ext"} ELSE {}
    BY <1>11
  <2>8. read.cell.PAPD_EN[c] = p.cell.PAPD_EN[c] \union IF p.ipa THEN {"ext"} ELSE {}
    BY <2>2, <2>3, <2>5, <2>7
  <2> QED
    BY <2>6, <2>8
<1>16. Touch(p, read, {"AFEOVER", "PAPD_EN"}, {})
  BY <1>5, <1>14, TouchBetween
<1>17. Rest(read, FALSE, engine)
  BY <1>15, <1>16, RestOff
<1>18. Overridden(read)
  BY <1>17, RestGives
<1>19. Touch(read, one, {}, {}) /\ Overridden(one)
  BY <1>0, <1>10, <1>13, <1>14, <1>18, IndexTouch DEF Off
<1>20. Good(one) /\ one.power.ctrl = FALSE
  <2>1. read.forced[0] = Cal /\ Cal # None
    BY <1>8, <1>10, <1>13 DEF Both, At, Cores, Cal, None
  <2>2. Within(read, one, Forcing) /\ one.power = Switched(read.power, read.power.ctrl)
    BY <1>13, <2>1, HandBackChainSets
  <2> DEFINE switched == Switched(two.power, FALSE)
  <2>3. switched.ctrl = FALSE
    BY <1>10, SwitchedOff DEF Off
  <2>4. one.power = switched
    BY <1>10, <1>13, <2>2 DEF Off
  <2> HIDE DEF switched, one
  <2> QED
    BY <1>13, <2>2, <2>3, <2>4 DEF Within
<1> HIDE DEF one
<1>21. Cells(one)
  BY <1>14, <1>19 DEF Touch
<1>22. Touch(one, end, {}, {})
  BY <1>0, <1>19, <1>20, <1>21, IndexTouch
<1> HIDE DEF end
<1>23. Touch(read, end, {}, {})
  BY <1>19, <1>22, TouchThen
<1>24. Touch(p, end, {"AFEOVER", "PAPD_EN"}, {})
  BY <1>16, <1>23, TouchBetween
<1>25. Rest(end, FALSE, engine)
  <2>1. Touch(read, end, Loose, Lost)
    BY <1>23, TouchMore
  <2> QED
    BY <1>17, <2>1, RestKept
<1> QED
  BY <1>0, <1>24, <1>25

LEMMA BeginRegs ==
  ASSUME CalInv, RegsInv, CalInv', Begin PROVE RegsInv'
<1>1. pc = "begin" /\ pc' = "tx_iq_lo" /\ UNCHANGED board
  BY DEF Begin, Step
<1>2. phy' = Begun(phy)
  BY Zenon DEF Begin, Begun
<1>3. /\ pc \notin Sequence /\ pc # "down" /\ pc' \in Sequence /\ pc' # "down"
      /\ pc' \notin {"papd_0", "papd_1", "papd_out"} /\ Engines' = Engines
  BY <1>1 DEF Sequence, InSequence, Engines
<1>4. /\ Good(phy) /\ Typed(phy) /\ PowerOk(phy.power)
      /\ phy.power.ctrl = TRUE /\ phy.power.on = TRUE /\ phy.forced = Both(None)
  BY <1>1, <1>3, GoodPhy DEF CalInv, Remembered, Together
<1>5. /\ Rest(phy, TRUE, Engines) /\ Cells(phy)
      /\ phy.rssi = phy.rssical /\ phy.ipa = board.ipa
  BY <1>3, RegsNow
<1>6. Touch(phy, phy', {"AFEOVER", "PAPD_EN"}, {}) /\ Rest(phy', FALSE, Engines)
  BY <1>2, <1>4, <1>5, BegunRegs
<1>7. phy'.rssi = phy'.rssical /\ phy'.ipa = board.ipa
  BY <1>5, <1>6 DEF Touch, Noted
<1> QED
  BY <1>1, <1>3, <1>6, <1>7, RegsThen

(* The receiver's reset is a register of its own.                          *)
LEMMA ListeningTouch ==
  ASSUME NEW p PROVE Touch(p, Listening(p), {"BBCFG"}, {})
<1> DEFINE x == Unmarked(p.cell.BBCFG, {0}, {"RSTRX"})
<1>1. DOMAIN x = Cores /\ "BBCFG" \in Kinds
  BY PairMarks DEF Kinds
<1>2. Listening(p) = One(p, "BBCFG", x)
  BY Zenon DEF Listening, One
<1> HIDE DEF x
<1> QED
  BY <1>1, <1>2, TouchOne

LEMMA PapdEnterRegs ==
  ASSUME CalInv, RegsInv, CalInv', PapdEnter PROVE RegsInv'
<1> DEFINE open == TxPowerCtrl(phy, FALSE)
           ent == EnterSearch(open)
           in == Listening(ent)
           q == TxPowerCtrl(in, FALSE)
<1>1. pc = "papd" /\ Quiet
  BY DEF PapdEnter
<1>2. \/ phy' = q /\ pc' = "papd_0" /\ board.ipa
      \/ phy' = open /\ pc' = "rx_medium"
  BY DEF PapdEnter
<1>3. /\ pc \in Sequence /\ pc' \in Sequence /\ pc # "down" /\ pc' # "down"
      /\ (pc' \in {"papd_0", "papd_1", "papd_out"} => board.ipa) /\ Engines' = Engines
  BY <1>1, <1>2 DEF Sequence, InSequence, Engines, Quiet
<1>4. /\ Rest(phy, FALSE, Engines) /\ Cells(phy)
      /\ phy.rssi = phy.rssical /\ phy.ipa = board.ipa
  BY <1>3, RegsNow
<1> DEFINE Fine(r) == Rest(r, FALSE, Engines) /\ r.rssi = r.rssical /\ r.ipa = board.ipa
<1>5. Fine(open)
  <2>1. Rest(open, FALSE, Engines)
    BY <1>4, RestCtrl
  <2>2. Touch(phy, open, {"AFEOVER"}, {})
    BY <1>4, CtrlOff
  <2> QED
    BY <1>4, <2>1, <2>2 DEF Touch, Noted
<1> HIDE DEF open
<1>6. Fine(in)
  <2>1. Touch(open, ent, {}, {})
    BY BracketTouch
  <2>2. Touch(ent, in, {"BBCFG"}, {})
    BY ListeningTouch
  <2>3. Touch(open, in, {"BBCFG"}, {})
    BY <2>1, <2>2, TouchBetween
  <2> HIDE DEF in
  <2>4. Touch(open, in, Loose, Lost)
    BY <2>3, TouchMore DEF Loose
  <2>5. Rest(in, FALSE, Engines)
    BY <1>5, <2>4, RestKept
  <2>6. Cells(open)
    BY <1>5 DEF Rest
  <2> QED
    BY <1>5, <2>3, <2>5, <2>6 DEF Touch, Noted
<1> HIDE DEF in
<1>7. Fine(q)
  <2>1. Rest(q, FALSE, Engines)
    BY <1>6, RestCtrl
  <2>2. Cells(in)
    BY <1>6 DEF Rest
  <2>3. Touch(in, q, {"AFEOVER"}, {})
    BY <2>2, CtrlOff
  <2> QED
    BY <1>6, <2>1, <2>2, <2>3 DEF Touch, Noted
<1> HIDE DEF q
<1>8. Rest(phy', FALSE, Engines') /\ phy'.rssi = phy'.rssical /\ phy'.ipa = board.ipa
  BY <1>2, <1>3, <1>5, <1>7
<1> QED
  BY <1>1, <1>3, <1>8, RegsThen DEF Quiet

(* The engine of an amplifier inside is on again on both cores.             *)
LEMMA PapdLeftRegs ==
  ASSUME NEW p, Good(p), Typed(p), Off(p.power), p.internal = Internal,
         NEW engine, Rest(p, FALSE, engine), NEW v
  PROVE  LET on == [p EXCEPT !.cell.PAPD_EN = Marked(@, Cores, {"on"}),
                             !.cell.BBCFG[0] = v]
         IN  /\ Rest(PapdLeft(p, on, FALSE), FALSE, Cores)
             /\ Touch(p, PapdLeft(p, on, FALSE), {"PAPD_EN", "BBCFG", "AFEOVER"}, {})
<1> DEFINE on == [p EXCEPT !.cell.PAPD_EN = Marked(@, Cores, {"on"}),
                           !.cell.BBCFG[0] = v]
           x == Marked(p.cell.PAPD_EN, Cores, {"on"})
           y == [p.cell.BBCFG EXCEPT ![0] = v]
           K == {"PAPD_EN", "BBCFG"}
<1>1. Cells(p)
  BY DEF Rest
<1>2. on = Two(p, "PAPD_EN", x, "BBCFG", y)
  <2>1. on = [p EXCEPT !.cell.PAPD_EN = x, !.cell.BBCFG[0] = v]
    OBVIOUS
  <2> HIDE DEF on, x
  <2>2. on = [p EXCEPT !.cell.PAPD_EN = x, !.cell.BBCFG = y]
    BY <2>1
  <2> HIDE DEF y
  <2> QED
    BY <2>2, Zenon DEF Two
<1>3. /\ DOMAIN x = Cores /\ DOMAIN y = Cores
      /\ \A c \in Cores : x[c] = p.cell.PAPD_EN[c] \union {"on"}
  BY <1>1, PairMarks DEF Cells, Kinds
<1>4. Within(p, on, Regs)
  <2>1. on = Writes(p, [p.cell EXCEPT !.PAPD_EN = x, !.BBCFG = y])
    <3> HIDE DEF on, x, y
    <3> QED
      BY <1>2, Zenon DEF Writes, Two
  <2> HIDE DEF on, x, y
  <2> QED
    BY <2>1, WithinItself, Written
<1> HIDE DEF on, x, y
<1>5. Touch(p, on, {"PAPD_EN", "BBCFG"}, {}) /\ on.cell.PAPD_EN = x
  <2>1. "PAPD_EN" \in Kinds /\ "BBCFG" \in Kinds /\ "BBCFG" # "PAPD_EN"
    BY DEF Kinds
  <2> QED
    BY <1>1, <1>2, <1>3, <2>1, TouchTwo
<1>6. Rest(on, FALSE, Cores)
  <2>1. Clear \union {"AFEOVER", "TSSI"} \subseteq Kinds \ K /\ {"lpf", "ipa"} \subseteq Noted
    BY DEF Clear, Kinds, Noted
  <2>2. /\ Cells(on) /\ \A k \in Kinds \ K : \A c \in Cores : on.cell[k][c] = p.cell[k][c]
        /\ \A f \in Noted : on[f] = p[f]
    BY <1>1, <1>5 DEF Touch
  <2> HIDE DEF K
  <2>3. on.lpf = p.lpf /\ on.ipa = p.ipa
    BY <2>1, <2>2
  <2>4. ASSUME NEW c \in Cores
        PROVE  /\ \A k \in Clear : on.cell[k][c] = p.cell[k][c]
               /\ on.cell.AFEOVER[c] = p.cell.AFEOVER[c]
               /\ on.cell.TSSI[c] = p.cell.TSSI[c]
    BY <2>1, <2>2
  <2>5. ASSUME NEW c \in Cores
        PROVE  on.cell.PAPD_EN[c] = {"on"} \union IF p.ipa THEN {"ext"} ELSE {}
    <3> DEFINE own == IF c \in engine THEN {"on"} ELSE {}
               ext == IF p.ipa THEN {"ext"} ELSE {}
    <3>1. p.cell.PAPD_EN[c] = own \union ext
      BY DEF Rest
    <3>2. own \subseteq {"on"}
      OBVIOUS
    <3>3. on.cell.PAPD_EN[c] = p.cell.PAPD_EN[c] \union {"on"}
      BY <1>3, <1>5
    <3> HIDE DEF own, ext
    <3>4. on.cell.PAPD_EN[c] = {"on"} \union ext
      BY <3>1, <3>2, <3>3
    <3> QED
      BY <3>4 DEF ext
  <2> QED
    BY <2>2, <2>3, <2>4, <2>5 DEF Rest
<1> DEFINE closed == TxPowerCtrl(on, FALSE)
           back == TxpwrIndex(TxpwrIndex(closed, 0, closed.internal), 1, closed.internal)
<1>7. Good(on) /\ on.power = p.power /\ on.internal = Internal
  BY <1>4 DEF Within, Regs, PhyFields, Levelling
<1>8. Within(on, closed, Power) /\ Off(closed.power)
  BY <1>7, OffAgain
<1>9. PapdLeft(p, on, FALSE) = LeaveSearch(back)
  BY <1>8, Zenon DEF PapdLeft, Off
<1>10. Rest(closed, FALSE, Cores)
  BY <1>6, RestCtrl
<1>11. Touch(on, closed, {"AFEOVER"}, {})
  BY <1>6, CtrlOff DEF Rest
<1> HIDE DEF closed
<1>12. Good(closed) /\ Typed(closed) /\ closed.internal = Internal
  <2>1. Within(p, closed, Power)
    BY <1>4, <1>8, WithinMore, WithinThen DEF Power
  <2> QED
    BY <2>1 DEF Within, Power, Regs, PhyFields, Levelling, Typed
<1>13. Touch(closed, back, {}, {})
  <2>1. Cells(closed) /\ Overridden(closed)
    BY <1>10, RestGives
  <2>2. closed.internal \in Indices
    BY <1>12, IndexTypes
  <2> QED
    BY <1>8, <1>12, <2>1, <2>2, BothTouch
<1> HIDE DEF back
<1>14. Touch(closed, LeaveSearch(back), {}, {})
  BY <1>13, BracketTouch, TouchThen
<1>15. Rest(LeaveSearch(back), FALSE, Cores)
  <2>1. Touch(closed, LeaveSearch(back), Loose, Lost)
    BY <1>14, TouchMore
  <2> QED
    BY <1>10, <2>1, RestKept
<1>16. Touch(p, LeaveSearch(back), {"PAPD_EN", "BBCFG", "AFEOVER"}, {})
  <2>1. /\ Touch(p, on, {"PAPD_EN", "BBCFG", "AFEOVER"}, {})
        /\ Touch(on, closed, {"PAPD_EN", "BBCFG", "AFEOVER"}, {})
    BY <1>5, <1>11, TouchMore
  <2>2. Touch(p, closed, {"PAPD_EN", "BBCFG", "AFEOVER"}, {})
    BY <2>1, TouchThen
  <2> QED
    BY <1>14, <2>2, TouchBetween
<1>17. /\ Rest(PapdLeft(p, on, FALSE), FALSE, Cores)
       /\ Touch(p, PapdLeft(p, on, FALSE), {"PAPD_EN", "BBCFG", "AFEOVER"}, {})
  BY <1>9, <1>15, <1>16
<1> QED
  BY <1>17 DEF on

LEMMA PapdLeaveRegs ==
  ASSUME CalInv, RegsInv, CalInv', PapdLeave PROVE RegsInv'
<1> DEFINE on == [phy EXCEPT !.cell.PAPD_EN = Marked(@, Cores, {"on"}),
                             !.cell.BBCFG[0] = local.bbcfg]
<1>1. phy' = PapdLeft(phy, on, local.ctrl)
  BY Zenon DEF PapdLeave, PapdLeft
<1>2. pc = "papd_out" /\ pc' = "rx_medium" /\ Quiet
  BY DEF PapdLeave, Step
<1>3. /\ pc \in Sequence /\ pc' \in Sequence /\ pc # "down" /\ pc' # "down"
      /\ pc' \notin {"papd_0", "papd_1", "papd_out"}
  BY <1>2 DEF Sequence, InSequence
<1>4. /\ Rest(phy, FALSE, Engines) /\ Cells(phy)
      /\ phy.rssi = phy.rssical /\ phy.ipa = board.ipa /\ board.ipa
  BY <1>2, <1>3, RegsNow
<1>5. /\ Good(phy) /\ Typed(phy) /\ Off(phy.power)
      /\ phy.internal = Internal /\ local.ctrl = FALSE
  BY <1>3, GoodPhy DEF CalInv, Leveled, Remembered
<1>6. Rest(phy', FALSE, Cores) /\ Touch(phy, phy', {"PAPD_EN", "BBCFG", "AFEOVER"}, {})
  BY <1>1, <1>4, <1>5, PapdLeftRegs
<1>7. Engines' = Cores
  BY <1>2, <1>4 DEF Engines, Quiet
<1>8. phy'.rssi = phy'.rssical /\ phy'.ipa = board.ipa
  BY <1>4, <1>6 DEF Touch, Noted
<1> QED
  BY <1>2, <1>3, <1>6, <1>7, <1>8, RegsThen DEF Quiet

LEMMA RxEnterRegs ==
  ASSUME CalInv, RegsInv, CalInv', RxEnter PROVE RegsInv'
<1> DEFINE heard == Listening(phy)
           low == [heard EXCEPT !.gain = Both(Cal)]
<1>1. pc = "rx" /\ pc' = "rx_0" /\ Quiet /\ phy' = EnterSearch(low)
  BY DEF RxEnter, Step
<1>2. /\ pc \in Sequence /\ pc' \in Sequence /\ pc # "down" /\ pc' # "down"
      /\ pc' \notin {"papd_0", "papd_1", "papd_out"} /\ Engines' = Engines
  BY <1>1 DEF Sequence, InSequence, Engines, Quiet
<1>3. Touch(phy, heard, {"BBCFG"}, {})
  BY ListeningTouch
<1> HIDE DEF heard
<1>4. Touch(heard, low, {}, {})
  <2>1. "gain" \in PhyFields \ (Noted \union {"cell"})
    BY DEF PhyFields, Levelling, Noted
  <2> QED
    BY <2>1, TouchAway
<1> HIDE DEF low
<1>5. Touch(low, phy', {}, {})
  BY <1>1, BracketTouch
<1>6. Touch(phy, phy', {"BBCFG"}, {})
  BY <1>3, <1>4, <1>5, TouchBetween
<1>7. Touch(phy, phy', {"BBCFG"}, {"saved", "rad"})
  BY <1>6, TouchMore
<1>8. Touch(phy, phy', Loose, Lost) /\ phy'.rssi = phy'.rssical
  <2>1. {"BBCFG"} \in SUBSET Loose
    BY DEF Loose
  <2> QED
    BY <1>2, <1>7, <2>1, RegsNow, Refs
<1> QED
  BY <1>1, <1>2, <1>8, RegsSame DEF Quiet

(* The transmitter's strength is measured and the loop set up.              *)
LEMMA IdleRest ==
  ASSUME NEW p, NEW engine, Rest(p, FALSE, engine), p.rev \in Int, NEW memory \in BOOLEAN, NEW ch
  PROVE  LET q == CtlSetup(IdleTssi(p, memory, ch))
         IN  Rest(q, FALSE, engine) /\ Touch(p, q, {"TSSI"}, {})
<1> DEFINE o == IdleTssi(p, memory, ch)
           q == CtlSetup(o)
<1>1. Cells(p) /\ p.lpf = FALSE
  BY DEF Rest
<1>2. /\ Touch(p, o, {"TSSI"}, {})
      /\ \A c \in Cores : o.cell.TSSI[c] \subseteq {"idle", "mux"}
  <2>1. \A c \in Cores : /\ \A k \in Clear : p.cell[k][c] = {}
                         /\ "rssi" \notin p.cell.AFEOVER[c]
                         /\ p.cell.TSSI[c] \subseteq {"idle", "mux"}
    <3> SUFFICES ASSUME NEW c \in Cores
                 PROVE  /\ \A k \in Clear : p.cell[k][c] = {}
                        /\ "rssi" \notin p.cell.AFEOVER[c]
                        /\ p.cell.TSSI[c] \subseteq {"idle", "mux"}
      OBVIOUS
    <3>1. p.cell.AFEOVER[c] = {"dac"}
      BY DEF Rest
    <3>2. "rssi" \notin p.cell.AFEOVER[c]
      BY <3>1
    <3>3. \A k \in Clear : p.cell[k][c] = {}
      BY DEF Rest
    <3>4. p.cell.TSSI[c] \subseteq {"idle", "mux"}
      BY DEF Rest
    <3> QED
      BY <3>2, <3>3, <3>4
  <2> QED
    BY <1>1, <2>1, IdleTssiRegs
<1> HIDE DEF o
<1>3. Touch(o, q, {}, {})
  BY CtlSetupRegs
<1> HIDE DEF q
<1>4. Cells(o)
  BY <1>1, <1>2 DEF Touch
<1>5. \A c \in Cores : q.cell.TSSI[c] \subseteq {"idle", "mux"}
  BY <1>2, <1>3, <1>4 DEF Touch, Kinds
<1>6. Touch(p, q, {"TSSI"}, {})
  BY <1>2, <1>3, TouchBetween
<1>7. Touch(p, q, Loose \union {"TSSI"}, Lost)
  BY <1>6, TouchMore
<1>8. Rest(q, FALSE, engine)
  BY <1>5, <1>7, RestIdle
<1> QED
  BY <1>6, <1>8 DEF o, q

LEMMA MeasureIdleRegs ==
  ASSUME CalInv, RegsInv, CalInv', MeasureIdle PROVE RegsInv'
<1>1. PICK memory \in BOOLEAN : phy' = CtlSetup(IdleTssi(phy, memory, conf.channel))
  BY Zenon DEF MeasureIdle
<1>2. pc = "idle_tssi" /\ pc' = "tail" /\ Quiet
  BY DEF MeasureIdle, Step
<1>3. /\ pc \in Sequence /\ pc' \in Sequence /\ pc # "down" /\ pc' # "down"
      /\ pc' \notin {"papd_0", "papd_1", "papd_out"} /\ Engines' = Engines
  BY <1>2 DEF Sequence, InSequence, Engines, Quiet
<1>4. /\ Rest(phy, FALSE, Engines) /\ Cells(phy) /\ phy.rev \in Int
      /\ phy.rssi = phy.rssical /\ phy.ipa = board.ipa
  BY <1>3, RegsNow
<1>5. Rest(phy', FALSE, Engines) /\ Touch(phy, phy', {"TSSI"}, {})
  BY <1>1, <1>4, IdleRest
<1>6. phy'.rssi = phy'.rssical /\ phy'.ipa = board.ipa
  BY <1>4, <1>5 DEF Touch, Noted
<1> QED
  BY <1>2, <1>3, <1>5, <1>6, RegsThen DEF Quiet

LEMMA TailRegs ==
  ASSUME CalInv, RegsInv, CalInv', Tail PROVE RegsInv'
<1> DEFINE x == phy.atGain
           back == TxpwrIndex(TxpwrIndex(phy, 0, x[0]), 1, x[1])
<1>1. pc = "tail" /\ pc' = "return" /\ Quiet
  BY DEF Tail, Step
<1>2. /\ pc \in Sequence /\ pc' \notin Sequence /\ pc # "down" /\ pc' # "down"
      /\ pc' \notin {"papd_0", "papd_1", "papd_out"} /\ Engines' = Engines
  BY <1>1 DEF Sequence, InSequence, Engines, Quiet
<1>3. /\ Good(phy) /\ Typed(phy) /\ Off(phy.power) /\ x \in [Cores -> Indices]
      /\ local.entry = TRUE
  BY <1>2, GoodPhy DEF CalInv, Remembered, Together
<1>4. phy' = TxPowerCtrl(back, TRUE)
  BY <1>3 DEF Tail
<1>5. /\ Rest(phy, FALSE, Engines) /\ Cells(phy) /\ Overridden(phy)
      /\ phy.rssi = phy.rssical /\ phy.ipa = board.ipa
  BY <1>2, RegsNow
<1>6. Touch(phy, back, {}, {})
  <2>1. x[0] \in Indices /\ x[1] \in Indices
    BY <1>3 DEF Cores
  <2> HIDE DEF x
  <2> QED
    BY <1>3, <1>5, <2>1, BothTouch
<1> HIDE DEF back
<1>7. Cells(back) /\ Rest(back, FALSE, Engines)
  <2>1. Touch(phy, back, Loose, Lost)
    BY <1>6, TouchMore
  <2>2. Rest(back, FALSE, Engines)
    BY <1>5, <2>1, RestKept
  <2> QED
    BY <2>2 DEF Rest
<1>8. Rest(phy', TRUE, Engines)
  BY <1>4, <1>7, RestCtrl
<1>9. Touch(phy, phy', {"AFEOVER", "PAPD_EN"}, {})
  <2>1. Touch(back, phy', {"AFEOVER", "PAPD_EN"}, {})
    BY <1>4, <1>7, TxPowerCtrlRegs
  <2> QED
    BY <1>6, <2>1, TouchBetween
<1>10. phy'.rssi = phy'.rssical /\ phy'.ipa = board.ipa
  BY <1>5, <1>9 DEF Touch, Noted
<1> QED
  BY <1>1, <1>2, <1>8, <1>10, RegsThen DEF Quiet

LEMMA RecalcRegs ==
  ASSUME CalInv, RegsInv, CalInv', Recalc PROVE RegsInv'
<1> DEFINE last == <<conf.channel, conf.desired>>
           set == CtlSetup(phy)
           on == TxPowerCtrl(set, TRUE)
           q == [on EXCEPT !.last = last]
<1>1. pc = "recalc" /\ phy.power.ctrl = TRUE
  BY AtRest DEF Recalc
<1>2. /\ UNCHANGED board /\ pc' \in {"return", "begin"}
      /\ phy' = phy \/ phy' = q
  BY <1>1 DEF Recalc
<1>3. /\ pc \notin Sequence /\ pc' \notin Sequence /\ pc # "down" /\ pc' # "down"
      /\ pc' \notin {"papd_0", "papd_1", "papd_out"} /\ Engines' = Engines
  BY <1>1, <1>2 DEF Sequence, InSequence, Engines
<1>4. /\ Rest(phy, TRUE, Engines) /\ Cells(phy)
      /\ phy.rssi = phy.rssical /\ phy.ipa = board.ipa
  BY <1>3, RegsNow
<1>5. Touch(phy, set, {}, {})
  BY CtlSetupRegs
<1> HIDE DEF set
<1>6. Cells(set) /\ Rest(set, TRUE, Engines)
  <2>1. Touch(phy, set, Loose, Lost)
    BY <1>5, TouchMore
  <2>2. Rest(set, TRUE, Engines)
    BY <1>4, <2>1, RestKept
  <2> QED
    BY <2>2 DEF Rest
<1>7. Rest(on, TRUE, Engines) /\ Touch(set, on, {"AFEOVER", "PAPD_EN"}, {})
  <2>1. Rest(on, TRUE, Engines)
    BY <1>6, RestCtrl
  <2>2. Touch(set, on, {"AFEOVER", "PAPD_EN"}, {})
    BY <1>6, TxPowerCtrlRegs
  <2> QED
    BY <2>1, <2>2
<1> HIDE DEF on
<1>8. Touch(on, q, {}, {})
  <2>1. "last" \in PhyFields \ (Noted \union {"cell"})
    BY DEF PhyFields, Results, Noted
  <2> QED
    BY <2>1, TouchAway
<1> HIDE DEF q
<1>9. Rest(q, TRUE, Engines)
  <2>1. Touch(on, q, Loose, Lost)
    BY <1>8, TouchMore
  <2> QED
    BY <1>7, <2>1, RestKept
<1>10. Touch(phy, q, {"AFEOVER", "PAPD_EN"}, {})
  <2>1. Touch(phy, on, {"AFEOVER", "PAPD_EN"}, {})
    BY <1>5, <1>7, TouchBetween
  <2> QED
    BY <1>8, <2>1, TouchBetween
<1>11. q.rssi = q.rssical /\ q.ipa = board.ipa
  BY <1>4, <1>10 DEF Touch, Noted
<1>12. Rest(phy', TRUE, Engines') /\ phy'.rssi = phy'.rssical /\ phy'.ipa = board.ipa
  <2>1. CASE phy' = phy
    BY <1>3, <1>4, <2>1
  <2>2. CASE phy' = q
    BY <1>3, <1>9, <1>11, <2>2
  <2> QED
    BY <1>2, <2>1, <2>2
<1> QED
  BY <1>2, <1>3, <1>12, RegsThen

(* The channel's need of the receive reset, and the end of the receiver's   *)
(* calibration.                                                            *)
LEMMA ChannelTouch ==
  ASSUME NEW p, p.power.ctrl = TRUE, NEW ch
  PROVE  Touch(p, ChannelSetup(p, ch), {"BBCFG"}, {})
<1> DEFINE Reset(pair) == IF ch \in Spur THEN Marked(pair, {0}, {"RSTRX"})
                          ELSE Unmarked(pair, {0}, {"RSTRX"})
           x == Reset(p.cell.BBCFG)
           w == One(p, "BBCFG", x)
<1>1. ChannelSetup(p, ch) = Tables(w)
  <2>1. ChannelSetup(p, ch) = Tables([p EXCEPT !.cell.BBCFG = Reset(@)])
    BY Zenon DEF ChannelSetup
  <2> QED
    BY <2>1, Zenon DEF One
<1>2. DOMAIN x = Cores /\ "BBCFG" \in Kinds
  BY PairMarks DEF Kinds
<1> HIDE DEF x
<1>3. Touch(p, w, {"BBCFG"}, {})
  BY <1>2, TouchOne
<1> HIDE DEF w
<1>4. Touch(w, Tables(w), {}, {})
  BY BracketTouch
<1>5. Touch(p, Tables(w), {"BBCFG"}, {})
  BY <1>3, <1>4, TouchBetween
<1> QED
  BY <1>1, <1>5

(* An override taken off where there is none.                              *)
LEMMA ManyOffTouch ==
  ASSUME NEW p, Cells(p), OverIn(p, {}, {}, {}), NEW cmd \in DOMAIN Many, NEW cs
  PROVE  Touch(p, OneToMany(p, cmd, cs, TRUE), {}, {})
<1> DEFINE q == OneToMany(p, cmd, cs, TRUE)
           m == Many[cmd]
<1>1. Touch(p, q, Overs, {}) /\ OverIn(q, {} \ m[1], {} \ m[2], {} \ m[3])
  <2>1. Touch(p, p, Overs, {})
    BY TouchItself
  <2>2. Touch(p, q, Overs, {})
    BY <2>1, ManyIn
  <2>3. OverIn(q, {} \ m[1], {} \ m[2], {} \ m[3])
    BY <2>1, ManyIn
  <2> QED
    BY <2>2, <2>3
<1> HIDE DEF q, m
<1>2. \A k \in Overs : \A c \in Cores : q.cell[k][c] = p.cell[k][c]
  <2>1. \A c \in Cores : p.cell.OVER0[c] = {} /\ p.cell.OVER1[c] = {} /\ p.cell.OVER2[c] = {}
    BY DEF OverIn
  <2>2. \A c \in Cores : q.cell.OVER0[c] = {} /\ q.cell.OVER1[c] = {} /\ q.cell.OVER2[c] = {}
    BY <1>1 DEF OverIn
  <2> QED
    BY <2>1, <2>2 DEF Overs
<1> QED
  BY <1>1, <1>2 DEF Touch, q

LEMMA RxLeftRegs ==
  ASSUME NEW p, Cells(p), OverIn(p, {}, {}, {}), NEW v, NEW gain, NEW ch
  PROVE  LET q == RxLeft(p, [p.cell EXCEPT !.BBCFG[0] = v], gain, ch)
         IN  Touch(p, q, Loose, Lost) /\ q.rssi = q.rssical
<1> DEFINE y == [p.cell.BBCFG EXCEPT ![0] = v]
           w == One(p, "BBCFG", y)
           off == OneToMany(w, "RX_GAIN", Cores, TRUE)
           back == [off EXCEPT !.gain = gain]
           out == LeaveSearch(back)
           h == Hold(out)
           n == [h EXCEPT !.iqcal = ch]
           saved == Release(n)
           tab == Tables(saved)
           end == RssiCal(tab, ch)
<1>1. RxLeft(p, [p.cell EXCEPT !.BBCFG[0] = v], gain, ch) = end
  <2>1. Writes(p, [p.cell EXCEPT !.BBCFG[0] = v]) = w
    <3>1. [p.cell EXCEPT !.BBCFG[0] = v] = [p.cell EXCEPT !.BBCFG = y]
      OBVIOUS
    <3> HIDE DEF y
    <3> QED
      BY <3>1, Zenon DEF Writes, One
  <2> HIDE DEF w
  <2> QED
    BY <2>1, Zenon DEF RxLeft, SaveCal
<1>2. DOMAIN y = Cores /\ "BBCFG" \in Kinds
  BY DEF Cells, Kinds
<1> HIDE DEF y
<1>3. Touch(p, w, {"BBCFG"}, {})
  BY <1>2, TouchOne
<1> HIDE DEF w
<1>4. Cells(w) /\ OverIn(w, {}, {}, {})
  <2>1. Overs \subseteq Kinds \ {"BBCFG"}
    BY DEF Overs, Kinds
  <2>2. \A k \in Overs : \A c \in Cores : w.cell[k][c] = p.cell[k][c]
    BY <1>3, <2>1 DEF Touch
  <2> QED
    BY <1>3, <2>2 DEF OverIn, Overs, Touch
<1>5. Touch(w, off, {}, {})
  <2>1. "RX_GAIN" \in DOMAIN Many
    BY DEF Many
  <2> QED
    BY <1>4, <2>1, ManyOffTouch
<1> HIDE DEF off
<1>6. Touch(off, back, {}, {})
  <2>1. "gain" \in PhyFields \ (Noted \union {"cell"})
    BY DEF PhyFields, Levelling, Noted
  <2> QED
    BY <2>1, TouchAway
<1> HIDE DEF back
<1>7. Touch(back, out, {}, {})
  BY BracketTouch
<1> HIDE DEF out
<1>8. Touch(out, saved, {}, {})
  <2>1. Touch(out, h, {}, {})
    BY BracketTouch
  <2> HIDE DEF h
  <2>2. "iqcal" \in PhyFields \ (Noted \union {"cell"})
    BY DEF PhyFields, Results, Noted
  <2>3. Touch(h, n, {}, {})
    BY <2>2, TouchAway
  <2> HIDE DEF n
  <2>4. Touch(n, saved, {}, {})
    BY BracketTouch
  <2> QED
    BY <2>1, <2>3, <2>4, TouchThen
<1> HIDE DEF saved
<1>9. Touch(saved, tab, {}, {})
  BY BracketTouch
<1> HIDE DEF tab
<1>10. Touch(w, tab, {}, {})
  <2>1. Touch(w, back, {}, {})
    BY <1>5, <1>6, TouchThen
  <2>2. Touch(w, saved, {}, {})
    BY <2>1, <1>7, <1>8, TouchThen
  <2> QED
    BY <2>2, <1>9, TouchThen
<1>11. Touch(p, tab, {"BBCFG"}, {})
  BY <1>3, <1>10, TouchBetween
<1>12. Cells(tab)
  BY <1>11 DEF Touch
<1>13. Touch(tab, end, {"R2FF"}, {"rssi", "rssical"})
  BY RssiCalRegs
<1>14. end.rssi = ch /\ end.rssical = ch
  BY <1>12, RssiCalRegs
<1> HIDE DEF end
<1>15. Touch(p, tab, Loose, Lost) /\ Touch(tab, end, Loose, Lost)
  <2>1. Touch(p, tab, Loose, Lost)
    BY <1>11, TouchMore DEF Loose
  <2>2. Touch(tab, end, Loose, Lost)
    BY <1>13, TouchMore DEF Loose, Lost
  <2> QED
    BY <2>1, <2>2
<1>16. Touch(p, end, Loose, Lost)
  BY <1>15, TouchThen
<1> QED
  BY <1>1, <1>14, <1>16

LEMMA RxLeaveRegs ==
  ASSUME CalInv, RegsInv, CalInv', RxLeave PROVE RegsInv'
<1>1. phy' = RxLeft(phy, [phy.cell EXCEPT !.BBCFG[0] = local.bbcfg], local.gain, conf.channel)
  BY Zenon DEF Writes, RxLeave, RxLeft
<1>2. pc = "rx_out" /\ pc' = "idle_tssi" /\ Quiet
  BY DEF RxLeave, Step
<1>3. /\ pc \in Sequence /\ pc' \in Sequence /\ pc # "down" /\ pc' # "down"
      /\ pc' \notin {"papd_0", "papd_1", "papd_out"} /\ Engines' = Engines
  BY <1>2 DEF Sequence, InSequence, Engines, Quiet
<1>4. Cells(phy) /\ OverIn(phy, {}, {}, {})
  BY <1>3, RegsNow
<1>5. Touch(phy, phy', Loose, Lost) /\ phy'.rssi = phy'.rssical
  BY <1>1, <1>4, RxLeftRegs
<1> QED
  BY <1>2, <1>3, <1>5, RegsSame DEF Quiet

LEMMA ConfigRegs ==
  ASSUME CalInv, RegsInv, CalInv', NEW ch \in Channels, NEW power \in Powers, Config(ch, power)
  PROVE  RegsInv'
<1>1. /\ pc = "idle" /\ UNCHANGED board /\ pc' \in {"return", "recalc"}
      /\ phy' = IF ch = conf.channel THEN phy ELSE ChannelSetup(phy, ch)
  BY DEF Config
<1>2. /\ pc \notin Sequence /\ pc' \notin Sequence /\ pc # "down" /\ pc' # "down"
      /\ pc' \notin {"papd_0", "papd_1", "papd_out"} /\ Engines' = Engines
  BY <1>1 DEF Sequence, InSequence, Engines
<1>3. Touch(phy, phy', {"BBCFG"}, {"saved", "rad"})
  <2>1. phy.power.ctrl = TRUE
    BY <1>1, AtRest
  <2>2. Touch(phy, ChannelSetup(phy, ch), {"BBCFG"}, {})
    BY <2>1, ChannelTouch
  <2>3. Touch(phy, ChannelSetup(phy, ch), {"BBCFG"}, {"saved", "rad"})
    BY <2>2, TouchMore
  <2> QED
    BY <1>1, <2>3, TouchItself
<1>4. Touch(phy, phy', Loose, Lost) /\ phy'.rssi = phy'.rssical
  <2>1. {"BBCFG"} \in SUBSET Loose
    BY DEF Loose
  <2> QED
    BY <1>2, <1>3, <2>1, RegsNow, Refs
<1> QED
  BY <1>1, <1>2, <1>4, RegsSame

LEMMA LoopSettlesRegs ==
  ASSUME CalInv, RegsInv, CalInv', LoopSettles PROVE RegsInv'
<1>1. PICK index \in [Cores -> Loop] : phy' = [phy EXCEPT !.power.index = index]
  BY DEF LoopSettles
<1>2. pc = "idle" /\ UNCHANGED <<board, pc>>
  BY DEF LoopSettles
<1> DEFINE power == [phy.power EXCEPT !.index = index]
<1>3. phy' = [phy EXCEPT !.power = power]
  BY <1>1
<1> HIDE DEF power
<1>4. Touch(phy, phy', {}, {})
  <2>1. "power" \in PhyFields \ (Noted \union {"cell"})
    BY DEF PhyFields, Levelling, Noted
  <2> QED
    BY <1>3, <2>1, TouchAway
<1>5. Touch(phy, phy', Loose, Lost)
  BY <1>4, TouchMore
<1>6. Cells(phy) /\ phy.rssi = phy.rssical
  BY <1>2, RegsNow
<1>7. phy'.rssi = phy'.rssical
  BY <1>4, <1>6 DEF Touch, Noted
<1>8. Engines' = Engines
  BY <1>2 DEF Engines
<1> QED
  BY <1>2, <1>5, <1>7, <1>8, RegsSame

(* The steps that leave the PHY alone.                                     *)
LEMMA StillRegs ==
  ASSUME CalInv, RegsInv, CalInv', UNCHANGED <<board, phy>>,
         \/ pc' = "down"
         \/ pc = "idle" /\ pc' = "recalc"
         \/ pc = "return" /\ pc' = "idle"
         \/ pc = "papd_medium" /\ pc' = "papd"
         \/ pc = "rx_medium" /\ pc' = "rx"
         \/ pc' = pc
  PROVE  RegsInv'
<1>1. CASE pc' = "down"
  BY <1>1 DEF RegsInv
<1>2. CASE pc' # "down"
  <2>1. Engines' = Engines /\ pc # "down"
    BY <1>2 DEF Engines
  <2>2. pc' \in {"papd_0", "papd_1", "papd_out"} => pc \in {"papd_0", "papd_1", "papd_out"}
    OBVIOUS
  <2> QED
    BY <2>1, <2>2 DEF RegsInv
<1> QED
  BY <1>1, <1>2

(***************************************************************************)
(* The registers after the init.                                           *)
(***************************************************************************)
(* Nothing is on in any register.                                          *)
Blank(p) ==
  /\ Cells(p) /\ p.lpf = FALSE
  /\ \A k \in Kinds : \A c \in Cores : p.cell[k][c] = {}

LEMMA PreparedBlank ==
  ASSUME NEW p, NEW of
  PROVE  LET q == Prepared(p, of)
         IN  Blank(q) /\ q.rev = of.rev /\ q.ipa = of.ipa /\ q.rssical = None
<1> DEFINE q == Prepared(p, of)
<1>1. /\ DOMAIN q = PhyFields /\ q.cell = Untouched.cell /\ q.saved = Untouched.saved
      /\ q.rad = Untouched.rad /\ q.lpf = Untouched.lpf /\ q.rssical = Untouched.rssical
      /\ q.rev = of.rev /\ q.ipa = of.ipa
  BY DEF Prepared, PhyFields, Regs, Levelling, Results
<1> HIDE DEF q
<1>2. /\ Untouched.cell = [k \in Kinds |-> Both({})] /\ Untouched.saved = [i \in 1..15 |-> {}]
      /\ Untouched.rad = [i \in 1..2 |-> {}] /\ Untouched.lpf = FALSE
      /\ Untouched.rssical = None
  BY DEF Untouched
<1> DEFINE clean == Both({})
<1>3. DOMAIN clean = Cores /\ \A c \in Cores : clean[c] = {}
  BY DEF Both
<1> HIDE DEF clean
<1>4. /\ DOMAIN q.cell = Kinds /\ \A k \in Kinds : q.cell[k] = clean
      /\ DOMAIN q.saved = 1..15 /\ DOMAIN q.rad = 1..2
  BY <1>1, <1>2 DEF clean
<1> QED
  BY <1>1, <1>2, <1>3, <1>4 DEF Blank, Cells, q

(* Clearing the overrides of the registers of the core's reset.            *)
LEMMA ClearTouch ==
  ASSUME NEW p, Blank(p)
  PROVE  Blank(ClearOverrides(p)) /\ Touch(p, ClearOverrides(p), {}, {})
<1> DEFINE kinds == {"OVER0", "TXF_S0", "INTC", "AFEOVER"}
                      \union IF p.rev >= 7 THEN {"OVER1", "OVER2"} ELSE {}
           from == Untouched.cell
           q == PutBack(p, kinds, from)
<1>1. ClearOverrides(p) = q
  BY DEF ClearOverrides
<1>2. kinds \subseteq Kinds
  BY DEF Kinds
<1> HIDE DEF kinds
<1>3. \A k \in Kinds : DOMAIN from[k] = Cores /\ \A c \in Cores : from[k][c] = {}
  BY DEF Untouched, Both
<1> HIDE DEF from
<1>4. Cells(p)
  BY DEF Blank
<1>5. \A k \in kinds : DOMAIN from[k] = Cores
  BY <1>2, <1>3
<1>6. Touch(p, q, kinds, {})
  BY <1>2, <1>5, PutBackSets
<1>7. \A k \in kinds : q.cell[k] = from[k]
  BY <1>2, <1>4, <1>5, PutBackSets
<1> HIDE DEF q
<1>8. \A k \in Kinds : \A c \in Cores : q.cell[k][c] = p.cell[k][c]
  <2>1. ASSUME NEW k \in Kinds, NEW c \in Cores PROVE q.cell[k][c] = p.cell[k][c]
    <3>1. CASE k \in kinds
      BY <1>3, <1>7, <3>1 DEF Blank
    <3>2. CASE k \notin kinds
      BY <1>4, <1>6, <3>2 DEF Touch
    <3> QED
      BY <3>1, <3>2
  <2> QED
    BY <2>1
<1>9. Touch(p, q, {}, {})
  BY <1>6, <1>8 DEF Touch
<1>10. Cells(q) /\ q.lpf = p.lpf
  BY <1>4, <1>9 DEF Touch, Noted
<1>11. Blank(q)
  BY <1>8, <1>10 DEF Blank
<1> QED
  BY <1>1, <1>9, <1>11

(* The cores whose engine the init turns on.                               *)
EngineOf(ipa) == IF ipa THEN Cores ELSE {}

LEMMA InitOpenRegs ==
  ASSUME NEW p, Blank(p)
  PROVE  /\ Rest(InitOpen(p), TRUE, EngineOf(p.ipa))
         /\ Touch(p, InitOpen(p), {"PAPD_EN"}, {"intc"})
<1> DEFINE cleared == ClearOverrides(p)
           x == Marked(cleared.cell.PAPD_EN, Cores, {"on"})
           with == One(cleared, "PAPD_EN", x)
           engine == IF p.ipa THEN with ELSE cleared
           worked == Workarounds(engine)
           pulsed == PaOverride(PaOverride(worked, FALSE), TRUE)
           out == InitOpen(p)
<1>1. out = IF p.rev < 7 THEN pulsed ELSE worked
  BY Zenon DEF InitOpen, One
<1>2. Blank(cleared) /\ Touch(p, cleared, {}, {})
  BY ClearTouch
<1> HIDE DEF cleared
<1>3. "PAPD_EN" \in Kinds /\ DOMAIN x = Cores
      /\ \A c \in Cores : x[c] = cleared.cell.PAPD_EN[c] \union {"on"}
  BY PairMarks DEF Kinds
<1> HIDE DEF x
<1>4. Touch(cleared, with, {"PAPD_EN"}, {}) /\ with.cell.PAPD_EN = x
  BY <1>2, <1>3, TouchOne DEF Blank
<1> HIDE DEF with
<1>5. Touch(cleared, engine, {"PAPD_EN"}, {})
  BY <1>4, TouchItself
<1>6. \A c \in Cores : engine.cell.PAPD_EN[c] = IF c \in EngineOf(p.ipa) THEN {"on"} ELSE {}
  <2>1. \A c \in Cores : cleared.cell.PAPD_EN[c] = {}
    BY <1>2, <1>3 DEF Blank
  <2>2. CASE p.ipa
    BY <1>3, <1>4, <2>1, <2>2 DEF EngineOf
  <2>3. CASE ~p.ipa
    BY <2>1, <2>3 DEF EngineOf
  <2> QED
    BY <2>2, <2>3
<1> HIDE DEF engine
<1>7. Touch(engine, worked, {}, {})
  <2> DEFINE h == Hold(engine)
             t == Tables(h)
  <2>1. Touch(engine, h, {}, {})
    BY BracketTouch
  <2> HIDE DEF h
  <2>2. Touch(h, t, {}, {})
    BY BracketTouch
  <2> HIDE DEF t
  <2>3. Touch(t, Release(t), {}, {}) /\ worked = Release(t)
    BY BracketTouch DEF Workarounds, t, h
  <2> HIDE DEF worked
  <2> QED
    BY <2>1, <2>2, <2>3, TouchThen
<1> HIDE DEF worked
<1>8. Touch(worked, out, {}, {"intc"})
  <2>1. Touch(worked, pulsed, {}, {"intc"})
    BY PaPulse
  <2> HIDE DEF pulsed
  <2> QED
    BY <1>1, <2>1, TouchItself
<1> HIDE DEF out
<1>9. Touch(engine, out, {}, {"intc"})
  BY <1>7, <1>8, TouchBetween
<1>10. Touch(p, engine, {"PAPD_EN"}, {})
  BY <1>2, <1>5, TouchBetween
<1>11. Touch(p, out, {"PAPD_EN"}, {"intc"})
  <2>1. Touch(p, engine, {"PAPD_EN"}, {"intc"}) /\ Touch(engine, out, {"PAPD_EN"}, {"intc"})
    BY <1>9, <1>10, TouchMore
  <2> QED
    BY <2>1, TouchThen
<1>12. Rest(out, TRUE, EngineOf(p.ipa))
  <2>1. Clear \union {"AFEOVER", "TSSI"} \subseteq Kinds \ {"PAPD_EN"}
    BY DEF Clear, Kinds
  <2>2. Cells(p) /\ Cells(engine)
    BY <1>10 DEF Touch, Blank
  <2>3. /\ Cells(out)
        /\ \A k \in Kinds \ {"PAPD_EN"} : \A c \in Cores : out.cell[k][c] = {}
        /\ out.lpf = FALSE
    BY <1>11, <2>2 DEF Touch, Noted, Blank
  <2>4. \A c \in Cores : out.cell.PAPD_EN[c] = engine.cell.PAPD_EN[c]
    BY <1>3, <1>9, <2>2 DEF Touch
  <2>5. ASSUME NEW c \in Cores
        PROVE  /\ \A k \in Clear : out.cell[k][c] = {}
               /\ out.cell.AFEOVER[c] = {}
               /\ out.cell.TSSI[c] = {}
    BY <2>1, <2>3
  <2>6. ASSUME NEW c \in Cores
        PROVE  out.cell.PAPD_EN[c] = IF c \in EngineOf(p.ipa) THEN {"on"} ELSE {}
    BY <1>6, <2>4
  <2> QED
    BY <2>3, <2>5, <2>6 DEF Rest
<1> QED
  BY <1>11, <1>12 DEF out

LEMMA InitNRegs ==
  ASSUME NEW p, Blank(p), p.rssical = None, p.iqcal = None, p.power.ctrl = TRUE, p.rev \in Int,
         NEW memory \in BOOLEAN, NEW ch
  PROVE  LET q == InitN(p, memory, ch)
         IN  Rest(q, TRUE, EngineOf(p.ipa)) /\ q.rssi = q.rssical /\ q.ipa = p.ipa
<1> DEFINE engine == EngineOf(p.ipa)
           open == InitOpen(p)
           low == TxPowerCtrl(open, FALSE)
           off == TxPowerFix(low)
           ctl == CtlSetup(IdleTssi(off, memory, ch))
           set == Tables(ctl)
           rssi == RssiCal(set, ch)
           tab == Tables(rssi)
           cal == GetTxGains(tab)
           on == TxPowerCtrl(cal, TRUE)
           end == [on EXCEPT !.pending = Schedules(p)]
<1>1. InitN(p, memory, ch) = end
  BY Zenon DEF InitN
<1>2. Rest(open, TRUE, engine) /\ Touch(p, open, {"PAPD_EN"}, {"intc"})
  BY InitOpenRegs
<1> HIDE DEF open, engine
<1>3. Cells(p) /\ Cells(open) /\ open.ipa = p.ipa /\ open.rev = p.rev
  <2>1. Cells(p)
    BY DEF Blank
  <2>2. {"ipa", "rev"} \subseteq Noted \ {"intc"}
    BY DEF Noted
  <2> QED
    BY <1>2, <2>1, <2>2 DEF Touch
<1>4. Touch(open, low, {"AFEOVER"}, {}) /\ DacOn(open, low)
  BY <1>3, CtrlOff
<1> HIDE DEF low
<1>5. /\ Cells(low) /\ low.ipa = p.ipa /\ low.rev = p.rev
      /\ \A c \in Cores : low.cell.PAPD_EN[c] = open.cell.PAPD_EN[c]
  BY <1>3, <1>4 DEF Touch, Noted, Kinds
<1>6. Touch(low, off, {"AFEOVER", "PAPD_EN"}, {})
  BY <1>5, TxPowerFixRegs
<1>7. \A c \in Cores : off.cell.AFEOVER[c] = low.cell.AFEOVER[c] \union {"dac"}
  BY <1>5, TxPowerFixRegs
<1>8. \A c \in Cores :
        off.cell.PAPD_EN[c] = low.cell.PAPD_EN[c] \union IF low.ipa THEN {"ext"} ELSE {}
  BY <1>5, TxPowerFixRegs
<1> HIDE DEF off
<1>9. /\ Rest(off, FALSE, engine) /\ Cells(off) /\ off.ipa = p.ipa /\ off.rev = p.rev
  <2>1. Touch(open, off, {"AFEOVER", "PAPD_EN"}, {})
    <3>1. Touch(open, low, {"AFEOVER", "PAPD_EN"}, {})
      BY <1>4, TouchMore
    <3> QED
      BY <1>6, <3>1, TouchThen
  <2>2. \A c \in Cores : off.cell.AFEOVER[c] = open.cell.AFEOVER[c] \union {"dac"}
    BY <1>4, <1>7 DEF DacOn
  <2>3. \A c \in Cores :
          off.cell.PAPD_EN[c] = open.cell.PAPD_EN[c] \union IF open.ipa THEN {"ext"} ELSE {}
    BY <1>3, <1>5, <1>8
  <2>4. \A c \in Cores :
          /\ off.cell.AFEOVER[c] = open.cell.AFEOVER[c] \union {"dac"}
          /\ off.cell.PAPD_EN[c] = open.cell.PAPD_EN[c] \union IF open.ipa THEN {"ext"} ELSE {}
    BY <2>2, <2>3
  <2>5. Rest(off, FALSE, engine)
    BY <1>2, <2>1, <2>4, RestOff
  <2>6. off.ipa = p.ipa /\ off.rev = p.rev
    BY <1>5, <1>6 DEF Touch, Noted
  <2> QED
    BY <2>5, <2>6 DEF Rest
<1>10. Rest(ctl, FALSE, engine) /\ Touch(off, ctl, {"TSSI"}, {})
  BY <1>9, IdleRest
<1> HIDE DEF ctl
<1>11. Touch(ctl, set, {}, {})
  BY BracketTouch
<1> HIDE DEF set
<1>12. Rest(set, FALSE, engine) /\ Cells(set) /\ set.ipa = p.ipa
  <2>1. Touch(ctl, set, Loose, Lost)
    BY <1>11, TouchMore
  <2>2. Rest(set, FALSE, engine)
    BY <1>10, <2>1, RestKept
  <2>3. Touch(off, set, {"TSSI"}, {})
    BY <1>10, <1>11, TouchBetween
  <2> QED
    BY <1>9, <2>2, <2>3 DEF Rest, Touch, Noted
<1>13. Touch(set, rssi, {"R2FF"}, {"rssi", "rssical"})
  BY RssiCalRegs
<1>14. rssi.rssi = ch /\ rssi.rssical = ch
  BY <1>12, RssiCalRegs
<1> HIDE DEF rssi
<1>15. Rest(rssi, FALSE, engine) /\ Cells(rssi) /\ rssi.ipa = p.ipa
  <2>1. Touch(set, rssi, Loose, Lost)
    BY <1>13, TouchMore DEF Loose, Lost
  <2>2. Rest(rssi, FALSE, engine)
    BY <1>12, <2>1, RestKept
  <2>3. "ipa" \in Noted \ {"rssi", "rssical"}
    BY DEF Noted
  <2> QED
    BY <1>12, <1>13, <2>2, <2>3 DEF Rest, Touch
<1>16. Touch(rssi, tab, {}, {})
  BY BracketTouch
<1> HIDE DEF tab
<1>17. Touch(tab, cal, {}, {})
  BY GainsTouch
<1> HIDE DEF cal
<1>18. Touch(rssi, cal, {}, {})
  BY <1>16, <1>17, TouchThen
<1>19. Rest(cal, FALSE, engine) /\ Cells(cal)
  <2>1. Touch(rssi, cal, Loose, Lost)
    BY <1>18, TouchMore
  <2>2. Rest(cal, FALSE, engine)
    BY <1>15, <2>1, RestKept
  <2> QED
    BY <2>2 DEF Rest
<1>20. Rest(on, TRUE, engine) /\ Touch(cal, on, {"AFEOVER", "PAPD_EN"}, {})
  <2>1. Rest(on, TRUE, engine)
    BY <1>19, RestCtrl
  <2>2. Touch(cal, on, {"AFEOVER", "PAPD_EN"}, {})
    BY <1>19, TxPowerCtrlRegs
  <2> QED
    BY <2>1, <2>2
<1> HIDE DEF on
<1>21. Touch(on, end, {}, {})
  <2>1. "pending" \in PhyFields \ (Noted \union {"cell"})
    BY DEF PhyFields, Results, Noted
  <2> QED
    BY <2>1, TouchAway
<1> HIDE DEF end
<1>22. Rest(end, TRUE, engine)
  <2>1. Touch(on, end, Loose, Lost)
    BY <1>21, TouchMore
  <2> QED
    BY <1>20, <2>1, RestKept
<1>23. Touch(rssi, end, {"AFEOVER", "PAPD_EN"}, {})
  <2>1. Touch(rssi, on, {"AFEOVER", "PAPD_EN"}, {})
    BY <1>18, <1>20, TouchBetween
  <2> QED
    BY <1>21, <2>1, TouchBetween
<1>24. end.rssi = end.rssical /\ end.ipa = p.ipa
  BY <1>14, <1>15, <1>23 DEF Touch, Noted
<1> QED
  BY <1>1, <1>22, <1>24 DEF engine

LEMMA PowerUpRegs ==
  ASSUME CalInv, CalInv', PowerUp PROVE RegsInv'
<1> DEFINE q == Prepared(phy, board)
<1>1. PICK memory \in BOOLEAN :
        phy' = ChannelSetup(InitN(q, memory, conf.channel), conf.channel)
  BY Zenon DEF PowerUp
<1>2. pc' = "idle" /\ UNCHANGED board
  BY DEF PowerUp
<1>3. board.rev \in {4, 8}
  BY RevsAssumption DEF CalInv, Shape
<1>4. Ready(q, board.rev)
  BY <1>3, PreparedOk
<1>5. /\ q.rev = board.rev /\ q.multSave = <<>> /\ q.pending = FALSE /\ q.iqcal = None
      /\ q.forced = Both(None)
  BY PreparedSets, ZenonT(60)
<1>6. Blank(q) /\ q.ipa = board.ipa /\ q.rssical = None
  BY PreparedBlank
<1> HIDE DEF q
<1>7. /\ Good(q) /\ Free(q.search) /\ PowerOk(q.power) /\ q.power.ctrl = TRUE /\ Typed(q)
      /\ q.rev \in Int
  BY <1>3, <1>4, <1>5 DEF Ready
<1> DEFINE r == InitN(q, memory, conf.channel)
<1>8. r.power.ctrl = TRUE
  <2>1. Fresh(q)
    BY <1>5, <1>7 DEF Fresh
  <2>2. Brought(q, r)
    BY <1>7, <2>1, InitNSets
  <2> HIDE DEF r
  <2> QED
    BY <2>2 DEF Brought
<1>9. /\ Rest(r, TRUE, EngineOf(q.ipa)) /\ r.rssi = r.rssical /\ r.ipa = q.ipa
  BY <1>5, <1>6, <1>7, InitNRegs
<1> HIDE DEF r
<1>10. Touch(r, phy', {"BBCFG"}, {})
  BY <1>1, <1>8, ChannelTouch DEF r
<1>11. Rest(phy', TRUE, EngineOf(board.ipa))
  <2>1. Touch(r, phy', Loose, Lost)
    BY <1>10, TouchMore DEF Loose
  <2> QED
    BY <1>6, <1>9, <2>1, RestKept
<1>12. phy'.rssi = phy'.rssical /\ phy'.ipa = board.ipa
  BY <1>6, <1>9, <1>10 DEF Touch, Noted, Rest
<1>13. Engines' = EngineOf(board.ipa)
  BY <1>2 DEF Engines, EngineOf
<1>14. pc' \notin Sequence /\ pc' # "down" /\ pc' \notin {"papd_0", "papd_1", "papd_out"}
  BY <1>2 DEF Sequence, InSequence
<1> QED
  BY <1>2, <1>11, <1>12, <1>13, <1>14, RegsThen

LEMMA NextRegs ==
  CalInv /\ RegsInv /\ CalInv' /\ [Next]_vars => RegsInv'
<1> SUFFICES ASSUME CalInv, RegsInv, CalInv', [Next]_vars PROVE RegsInv'
  OBVIOUS
<1>1. CASE PowerUp
  BY <1>1, PowerUpRegs
<1>2. CASE PowerDown \/ Periodic
  BY <1>2, StillRegs DEF PowerDown, Periodic
<1>3. CASE LoopSettles
  BY <1>3, LoopSettlesRegs
<1>4. CASE \E ch \in Channels, power \in Powers : Config(ch, power)
  BY <1>4, ConfigRegs
<1>5. CASE Recalc
  BY <1>5, RecalcRegs
<1>6. CASE Return
  BY <1>6, StillRegs DEF Return
<1>7. CASE Calibrate
  <2>1. CASE Begin
    BY <2>1, BeginRegs
  <2>2. CASE CalTxIqLo
    BY <2>2, CalTxIqLoRegs
  <2>3. CASE ReserveMedium("papd_medium", "papd") \/ ReserveMedium("rx_medium", "rx")
    BY <2>3, StillRegs DEF ReserveMedium, Step, Quiet
  <2>4. CASE PapdEnter
    BY <2>4, PapdEnterRegs
  <2>5. CASE PapdPass(0, "papd_0", "papd_1") \/ PapdPass(1, "papd_1", "papd_out")
    <3>1. CASE PapdPass(0, "papd_0", "papd_1")
      BY <3>1, PapdPassRegs DEF Cores
    <3>2. CASE PapdPass(1, "papd_1", "papd_out")
      BY <3>2, PapdPassRegs DEF Cores
    <3> QED
      BY <2>5, <3>1, <3>2
  <2>6. CASE PapdLeave
    BY <2>6, PapdLeaveRegs
  <2>7. CASE RxEnter
    BY <2>7, RxEnterRegs
  <2>8. CASE RxPass(0, "rx_0", "rx_1") \/ RxPass(1, "rx_1", "rx_out")
    <3>1. CASE RxPass(0, "rx_0", "rx_1")
      BY <3>1, RxPassRegs DEF Cores
    <3>2. CASE RxPass(1, "rx_1", "rx_out")
      BY <3>2, RxPassRegs DEF Cores
    <3> QED
      BY <2>8, <3>1, <3>2
  <2>9. CASE RxLeave
    BY <2>9, RxLeaveRegs
  <2>10. CASE MeasureIdle
    BY <2>10, MeasureIdleRegs
  <2>11. CASE Tail
    BY <2>11, TailRegs
  <2> QED
    BY <1>7, <2>1, <2>2, <2>3, <2>4, <2>5, <2>6, <2>7, <2>8, <2>9, <2>10, <2>11 DEF Calibrate
<1>8. CASE UNCHANGED vars
  BY <1>8, StillRegs DEF vars
<1> QED
  BY <1>1, <1>2, <1>3, <1>4, <1>5, <1>6, <1>7, <1>8 DEF Next

(* What the registers hold between the steps is what the property says.    *)
LEMMA RegsBack == CalInv /\ RegsInv => RegistersPutBack
<1> SUFFICES ASSUME CalInv, RegsInv, pc # "down"
             PROVE  OverridesOff /\ DacFollowsControl /\ CellsPutBack
  BY DEF RegistersPutBack
<1> DEFINE on == phy.power.ctrl
<1>1. /\ Rest(phy, on, Engines) /\ phy.rssi = phy.rssical /\ phy.ipa = board.ipa
  BY DEF RegsInv
<1>2. on \in BOOLEAN
  BY DEF CalInv, Remembered
<1> HIDE DEF on
<1>3. OverridesOff
  <2>1. {"OVER0", "OVER1", "OVER2", "INTC"} \subseteq Clear
    BY DEF Clear
  <2>2. \A c \in Cores : \A k \in Clear : phy.cell[k][c] = {}
    BY <1>1 DEF Rest
  <2>3. phy.lpf = FALSE
    BY <1>1 DEF Rest
  <2> QED
    BY <2>1, <2>2, <2>3 DEF OverridesOff
<1>4. ASSUME NEW c \in Cores
      PROVE  /\ phy.cell.AFEOVER[c] = IF on THEN {} ELSE {"dac"}
             /\ phy.cell.PAPD_EN[c] = (IF c \in Engines THEN {"on"} ELSE {}) \union
                                      (IF board.ipa /\ ~on THEN {"ext"} ELSE {})
  BY <1>1 DEF Rest
<1>5. DacFollowsControl
  <2>1. ASSUME NEW c \in Cores PROVE ("dac" \in phy.cell.AFEOVER[c]) = ~on
    BY <1>2, <1>4
  <2>2. ASSUME NEW c \in Cores, board.ipa PROVE ("ext" \in phy.cell.PAPD_EN[c]) = ~on
    <3>1. "ext" \in phy.cell.PAPD_EN[c] <=> ~on
      BY <1>4, <2>2
    <3> QED
      BY <1>2, <3>1
  <2> QED
    BY <2>1, <2>2 DEF DacFollowsControl, on
<1>6. CellsPutBack
  <2>1. {"AFECTL", "TXF_S0", "LUT_TRSW", "RSSIO", "CMD", "RFSEQCA", "DAC", "ATTEN"}
          \subseteq Clear
    BY DEF Clear
  <2>2. \A c \in Cores : \A k \in Clear : phy.cell[k][c] = {}
    BY <1>1 DEF Rest
  <2>3. ASSUME NEW c \in Cores
        PROVE  phy.cell.AFEOVER[c] \subseteq {"dac"}
    BY <1>4
  <2>4. ASSUME NEW c \in Cores
        PROVE  phy.cell.TSSI[c] \subseteq {"idle", "mux"}
    BY <1>1 DEF Rest
  <2>5. ASSUME NEW c \in Cores, pc \notin {"papd_1", "papd_out"}
        PROVE  ("on" \in phy.cell.PAPD_EN[c]) = board.ipa
    <3>1. c \in Engines <=> board.ipa
      BY <2>5 DEF Engines
    <3>2. "on" \in phy.cell.PAPD_EN[c] <=> c \in Engines
      BY <1>4
    <3>3. board.ipa \in BOOLEAN
      BY DEF CalInv, Shape
    <3> QED
      BY <3>1, <3>2, <3>3
  <2> QED
    BY <1>1, <2>1, <2>2, <2>3, <2>4, <2>5 DEF CellsPutBack
<1> QED
  BY <1>3, <1>5, <1>6

(***************************************************************************)
(* The theorems.                                                           *)
(***************************************************************************)
(* The inductive invariant: between two steps of a recalculation the search *)
(* is held in the two long calibrations only, the MAC is suspended for the  *)
(* caller and for nobody else, the control is off in the sequence and what  *)
(* its end puts back is still there.                                        *)
THEOREM CalInvariant == Spec => []CalInv
BY InitInv, NextInv, PTL DEF Spec

(* Every step of the PHY's init, of the recalculation and of the deferred   *)
(* calibration gives back the carrier search and the multiplier it took, on *)
(* the paths that fail too, and op_config and the periodic work give        *)
(* wl->mutex back with the MAC running, for every set of channels, powers   *)
(* and indices the loop may settle on.                                      *)
THEOREM StepsBalanced == Spec => []Balanced
<1>1. CalInv => Balanced
  <2> SUFFICES ASSUME CalInv PROVE Balanced
    OBVIOUS
  <2>1. /\ PowerOk(phy.power) /\ Typed(phy)
        /\ pc \in InSequence \union {"down", "idle", "recalc", "return"}
        /\ board \in [rev : Revs, ipa : BOOLEAN]
    BY DEF CalInv, Shape, Leveled
  <2>2. mac \in -1..2
    <3>1. Base \in {0, 1}
      BY DEF Base
    <3> QED
      BY <3>1 DEF CalInv, MacCounted
  <2>3. phy.search.deaf = IF pc \in Holding THEN 1 ELSE 0
    BY DEF CalInv, SearchHeld, Held, Free
  <2>4. phy.search.on = (pc \in Holding)
    <3>1. CASE pc \in Holding
      <4>1. phy.search.on = TRUE
        BY <3>1 DEF CalInv, SearchHeld, Held
      <4> QED
        BY <3>1, <4>1
    <3>2. CASE pc \notin Holding
      <4>1. phy.search.on = FALSE /\ (pc \in Holding) = FALSE
        BY <3>2 DEF CalInv, SearchHeld, Free
      <4> QED
        BY <4>1
    <3> QED
      BY <3>1, <3>2
  <2>5. phy.search.hang = (board.rev = 4)
    <3>1. phy.search.hang = IF board.rev = 4 THEN TRUE ELSE FALSE
      BY DEF CalInv, SearchHeld
    <3> QED
      BY <3>1
  <2>6. TypeOK
    BY <2>1, <2>2, <2>3 DEF TypeOK, CalInv, Shape, PowerOk, Typed
  <2>7. PlaybackStopped /\ MacGivenBack
    BY DEF CalInv, SearchHeld, MacCounted, PlaybackStopped, MacGivenBack
  <2> QED
    BY <2>3, <2>4, <2>5, <2>6, <2>7 DEF Balanced, SearchReleased
<1> QED
  BY <1>1, CalInvariant, PTL

(* A calibration leaves the transmitter as it found it: none of the disables *)
(* inside it overwrites the index that the first remembered, the index that  *)
(* was forced to read the gains is gone before they are used, and at the end *)
(* both chains are on the index the loop had, also if a phase failed for     *)
(* want of memory.                                                           *)
THEOREM TransmitterAsFound == Spec => []TransmitterPutBack
<1>1. CalInv => TransmitterPutBack
  <2> SUFFICES ASSUME CalInv PROVE TransmitterPutBack
    OBVIOUS
  <2>1. ControlStaysOff
    BY DEF CalInv, Remembered, Sequence, ControlStaysOff
  <2> QED
    BY <2>1 DEF CalInv, Remembered, TransmitterPutBack
<1> QED
  BY <1>1, CalInvariant, PTL

(* What b43_nphy_save_cal keeps as the calibration of a channel was measured *)
(* on it: no order of channel switches, failures and recalculations saves a  *)
(* receiver's result beside a transmitter's of another channel.              *)
THEOREM MeasuredTogether == Spec => []SavedTogether
<1>1. CalInv => SavedTogether
  BY DEF CalInv, Together
<1> QED
  BY <1>1, CalInvariant, PTL

(* Every step of the init, of the recalculation and of the calibration      *)
(* hands the registers it took back: between two of them no override is on  *)
(* but the converter's gain and the amplifier's offset, which follow the    *)
(* control, and the routing, the couplers and the calibration cells are as  *)
(* the init left them.                                                      *)
THEOREM RegistersHandedBack == Spec => []RegistersPutBack
<1>1. Init => CalInv /\ RegsInv
  BY InitInv DEF Init, RegsInv
<1>2. CalInv /\ RegsInv /\ [Next]_vars => (CalInv /\ RegsInv)'
  BY NextInv, NextRegs
<1> QED
  BY <1>1, <1>2, RegsBack, PTL DEF Spec
=============================================================================
