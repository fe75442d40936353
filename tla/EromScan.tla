------------------------------ MODULE EromScan ------------------------------
(***************************************************************************)
(* bcma/scan.c: the walk over the enumeration ROM of the backplane.  The   *)
(* ROM is a sequence of words; one call of bcma_get_next_core() reads the  *)
(* words of one component and either describes a core, passes over what is *)
(* not one, or gives up.  bcma_bus_scan() calls it until the end mark, the *)
(* end of the mapped window or an error.                                   *)
(*                                                                         *)
(* A word is [tag, ...]: "ci" (both words of a component's identification  *)
(* carry this tag), "mp" a master port, "addr" an address descriptor,      *)
(* "size" and "high" the words an address descriptor may have after it,    *)
(* "end" the end mark, "none" a word that is not valid.                    *)
(***************************************************************************)
EXTENDS Naturals, Sequences, FiniteSets, FiniteSetsExt

CONSTANTS
  Roms,         (* the ROMs a chip may have: [words, comps, whole], where     *)
                (* comps are the components the words were made from          *)
  Window,       (* words in the mapped window (BCMA_CORE_SIZE / 4)            *)
  Wrapperless   (* bus->wrapperless                                           *)

ASSUME WindowAssumption == Window \in Nat \ {0}
ASSUME WrapperlessAssumption == Wrapperless \in BOOLEAN

VARIABLES
  rom,        (* the ROM of this chip                                         *)
  ptr,        (* eromptr: the next word to read, counted from 1               *)
  coreNum,    (* core_num                                                     *)
  list,       (* bus->cores: [id, index, unit, maps]                          *)
  scan,       (* "idle", "running", "done", an error, "overrun"               *)
  window      (* whether the ROM's window is mapped                           *)

scanVars == <<rom, ptr, coreNum, list, scan, window>>

Blank == [tag |-> "none"]
WordAt(w, p) == IF p <= Len(w) THEN w[p] ELSE Blank
At(p) == WordAt(rom.words, p)

IsCi(p) == At(p).tag = "ci"

(* bcma_erom_skip_component: on to the next identification or end mark; the *)
(* loop has no bound, and beyond the window there is nothing to read.       *)
Beyond == Window + 2
SkipTo(p) ==
  LET stops == {q \in p..Window : At(q).tag \in {"ci", "end"}}
  IN  IF stops = {} THEN Beyond ELSE Min(stops)

BridgeAt(w, p) == WordAt(w, p).tag = "addr" /\ WordAt(w, p).type = "bridge"
IsBridge(p) == BridgeAt(rom.words, p)

DescAt(w, p, type, port) ==
  WordAt(w, p).tag = "addr" /\ WordAt(w, p).type = type /\ WordAt(w, p).port = port
IsDesc(p, type, port) == DescAt(rom.words, p, type, port)

(* The words a descriptor takes: itself, the high half of a 64 bit address, *)
(* a size and the high half of that.                                        *)
WordsFrom(w, p) ==
  LET size == IF WordAt(w, p).wide THEN 2 ELSE 1
  IN  IF ~WordAt(w, p).sized THEN size
      ELSE IF WordAt(w, p + size).tag = "size" /\ WordAt(w, p + size).wide THEN size + 2
      ELSE size + 1
DescWords(p) == WordsFrom(rom.words, p)

(* After every descriptor of one port, and of the ports first..first+n-1.   *)
RunEnd(type, port, p) ==
  LET end[q \in p..(Window + 4)] ==
        IF IsDesc(q, type, port) THEN end[q + DescWords(q)] ELSE q
  IN  end[p]

PortsEnd(type, first, n, p) ==
  LET end[i \in 0..n] ==
        IF i = 0 THEN p ELSE RunEnd(type, first + i - 1, end[i - 1])
  IN  end[n]

Gives(err, p) == [err |-> err, ptr |-> p, id |-> "", wrap |-> FALSE]

(* What passes for a core although it has no wrapper.                       *)
NeedsNoWrapper(id) ==
  id \in {"PMU"} \union (IF Wrapperless THEN {"CC", "D11", "SHIM"} ELSE {})

NoWrapperIsNoCore(cia, cib) == cib.mw + cib.sw = 0
NotACore(cia, cib) == cib.mw + cib.sw = 0 /\ ~NeedsNoWrapper(cia.id)

(* The first slave descriptor of port 0 gives the registers; a bridge in    *)
(* its place is passed over.                                                *)
NoRegisters(q) ==
  LET b == IF IsDesc(q, "slave", 0) THEN q + DescWords(q) ELSE q
  IN  IF IsDesc(b, "bridge", 0) /\ At(b).addr # 0
        THEN Gives("ENXIO", b + DescWords(b))
        ELSE Gives("EILSEQ", b)

(* The slave ports, the master wrappers, the slave wrappers; a core with    *)
(* more than one slave port counts its slave wrappers from 1.               *)
Ports(id, cib, q) ==
  LET slaves == PortsEnd("slave", 0, cib.sp, q)
      masters == PortsEnd("mwrap", 0, cib.mw, slaves)
      hack == IF cib.sp = 1 THEN 0 ELSE 1
      first == IF cib.mw > 0 THEN IsDesc(slaves, "mwrap", 0) /\ At(slaves).addr # 0
               ELSE cib.sw > 0 /\ IsDesc(masters, "swrap", hack) /\ At(masters).addr # 0
  IN  [err |-> "none", id |-> id, wrap |-> first,
       ptr |-> PortsEnd("swrap", hack, cib.sw, masters)]

NextCore ==
  LET cia == At(ptr)
      cib == At(ptr + 1)
      q == ptr + 2 + cib.mp
      skipped(err) == Gives(err, SkipTo(ptr + 2))
  IN  CASE cia.tag = "end" -> Gives("ESPIPE", ptr)
        [] cia.tag \notin {"ci", "end"} -> Gives("EILSEQ", ptr)
        [] IsCi(ptr) /\ ~IsCi(ptr + 1) -> Gives("EILSEQ", ptr + 2)
        [] OTHER ->
             IF cia.id = "ARMDEFAULT" \/ cib.sp = 0 \/ NotACore(cia, cib)
                \/ IsBridge(ptr + 2)
               THEN skipped("ENXIO")
             ELSE IF \E i \in DOMAIN list : list[i].index = coreNum
               THEN skipped("ENODEV")
             ELSE IF \E m \in (ptr + 2)..(q - 1) : At(m).tag # "mp"
               THEN Gives("EILSEQ", q)
             ELSE IF IsDesc(q, "slave", 0) /\ At(q).addr # 0
               THEN Ports(cia.id, cib, q + DescWords(q))
             ELSE NoRegisters(q)

(* bcma_find_core_reverse: one more than the last core of the same kind.    *)
Unit(id) ==
  LET same == {i \in DOMAIN list : list[i].id = id}
  IN  IF same = {} THEN 0 ELSE list[Max(same)].unit + 1

(* bcma_init_bus: an empty bus.                                             *)
ScanInit ==
  /\ rom \in Roms
  /\ ptr = 1 /\ coreNum = 0 /\ list = <<>> /\ scan = "idle" /\ window = FALSE

EmptyBus ==
  /\ ptr' = 1 /\ coreNum' = 0 /\ list' = <<>> /\ scan' = "idle" /\ window' = FALSE
  /\ UNCHANGED rom

ScanStart ==
  /\ scan = "idle"
  /\ \/ scan' = "running" /\ window' = TRUE
     \/ scan' = "ENOMEM" /\ UNCHANGED window
  /\ UNCHANGED <<rom, ptr, coreNum, list>>

(* iounmap(eromptr) takes the page the pointer has come to.                 *)
Unmapped(p) == window' = ~(p <= Window)

ScanPasses ==
  /\ scan = "running" /\ ptr <= Window
  /\ NextCore.err \in {"ENXIO", "ENODEV"}
  /\ ptr' = NextCore.ptr
  /\ scan' = IF NextCore.ptr = Beyond THEN "overrun" ELSE "running"
  /\ coreNum' = IF NextCore.err = "ENODEV" THEN coreNum + 1 ELSE coreNum
  /\ UNCHANGED <<rom, list, window>>

ScanStops ==
  /\ scan = "running"
  /\ \/ ptr > Window /\ scan' = "done" /\ UNCHANGED ptr
     \/ /\ ptr <= Window /\ NextCore.err \in {"ESPIPE", "EILSEQ"}
        /\ ptr' = NextCore.ptr
        /\ scan' = IF NextCore.err = "ESPIPE" THEN "done" ELSE "EILSEQ"
  /\ Unmapped(ptr')
  /\ UNCHANGED <<rom, coreNum, list>>

(* No memory for a core, or for the mapping of its registers: what was      *)
(* mapped of this core is unmapped, the cores before it stay on the list.   *)
ScanNoMemory ==
  /\ scan = "running" /\ ptr <= Window
  /\ scan' = "ENOMEM"
  /\ Unmapped(ptr)
  /\ UNCHANGED <<rom, ptr, coreNum, list>>

ScanFinds ==
  /\ scan = "running" /\ ptr <= Window
  /\ NextCore.err = "none"
  /\ list' = Append(list, [id |-> NextCore.id, index |-> coreNum,
                           unit |-> Unit(NextCore.id),
                           maps |-> IF NextCore.wrap THEN 2 ELSE 1])
  /\ coreNum' = coreNum + 1
  /\ ptr' = NextCore.ptr
  /\ UNCHANGED <<rom, scan, window>>

ScanNext == ScanPasses \/ ScanStops \/ ScanNoMemory \/ ScanFinds

(***************************************************************************)
(* A whole ROM, from the components it was made from: which components are *)
(* cores, and where their words stand.                                     *)
(***************************************************************************)
Components == [id : STRING, mp : Nat, sp : Nat, mw : Nat, sw : Nat, bridge : BOOLEAN,
               at : Nat \ {0}]

IsCore(c) ==
  /\ c.id # "ARMDEFAULT" /\ c.sp > 0 /\ ~c.bridge
  /\ c.mw + c.sw > 0 \/ NeedsNoWrapper(c.id)

(* From a to b stand the descriptors of one port, one after the other, and *)
(* at b there is not another.                                               *)
RunOf(w, type, port, a, b) ==
  /\ a <= b
  /\ \E starts \in SUBSET (a..(b - 1)) :
       /\ a < b => a \in starts
       /\ \A p \in starts : /\ DescAt(w, p, type, port)
                            /\ p + WordsFrom(w, p) \in starts \union {b}
  /\ ~DescAt(w, b, type, port)

PortsOf(w, type, first, n, a, b) ==
  \E edge \in [0..n -> a..b] :
    /\ edge[0] = a /\ edge[n] = b
    /\ \A i \in 1..n : RunOf(w, type, first + i - 1, edge[i - 1], edge[i])

Given(w, p, type, port) == DescAt(w, p, type, port) /\ w[p].addr # 0

(* The words of core c from p, where its address descriptors begin, to q.   *)
CoreLaid(w, c, p, q) ==
  LET hack == IF c.sp = 1 THEN 0 ELSE 1
  IN  /\ Given(w, p, "slave", 0)
      /\ \E s, m \in p..q :
           /\ PortsOf(w, "slave", 0, c.sp, p, s)
           /\ PortsOf(w, "mwrap", 0, c.mw, s, m)
           /\ PortsOf(w, "swrap", hack, c.sw, m, q)
           /\ c.mw > 0 => Given(w, s, "mwrap", 0)
           /\ c.mw = 0 /\ c.sw > 0 => Given(w, m, "swrap", hack)

Laid(w, c, p, q) ==
  /\ WordAt(w, p).tag = "ci" /\ w[p].id = c.id
  /\ WordAt(w, p + 1).tag = "ci"
  /\ w[p + 1].mp = c.mp /\ w[p + 1].sp = c.sp /\ w[p + 1].mw = c.mw /\ w[p + 1].sw = c.sw
  /\ p + 2 <= q /\ \A m \in (p + 2)..(q - 1) : WordAt(w, m).tag \notin {"ci", "end"}
  /\ BridgeAt(w, p + 2) <=> c.bridge
  /\ IsCore(c) => /\ \A m \in (p + 2)..(p + c.mp + 1) : WordAt(w, m).tag = "mp"
                  /\ CoreLaid(w, c, p + 2 + c.mp, q)

(* Where component k begins; behind the last there is the end mark.         *)
Begins(r, k) == IF k <= Len(r.comps) THEN r.comps[k].at ELSE Len(r.words)

WellFormed(r) ==
  /\ r.comps \in Seq(Components)
  /\ Len(r.words) \in 1..Window /\ r.words[Len(r.words)].tag = "end"
  /\ Begins(r, 1) = 1
  /\ \A k \in DOMAIN r.comps : Laid(r.words, r.comps[k], Begins(r, k), Begins(r, k + 1))

ASSUME RomsAssumption == \A r \in Roms : r.whole => WellFormed(r)

(***************************************************************************)
(* What the scan promises, from the components and not from their words:   *)
(* the list has the cores among the first n components in the ROM's order, *)
(* numbered, each kind counted from zero.                                  *)
(***************************************************************************)
Kept(comps, n) == {k \in 1..n : IsCore(comps[k])}

CoreOf(comps, k) ==
  [id |-> comps[k].id, index |-> Cardinality(Kept(comps, k - 1)),
   unit |-> Cardinality({j \in Kept(comps, k - 1) : comps[j].id = comps[k].id}),
   maps |-> IF comps[k].mw + comps[k].sw > 0 THEN 2 ELSE 1]

ListsCores(comps, n) ==
  /\ Len(list) = Cardinality(Kept(comps, n))
  /\ \A k \in Kept(comps, n) : list[Cardinality(Kept(comps, k - 1)) + 1] = CoreOf(comps, k)
=============================================================================
