--------------------------- MODULE MCDriverAttach ---------------------------
(***************************************************************************)
(* ROMs for DriverAttach: component lists written out as words the way the *)
(* chip stores them, whole ones and spoiled ones.                          *)
(***************************************************************************)
EXTENDS DriverAttach, TLC

Comp(id, mp, sp, mw, sw) ==
  [id |-> id, mp |-> mp, sp |-> sp, mw |-> mw, sw |-> sw, bridge |-> FALSE]

Bare(id) == Comp(id, 1, 1, 0, 0)
Bridge == [Comp("OTHER", 0, 1, 1, 0) EXCEPT !.bridge = TRUE]

Repeat(n, word(_)) == [i \in 1..n |-> word(i)]

Addr(type, port, wide, sized) ==
  [tag |-> "addr", type |-> type, port |-> port, addr |-> 1, wide |-> wide, sized |-> sized]

(* A wrapper of a core with several slave ports is found from port 1 on;    *)
(* the registers of the second kind of core have 64 bit addresses.          *)
WordsOf(c) ==
  LET ci == [tag |-> "ci"] @@ c
      wide == c.id = "OTHER"
      size == IF wide THEN <<[tag |-> "high"], [tag |-> "size", wide |-> TRUE], [tag |-> "high"]>>
              ELSE <<>>
      hack == IF c.sp = 1 THEN 0 ELSE 1
      slave(i) == Addr("slave", i - 1, FALSE, FALSE)
  IN  <<ci, ci>>
      \o (IF c.bridge THEN <<Addr("bridge", 0, FALSE, FALSE)>> ELSE <<>>)
      \o Repeat(c.mp, LAMBDA i : [tag |-> "mp"])
      \o (IF c.sp = 0 THEN <<>>
          ELSE <<Addr("slave", 0, wide, wide)>> \o size
               \o Repeat(c.sp - 1, LAMBDA i : slave(i + 1)))
      \o Repeat(c.mw, LAMBDA i : Addr("mwrap", i - 1, FALSE, FALSE))
      \o Repeat(c.sw, LAMBDA i : Addr("swrap", i - 1 + hack, FALSE, FALSE))

RomWords(comps) ==
  LET all[i \in 0..Len(comps)] ==
        IF i = 0 THEN <<>> ELSE all[i - 1] \o WordsOf(comps[i])
  IN  all[Len(comps)] \o <<[tag |-> "end"]>>

(* Each component with where its words begin.                               *)
Placed(comps) ==
  [k \in DOMAIN comps |-> [at |-> Len(RomWords(SubSeq(comps, 1, k - 1)))] @@ comps[k]]

Whole(comps) == [words |-> RomWords(comps), comps |-> Placed(comps), whole |-> TRUE]
Spoiled(comps, p) ==
  [words |-> [RomWords(comps) EXCEPT ![p] = [tag |-> "none"]], comps |-> Placed(comps),
   whole |-> FALSE]

(* What the driver needs, a larger backplane, and one with a core that is   *)
(* registered early; only the first has the core the driver is for.         *)
Small == <<Bare("CC"), Bare("D11")>>
Large == <<Bare("CC"), Comp("ARMDEFAULT", 0, 1, 1, 0), Comp("OTHER", 1, 1, 1, 0), Bare("SHIM"),
           Bridge, Comp("OTHER", 0, 1, 0, 1), Bare("PMU"), Comp("OTHER", 0, 0, 1, 0)>>
WithFlash == <<Comp("NAND", 0, 1, 1, 1), Bare("SHIM"), Comp("OTHER", 0, 3, 0, 2), Comp("OTHER", 1, 2, 0, 0)>>
(* One that fills the window of 48 words, without an end mark.              *)
Full == <<Comp("CC", 21, 1, 0, 0), Comp("CC", 21, 1, 0, 0)>>
Filled == [words |-> SubSeq(RomWords(Full), 1, 48), comps |-> Placed(Full), whole |-> FALSE]

MCRoms == {Whole(Small), Whole(Large), Whole(WithFlash), Filled,
           Spoiled(Small, 7), Spoiled(Small, 9), Spoiled(Large, Len(RomWords(Large)))}
=============================================================================
