------------------------------ MODULE MCWlDiag ------------------------------
(***************************************************************************)
(* Kernels and wl binaries for WlDiag: every way a function can be hooked, *)
(* or not, and every way loading can end.                                  *)
(***************************************************************************)
EXTENDS WlDiag, TLC

Plain == [exists |-> TRUE, listed |-> FALSE, branch |-> 0, shortj |-> FALSE, near |-> TRUE,
          retcap |-> FALSE, nargx |-> FALSE, filtered |-> FALSE, sites |-> <<>>]
Write == Plain
ReadReg == [Plain EXCEPT !.retcap = TRUE, !.filtered = TRUE]
CoreReg == [Plain EXCEPT !.retcap = TRUE, !.nargx = TRUE]
ReadRadio == [Plain EXCEPT !.shortj = TRUE, !.retcap = TRUE, !.branch = 3]
BranchLate == [Plain EXCEPT !.branch = 2]
BranchFirst == [Plain EXCEPT !.branch = 1]
Pair(h, l) == [hi |-> h, lo |-> l]
Called == [BranchFirst EXCEPT !.sites = <<Pair(5, 6), Pair(7, 8), Pair(9, 10)>>, !.retcap = TRUE]
Shared == [BranchFirst EXCEPT !.sites = <<Pair(5, 7), Pair(6, 7)>>]

K34(hooks) == [version |-> "3.4", arm |-> TRUE, flush |-> TRUE, preempt |-> FALSE,
               syms |-> FALSE, klookup |-> FALSE, export |-> TRUE, pool |-> 2, hooks |-> hooks]
K26(hooks) == [K34(hooks) EXCEPT !.version = "2.6.30", !.export = FALSE]

MCBuilds ==
  { K34(<<ReadReg, BranchLate>>), [K34(<<ReadRadio>>) EXCEPT !.preempt = TRUE, !.pool = 1],
    K34(<<[ReadRadio EXCEPT !.near = FALSE], Called>>),
    [K34(<<Write>>) EXCEPT !.arm = FALSE], K26(<<BranchLate>>),
    K26(<<CoreReg>>), [K26(<<Called>>) EXCEPT !.klookup = TRUE],
    [K26(<<[Write EXCEPT !.listed = TRUE], ReadReg>>) EXCEPT !.syms = TRUE],
    [K26(<<Write>>) EXCEPT !.flush = FALSE] }

Sym == Permutations(Tasks)

SharedBuilds == { K34(<<Shared>>), K26(<<Shared>>) }
=============================================================================
