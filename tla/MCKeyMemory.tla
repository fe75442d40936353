---------------------------- MODULE MCKeyMemory ----------------------------
(***************************************************************************)
(* KeyMemory with three stations for two pairwise slots and one group key. *)
(***************************************************************************)
EXTENDS KeyMemory

MCStations == {"a", "b", "c"}

MCKeys ==
  {[sta |-> "a", alg |-> "TKIP", idx |-> 0], [sta |-> "b", alg |-> "AES", idx |-> 0],
   [sta |-> "c", alg |-> "TKIP", idx |-> 0], [sta |-> Bcast, alg |-> "WEP", idx |-> 0]}
============================================================================
