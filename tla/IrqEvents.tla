----------------------------- MODULE IrqEvents ------------------------------
(***************************************************************************)
(* What b43's interrupt path promises: an event the device reports waits   *)
(* until the thread takes it up, and is forgotten only while the core is   *)
(* down.  IrqPath shows that the hard handler and the interrupt thread     *)
(* keep this promise.                                                      *)
(***************************************************************************)
CONSTANT Events       (* the interrupt reasons the device reports *)

VARIABLES core,       (* "up" or "down"                           *)
          waiting,    (* reported, not yet taken up by the thread *)
          serving     (* taken up by the thread                   *)

vars == <<core, waiting, serving>>

Init == core = "down" /\ waiting = {} /\ serving = {}

Report ==
  \E S \in SUBSET Events : waiting' = waiting \union S /\ UNCHANGED <<core, serving>>

(* An event reported twice may be taken up and wait again. *)
Begin ==
  /\ serving' \subseteq waiting
  /\ waiting' \subseteq waiting
  /\ waiting \subseteq waiting' \union serving'
  /\ UNCHANGED core

(* Serving an event may make the device report more. *)
End ==
  \E S \in SUBSET Events :
    serving' = {} /\ waiting' = waiting \union S /\ UNCHANGED core

GoDown == core' = "down" /\ UNCHANGED <<waiting, serving>>

Drop == core = "down" /\ UNCHANGED core /\ waiting' \subseteq waiting /\ serving' = {}

GoUp == core = "down" /\ core' = "up" /\ waiting' = {} /\ serving' = {}

Next == Report \/ Begin \/ End \/ GoDown \/ Drop \/ GoUp

Spec == Init /\ [][Next]_vars
============================================================================
