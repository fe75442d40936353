----------------------------- MODULE MCSettings -----------------------------
(* The sets of settings that the runs of Settings choose from. *)
EXTENDS Settings

(* One that stays in force and one beyond the 4 bits of the counter. *)
MCConfs == {[listen |-> 1, retry |-> 7], [listen |-> 10, retry |-> 31]}

(* An interface before it has a network, a network, and another that differs *)
(* from it in what the firmware is told apart from the bssid.                *)
MCBsses == {[bssid |-> Zero, interval |-> 0, basic |-> "all", slot |-> FALSE],
            [bssid |-> "a", interval |-> 100, basic |-> "all", slot |-> TRUE],
            [bssid |-> "b", interval |-> 200, basic |-> "low", slot |-> FALSE]}

MCFilters == {{}, {"control", "allmulti"}}
==============================================================================
