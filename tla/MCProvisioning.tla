--------------------------- MODULE MCProvisioning ---------------------------
(* Instances of Provisioning for TLC: how the RS may be started.           *)
EXTENDS Provisioning

(* As README.md says, and with the LDevID instead of the RS certificate.   *)
ReadmeCommands == {[as_cert |-> "as", pair |-> "rs"], [as_cert |-> "as", pair |-> "ldevid"]}

(* What setup_device prints when it is done.                               *)
PrintedCommand == {[as_cert |-> "ca", pair |-> "ldevid"]}
=============================================================================
