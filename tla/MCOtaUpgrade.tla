---------------------------- MODULE MCOtaUpgrade ----------------------------
(* OtaUpgrade for TLC: two firmwares and a configuration of two blocks.     *)
EXTENDS OtaUpgrade
=============================================================================
