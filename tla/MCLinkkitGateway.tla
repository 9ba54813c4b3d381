-------------------------- MODULE MCLinkkitGateway --------------------------
(* LinkkitGateway for TLC: threads and devices are model values of the cfg.   *)
EXTENDS LinkkitGateway
=============================================================================
