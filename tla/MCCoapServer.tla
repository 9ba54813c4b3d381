---------------------------- MODULE MCCoapServer ----------------------------
(* CoapServer for TLC: notifiers and phones are model values of the cfg.      *)
EXTENDS CoapServer, TLC

Symmetry == Permutations(Notifiers)
=============================================================================
