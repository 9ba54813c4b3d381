--------------------------- MODULE MCFactoryRestore ---------------------------
(* Small instances of FactoryRestore for TLC: one network with a password  *)
(* and an open one.                                                        *)
EXTENDS FactoryRestore

CONSTANTS home, cafe, secret

MCSsids == {home, cafe}
MCPassword == [s \in MCSsids |-> IF s = home THEN secret ELSE None]
=============================================================================
