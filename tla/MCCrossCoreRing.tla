--------------------------- MODULE MCCrossCoreRing ---------------------------
(* CrossCoreRing for TLC; the .cfg files give the constants their values.   *)
EXTENDS CrossCoreRing
=============================================================================
