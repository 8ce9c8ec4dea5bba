----------------------------- MODULE MCVmmSched -----------------------------
(* VmmSched for TLC; the .cfg files give the constants their values.         *)
EXTENDS VmmSched
=============================================================================
