----------------------------- MODULE MCGroupCalls -----------------------------
(* GroupCalls for TLC; the .cfg files give the constants their values.       *)
EXTENDS GroupCalls
=============================================================================
