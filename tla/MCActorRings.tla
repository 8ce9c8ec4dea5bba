---------------------------- MODULE MCActorRings ----------------------------
(* ActorRings for TLC: three actors under a test, in chains and diamonds of  *)
(* handles, on one and two cores.                                            *)
EXTENDS ActorRings, TLC

\* The test drives actors 1 and 3; 1 drives 2 and 3; 2 drives 3.
MCCalls == (0 :> {1, 3}) @@ (1 :> {2, 3}) @@ (2 :> {3}) @@ (3 :> {})
\* The test awaits actor 1, and 1 awaits 2 and 3; the others only send.
MCAwaits == (0 :> {1}) @@ (1 :> {2, 3}) @@ (2 :> {}) @@ (3 :> {})
\* Actor 1 has room for two messages; it stays on core 0, so that every
\* request ring has one slot.
MCMailboxCap == (1 :> 2) @@ (2 :> 1) @@ (3 :> 1)

On(a, b, c) == (0 :> 0) @@ (1 :> a) @@ (2 :> b) @@ (3 :> c)

\* One core; and two cores with one actor on the secondary core, so that a
\* full mailbox there never holds up another actor's edge.
MCPlacements == {On(0, 0, 0), On(0, 1, 0), On(0, 0, 1)}

\* What the theorems assume of an image holds in this one.
ASSUME MCAssumption == RingsHoldOne
=============================================================================
